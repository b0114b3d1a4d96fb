-------------------------- MODULE MCBridgeRequests --------------------------
(* Instances of BridgeRequests for TLC. *)
EXTENDS BridgeRequests, TLC

CONSTANTS r1, r2, c1, c2

\* Two calls of one conversation.
OneConversation == r1 :> c1 @@ r2 :> c1
\* Two calls of two conversations.
TwoConversations == r1 :> c1 @@ r2 :> c2

\* Swapping the calls maps the first instance to itself.
SwapCalls == Permutations({r1, r2})
=============================================================================
