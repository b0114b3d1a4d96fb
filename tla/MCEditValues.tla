----------------------------- MODULE MCEditValues -----------------------------
EXTENDS EditValues

CONSTANTS exposure, lit, preset, temperature, various, yellow, power

\* A float outside of white balance and the switch of its module, the preset,
\* three floats of which two have the same rank, and the switch of white balance.
MCSettings == {exposure, lit, preset, temperature, various, yellow, power}
MCWhiteBalance == MCSettings \ {exposure, lit}
MCFloats == {temperature, various, yellow}
MCKind == [s \in MCSettings |-> CASE s = preset -> "choice"
                                  [] s \in {lit, power} -> "bool"
                                  [] OTHER -> "float"]
MCModes == [s \in MCSettings |-> IF MCKind[s] = "float" THEN {"set", "delta"}
                                 ELSE {"set"}]
MCLowest == [s \in MCSettings |-> 0]
MCHighest == [s \in MCSettings |-> CASE s \in {lit, power} -> 1 [] s = preset -> 3
                                     [] s = exposure -> 8 [] OTHER -> 2]
MCLeaf == [s \in MCWhiteBalance |-> CASE s = power -> 1 [] s = preset -> 2
                                      [] s = temperature -> 3
                                      [] s = various -> 4 [] OTHER -> 5]
MCFloatRank == [s \in MCFloats |-> IF s = temperature THEN 3 ELSE 9]

\* The slider of exposure has a step of 2 and rounds a half up.
MCStored == [s \in {exposure} \cup MCFloats |->
               [v \in 0 .. MCHighest[s] |->
                  IF s = exposure THEN 2 * ((v + 1) \div 2) ELSE v]]
MCError == [s \in MCSettings |-> IF s = exposure THEN 1 ELSE 0]

MCSwitch == [s \in MCSettings \ {lit, power} |-> IF s = exposure THEN lit ELSE power]
MCAlways == {preset, temperature}

\* Preset 0 is a lamp, 2 is "user defined", 3 is the camera reference; the
\* coefficients follow the temperature, and the temperature follows them.
MCFollow ==
  [s \in {preset} \cup MCFloats |-> [v \in 0 .. MCHighest[s] |->
     CASE s = preset -> [t \in MCFloats |-> IF v = 0 THEN 0 ELSE 2]
       [] s = temperature -> [t \in {various, yellow} |-> v]
       [] OTHER -> [t \in {temperature} |-> v]]]
MCUserDefined == 2
MCReferences == {3, 4}

\* The module of exposure is off.
MCBase == [s \in MCSettings |-> CASE s = exposure -> 2 [] s = lit -> 0 [] OTHER -> 1]

Set(s, v) == [setting |-> s, mode |-> "set", value |-> v]
Delta(s, v) == [setting |-> s, mode |-> "delta", value |-> v]

\* Three of the first delta run into the end of the range, the second is half a
\* step of the slider, the last operation is refused.
MCOperations == {Delta(exposure, 3), Delta(exposure, -1), Set(lit, 0), Set(power, 1),
                 Set(preset, 0), Set(preset, 3), Delta(temperature, 1),
                 Delta(yellow, 1), Set(various, 0), Delta(preset, 1)}
=============================================================================
