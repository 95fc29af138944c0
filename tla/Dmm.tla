-------------------------------- MODULE Dmm --------------------------------
(***************************************************************************)
(* Angles as the texts of the result list, and back: fromDMM reads what    *)
(* toSDMM_PlugIn of OpenCPN wrote.  An angle is a number of seconds; Base  *)
(* seconds are a minute, Base minutes a degree.  A text is abstracted to   *)
(* its numbers, counted in parts of 1 / Degree so that a fraction of a     *)
(* minute or of a degree stays an integer, and to the letter of its        *)
(* hemisphere.                                                             *)
(***************************************************************************)
EXTENDS Integers, Sequences

CONSTANTS
  Base,
  Debris \* numbers atof may find where a number has no end of its own

ASSUME BaseAssumption == Base \in Nat \ {0}
ASSUME DebrisAssumption == Debris \subseteq Int

Degree == Base * Base
Abs(n) == IF n < 0 THEN - n ELSE n

Letters == {"N", "S", "E", "W", "none"}
Formats == {"degrees", "minutes", "seconds"}

(* toSDMM_PlugIn, in the format the user has chosen: 1 asks for a latitude *)
(* and 2 for a longitude.                                                  *)
Hemisphere(NEflag, a) ==
  IF NEflag = 1 THEN (IF a < 0 THEN "S" ELSE "N")
                ELSE (IF a < 0 THEN "W" ELSE "E")

toSDMM(NEflag, a, format) ==
  LET whole == (Abs(a) \div Degree) * Degree
      rest == Abs(a) % Degree
  IN  IF format = "degrees" THEN [numbers |-> <<a>>, letter |-> "none"]
      ELSE [numbers |-> IF format = "minutes"
                        THEN <<whole, rest * Base>>
                        ELSE <<whole, (rest \div Base) * Degree,
                               (rest % Base) * Degree>>,
            letter |-> Hemisphere(NEflag, a)]

(* S and W negate; next to a letter a minus sign only separates numbers.   *)
OnlyWest(letter) == IF letter = "W" THEN -1 ELSE 1
SignOf(letter) == IF letter \in {"S", "W"} THEN -1 ELSE 1

Stack(text, i) ==
  IF i \notin DOMAIN text.numbers THEN 0
  ELSE IF text.letter = "none" THEN text.numbers[i] ELSE Abs(text.numbers[i])

fromDMM(text) ==
  SignOf(text.letter)
    * ((Stack(text, 1) * Degree + Stack(text, 2) * Base + Stack(text, 3))
         \div Degree)

(* narrowbuf has a NUL for every character that is no part of a number and *)
(* none at its end: behind a text that ends with a digit, atof reads on in *)
(* bytes that nobody has written.                                          *)
EndsWithDigit(text) == text.letter = "none"
Readings(text) ==
  {fromDMM(text)} \union {n \in Debris : EndsWithDigit(text)}
=============================================================================
