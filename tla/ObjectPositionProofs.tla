------------------------ MODULE ObjectPositionProofs ------------------------
(***************************************************************************)
(* Proofs that storing, repairing and searching agree on what is on the    *)
(* map, for every angle and every set of old rows, and that the texts of   *)
(* the result list lead back to the object.                                *)
(***************************************************************************)
EXTENDS ObjectPosition, TLAPS

(* What this version has stored is on the map; that is why the repair      *)
(* leaves it alone.                                                        *)
PositionInv ==
  /\ TypeOK
  /\ \A o \in kept : HasDistance(o)
  /\ RepairKeepsStored
  /\ SearchNeverFails
  /\ JumpsToTheObject

(* The test of StoreNewObject lets only positions pass that                *)
(* DistanceMercatorFunc can measure to.                                    *)
LEMMA StoredIsOnMap ==
  ASSUME NEW lat \in Int, NEW lon \in Int,
         ~ OffTheMap(lat, OnWorldChart(lon))
  PROVE  /\ OnWorldChart(lon) \in Int
         /\ HasDistance([lat |-> lat, lon |-> OnWorldChart(lon)])
BY AnglesAssumption DEF OffTheMap, OnWorldChart, HasDistance

(* Division, as the digits of a text use it. *)
LEMMA DivisionWithRest ==
  ASSUME NEW u \in Nat, NEW d \in Nat \ {0}
  PROVE  /\ u \div d \in Nat
         /\ u % d \in Nat
         /\ u = (u \div d) * d + (u % d)
OBVIOUS

(* A multiple divides evenly.                                              *)
LEMMA DivisionOfMultiple ==
  ASSUME NEW x \in Int, NEW d \in Nat \ {0}
  PROVE  (x * d) \div d = x
OBVIOUS

(* A degree has parts.                                                     *)
LEMMA DegreeIsPositive ==
  Degree \in Nat \ {0}
<1>1. ASSUME NEW b \in Nat \ {0}
      PROVE  b * b \in Nat \ {0}
  BY <1>1
<1> QED
  BY <1>1, BaseAssumption DEF Degree

(* The numbers and the letter of a text stand for the angle they were made *)
(* of; ReadingsOfAngle says in which formats nothing else can be read.     *)
LEMMA RoundTrip ==
  ASSUME NEW n \in {1, 2}, NEW a \in Int, NEW f \in Formats
  PROVE  fromDMM(toSDMM(n, a, f)) = a
<1> DEFINE text == toSDMM(n, a, f)
           u == Abs(a)
           q == u \div Degree
           r == u % Degree
           sum == Stack(text, 1) * Degree + Stack(text, 2) * Base
                    + Stack(text, 3)
<1>1. /\ Base \in Nat \ {0}
      /\ Degree \in Nat \ {0}
      /\ Degree = Base * Base
  BY BaseAssumption, DegreeIsPositive DEF Degree
<1>2. u \in Nat
  BY DEF Abs
<1>3. q \in Nat /\ r \in Nat /\ u = q * Degree + r
  BY <1>1, <1>2, DivisionWithRest
<1>4. /\ q * Degree \in Nat
      /\ r * Base \in Nat
  BY <1>1, <1>3
<1>5. CASE f = "degrees"
  <2>1. text = [numbers |-> <<a>>, letter |-> "none"]
    BY <1>5 DEF toSDMM
  <2>2. Stack(text, 1) = a /\ Stack(text, 2) = 0 /\ Stack(text, 3) = 0
    BY <2>1 DEF Stack
  <2>3. sum = a * Degree
    BY <1>1, <2>2
  <2>4. sum \div Degree = a
    BY <1>1, <2>3, DivisionOfMultiple
  <2>5. SignOf(text.letter) = 1
    BY <2>1 DEF SignOf
  <2> QED
    BY <2>4, <2>5 DEF fromDMM
<1>6. ASSUME sum = u * Degree, text.letter = Hemisphere(n, a)
      PROVE  fromDMM(text) = a
  <2>1. sum \div Degree = u
    <3> HIDE DEF sum, u
    <3> QED
      BY <1>1, <1>2, <1>6, DivisionOfMultiple
  <2>2. SignOf(text.letter) = IF a < 0 THEN -1 ELSE 1
    BY <1>6 DEF SignOf, Hemisphere
  <2>3. SignOf(text.letter) * u = a
    BY <2>2 DEF Abs
  <2> QED
    BY <2>1, <2>3 DEF fromDMM
<1>7. CASE f = "minutes"
  <2>1. /\ text.numbers = <<q * Degree, r * Base>>
        /\ text.letter = Hemisphere(n, a)
    BY <1>7 DEF toSDMM
  <2>2. text.letter # "none"
    BY <2>1 DEF Hemisphere
  <2>3. /\ Stack(text, 1) = q * Degree
        /\ Stack(text, 2) = r * Base
        /\ Stack(text, 3) = 0
    <3> HIDE DEF text, q, r
    <3> QED
      BY <1>4, <2>1, <2>2 DEF Stack, Abs
  <2>4. sum = u * Degree
    <3>1. ASSUME NEW b \in Nat, NEW y \in Nat, NEW z \in Nat
          PROVE  (y * (b * b)) * (b * b) + (z * b) * b + 0
                   = (y * (b * b) + z) * (b * b)
      BY <3>1
    <3> HIDE DEF text, u, q, r
    <3> QED
      BY <1>1, <1>3, <2>3, <3>1
  <2> HIDE DEF sum, text, u
  <2> QED
    BY <1>6, <2>1, <2>4 DEF text
<1>8. CASE f = "seconds"
  <2> DEFINE m == r \div Base
             s == r % Base
  <2>1. /\ text.numbers = <<q * Degree, m * Degree, s * Degree>>
        /\ text.letter = Hemisphere(n, a)
    BY <1>8 DEF toSDMM
  <2>2. text.letter # "none"
    BY <2>1 DEF Hemisphere
  <2>3. m \in Nat /\ s \in Nat /\ r = m * Base + s
    BY <1>1, <1>3, DivisionWithRest
  <2>4. m * Degree \in Nat /\ s * Degree \in Nat
    BY <1>1, <2>3
  <2>5. /\ Stack(text, 1) = q * Degree
        /\ Stack(text, 2) = m * Degree
        /\ Stack(text, 3) = s * Degree
    <3> HIDE DEF text, q, r, m, s
    <3> QED
      BY <1>4, <2>1, <2>2, <2>4 DEF Stack, Abs
  <2>6. sum = u * Degree
    <3>1. ASSUME NEW b \in Nat, NEW y \in Nat, NEW v \in Nat, NEW w \in Nat
          PROVE  (y * (b * b)) * (b * b) + (v * (b * b)) * b + w * (b * b)
                   = (y * (b * b) + (v * b + w)) * (b * b)
      BY <3>1
    <3> HIDE DEF text, u, q, r, m, s
    <3> QED
      BY <1>1, <1>3, <2>3, <2>5, <3>1
  <2> HIDE DEF sum, text, u
  <2> QED
    BY <1>6, <2>1, <2>6 DEF text
<1> QED
  BY <1>5, <1>7, <1>8 DEF Formats

(* Only behind a text without a letter anything else can be read. *)
LEMMA ReadingsOfAngle ==
  ASSUME NEW n \in {1, 2}, NEW a \in Int, NEW f \in Formats,
         NEW r \in Readings(toSDMM(n, a, f))
  PROVE  /\ r \in Int
         /\ f # "degrees" => r = a
<1>1. fromDMM(toSDMM(n, a, f)) = a
  BY RoundTrip
<1>2. f # "degrees" => toSDMM(n, a, f).letter = Hemisphere(n, a)
  BY DEF toSDMM
<1>3. Hemisphere(n, a) # "none"
  BY DEF Hemisphere
<1> QED
  BY <1>1, <1>2, <1>3, DebrisAssumption DEF Readings, EndsWithDigit

(* An old database has rows of old versions only.                          *)
LEMMA PositionInvInit ==
  ASSUME Init
  PROVE  PositionInv
BY AnglesAssumption DEF Init, PositionInv, TypeOK, RepairKeepsStored,
   SearchNeverFails, JumpsToTheObject, Nowhere, Positions, Formats

(* Each step of the repair mends its kind of rows; new rows are stored on  *)
(* the map.                                                                *)
LEMMA PositionInvNext ==
  ASSUME PositionInv, [Next]_vars
  PROVE  PositionInv'
<1> USE AnglesAssumption
<1>1. CASE UNCHANGED vars
  BY <1>1 DEF vars, PositionInv, TypeOK, RepairKeepsStored, SearchNeverFails,
     JumpsToTheObject
<1>2. CASE Start \/ EndOfRun
  BY <1>2 DEF Start, EndOfRun, PositionInv, TypeOK, RepairKeepsStored,
     SearchNeverFails, JumpsToTheObject
<1>3. CASE FixEast
  <2> DEFINE Fix(o) == [o EXCEPT !.lon = IF @ > Half THEN @ - 2 * Half ELSE @]
  <2>1. \A o \in Positions :
          Fix(o) \in Positions /\ (HasDistance(o) => Fix(o) = o)
    BY DEF Positions, HasDistance
  <2>2. objects' = {Fix(o) : o \in objects} /\ kept' = kept /\ jump' = jump
    BY <1>3 DEF FixEast
  <2> HIDE DEF Fix
  <2>3. objects' \in SUBSET Positions /\ RepairKeepsStored'
    BY <2>1, <2>2 DEF PositionInv, TypeOK, RepairKeepsStored
  <2> QED
    BY <1>3, <2>2, <2>3 DEF FixEast, PositionInv, TypeOK, SearchNeverFails,
       JumpsToTheObject
<1>4. CASE FixWest
  <2> DEFINE Fix(o) == [o EXCEPT !.lon = IF @ < - Half THEN @ + 2 * Half ELSE @]
  <2>1. \A o \in Positions :
          Fix(o) \in Positions /\ (HasDistance(o) => Fix(o) = o)
    BY DEF Positions, HasDistance
  <2>2. objects' = {Fix(o) : o \in objects} /\ kept' = kept /\ jump' = jump
    BY <1>4 DEF FixWest
  <2> HIDE DEF Fix
  <2>3. objects' \in SUBSET Positions /\ RepairKeepsStored'
    BY <2>1, <2>2 DEF PositionInv, TypeOK, RepairKeepsStored
  <2> QED
    BY <1>4, <2>2, <2>3 DEF FixWest, PositionInv, TypeOK, SearchNeverFails,
       JumpsToTheObject
<1>5. CASE DeleteBroken
  <2>1. \A o \in Positions : HasDistance(o) <=> ~ Broken(o)
    BY DEF Positions, HasDistance, Broken
  <2> QED
    BY <1>5, <2>1 DEF DeleteBroken, PositionInv, TypeOK, RepairKeepsStored,
       SearchNeverFails, JumpsToTheObject
<1>6. ASSUME NEW lat \in Angles, NEW lon \in Angles, StoreNewObject(lat, lon)
      PROVE  PositionInv'
  <2> DEFINE o == [lat |-> lat, lon |-> OnWorldChart(lon)]
  <2>1. o \in Positions /\ HasDistance(o)
    BY <1>6, StoredIsOnMap DEF StoreNewObject, Positions
  <2>2. /\ objects' = objects \union {o}
        /\ kept' = kept \union {o}
        /\ ppc' = ppc
        /\ jump' = jump
    BY <1>6 DEF StoreNewObject
  <2> HIDE DEF o
  <2> QED
    BY <2>1, <2>2 DEF PositionInv, TypeOK, RepairKeepsStored, SearchNeverFails,
     JumpsToTheObject
<1>7. ASSUME NEW o \in objects, NEW f \in Formats, ShowOnChart(o, f)
      PROVE  PositionInv'
  <2>1. o \in Positions /\ o.lat \in Int /\ o.lon \in Int
    BY DEF PositionInv, TypeOK, Positions
  <2>2. PICK lat \in Readings(toSDMM(1, o.lat, f)),
             lon \in Readings(toSDMM(2, o.lon, f)) :
          jump' = [object |-> o, to |-> [lat |-> lat, lon |-> lon],
                   format |-> f]
    BY <1>7 DEF ShowOnChart, Row
  <2>3. /\ lat \in Int /\ lon \in Int
        /\ f # "degrees" => lat = o.lat /\ lon = o.lon
    BY <2>1, ReadingsOfAngle
  <2>4. f # "degrees" => [lat |-> lat, lon |-> lon] = o
    BY <2>1, <2>3 DEF Positions
  <2>5. UNCHANGED <<objects, kept, ppc>>
    BY <1>7 DEF ShowOnChart
  <2>6. jump' \in [object : Positions, to : Positions, format : Formats]
    BY <2>1, <2>2, <2>3 DEF Positions
  <2>7. JumpsToTheObject'
    BY <2>2, <2>4 DEF JumpsToTheObject
  <2> QED
    BY <2>5, <2>6, <2>7 DEF PositionInv, TypeOK, RepairKeepsStored,
       SearchNeverFails
<1> QED
  BY <1>1, <1>2, <1>3, <1>4, <1>5, <1>6, <1>7 DEF Next

(* PositionInv holds in every reachable state. *)
THEOREM PositionInvariant == Spec => []PositionInv
BY PositionInvInit, PositionInvNext, PTL DEF Spec

(* distanceMercator never fails on a row of a database that initDB has     *)
(* opened, whatever positions old and new objects come with.               *)
THEOREM RangeSearchIsSafe == Spec => []SearchNeverFails
<1>1. PositionInv => SearchNeverFails
  BY DEF PositionInv
<1> QED
  BY <1>1, PositionInvariant, PTL

(* The repair of old rows is harmless to new ones. *)
THEOREM RepairIsHarmless == Spec => []RepairKeepsStored
<1>1. PositionInv => RepairKeepsStored
  BY DEF PositionInv
<1> QED
  BY <1>1, PositionInvariant, PTL

(* A jump from the result list ends where the object is, whatever the      *)
(* position of the object, in the formats that end with a letter.          *)
THEOREM JumpIsFaithful == Spec => []JumpsToTheObject
<1>1. PositionInv => JumpsToTheObject
  BY DEF PositionInv
<1> QED
  BY <1>1, PositionInvariant, PTL
=============================================================================
