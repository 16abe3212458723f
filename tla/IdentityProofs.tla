--------------------------- MODULE IdentityProofs ---------------------------
(***************************************************************************)
(* Proofs about Identity, for every set of faults and any number of        *)
(* generated values.                                                       *)
(***************************************************************************)
EXTENDS Identity, TLAPS

LEMMA InitIInv == Init => IInv
  BY IdentityAssumption
  DEF Init, IInv, TypeOK, Generated, Whole, KnownKeyed, KeyBeside, Bearable, PairStays,
      InOrder, Held, Readable, Cleared, NeverRekeyed, Bearable, TwoStartsSuffice,
      Working, NoMemory, Nothing, Datum,
      Names, Data

\* A record of Data is known by its fields.
LEMMA DatumType ==
    ASSUME NEW is \in {"absent", "empty", "short", "whole"}, NEW v \in 0 .. MaxGen
    PROVE  /\ Datum(is, v) \in Data
           /\ Datum(is, v).is = is /\ Datum(is, v).v = v
  BY DEF Datum, Data

LEMMA Updated ==
    ASSUME NEW f \in [Names -> Data], NEW n \in Names, NEW d \in Data
    PROVE  /\ [f EXCEPT ![n] = d] \in [Names -> Data]
           /\ [f EXCEPT ![n] = d][n] = d
           /\ \A m \in Names : m # n => [f EXCEPT ![n] = d][m] = f[m]
  OBVIOUS

LEMMA Lagged ==
    ASSUME NEW l \in [Names -> SUBSET Data], NEW n \in Names, NEW d \in SUBSET Data
    PROVE  /\ [l EXCEPT ![n] = @ \cup d] \in [Names -> SUBSET Data]
           /\ [l EXCEPT ![n] = @ \cup d][n] = l[n] \cup d
           /\ \A m \in Names : m # n => [l EXCEPT ![n] = @ \cup d][m] = l[m]
  OBVIOUS

\* What a change of the file at does to the files and to the disk.
LEMMA Changed ==
    ASSUME TypeOK, NEW d \in Data, NEW part \in SUBSET Data, Changes(d, part)
    PROVE  /\ file' \in [Names -> Data] /\ file'[at] = d
           /\ \A n \in Names : n # at => file'[n] = file[n]
           /\ lag' \in [Names -> SUBSET Data]
           /\ lag'[at] = lag[at] \cup {file[at]} \cup part
           /\ \A n \in Names : n # at => lag'[n] = lag[n]
<1> PICK more \in SUBSET Data : more = {file[at]} \cup part
  BY DEF TypeOK
<1>1. lag' = [lag EXCEPT ![at] = @ \cup more]
  BY DEF Changes, TypeOK
<1>2. lag[at] \cup more = lag[at] \cup {file[at]} \cup part
  OBVIOUS
<1>3. file \in [Names -> Data] /\ lag \in [Names -> SUBSET Data] /\ at \in Names
  BY DEF TypeOK
<1>. QED  BY <1>1, <1>2, <1>3, Updated, Lagged DEF Changes

LEMMA NoMemoryType ==
    NoMemory \in [Names -> Data] /\ \A n \in Names : NoMemory[n].v = 0
  BY IdentityAssumption, DatumType DEF NoMemory, Nothing

LEMMA StartStep == IInv /\ Start => IInv'
<1> SUFFICES ASSUME IInv, Start PROVE IInv'
  OBVIOUS
<1> USE IdentityAssumption DEF IInv, Start, Working
<1>1. TypeOK'
  BY DEF TypeOK, Names
<1>2. Generated'
  BY <1>1 DEF TypeOK, Generated
<1>3. Whole'
  BY DEF Whole
<1>4. KnownKeyed'
  BY DEF KnownKeyed, KeyBeside, Bearable
<1>5. PairStays'
  BY DEF PairStays
<1>6. InOrder' /\ Held' /\ Cleared'
  BY DEF InOrder, Held, Readable, Cleared, Names
<1>7. NeverRekeyed' /\ TwoStartsSuffice'
  BY DEF NeverRekeyed, Bearable, TwoStartsSuffice
<1>. QED  BY <1>1, <1>2, <1>3, <1>4, <1>5, <1>6, <1>7

\* The key is read only from a file that is there and is not empty, so a known
\* identity gets the key it had.
LEMMA ReadStep == IInv /\ Read => IInv'
<1> SUFFICES ASSUME IInv, Read PROVE IInv'
  OBVIOUS
<1> USE IdentityAssumption DEF IInv, Read, Working
<1>1. CASE Succeeds /\ IsRead(at) /\ Obtained(file[at])
  <2> USE <1>1 DEF Succeeds, IsRead, IsThere, Obtained
  <2>1. TypeOK'
    BY DEF TypeOK, Names
  <2>2. Generated'
    BY DEF TypeOK, Generated, Names, Data
  <2>3. Whole'
    BY DEF TypeOK, Whole, Names, Data
  <2>4. KnownKeyed'
    BY DEF TypeOK, KnownKeyed, KeyBeside, Bearable, Names
  <2>5. PairStays'
    BY DEF TypeOK, PairStays, Whole, Names, Data
  <2>6. InOrder' /\ Held' /\ Cleared'
    BY DEF InOrder, Held, Readable, TypeOK, Cleared, Names
  <2>7. NeverRekeyed' /\ TwoStartsSuffice'
    BY DEF TypeOK, NeverRekeyed, KnownKeyed, KeyBeside, Bearable, TwoStartsSuffice, Names
  <2>. QED  BY <2>1, <2>2, <2>3, <2>4, <2>5, <2>6, <2>7
<1>2. CASE Succeeds /\ ~IsRead(at) /\ Error
  <2> USE <1>2 DEF Succeeds, IsRead, IsThere, Error, RemoveOrder
  <2>1. TypeOK'
    BY DEF TypeOK, Names
  <2>2. Generated' /\ Whole' /\ KnownKeyed'
    BY DEF TypeOK, Generated, Whole, KnownKeyed, KeyBeside, Bearable, Names
  <2>3. PairStays'
    BY DEF TypeOK, PairStays, Names
  <2>4. InOrder' /\ Held' /\ Cleared'
    BY DEF InOrder, Held, Readable, TypeOK, Cleared, Names
  <2>5. NeverRekeyed' /\ TwoStartsSuffice'
    BY DEF NeverRekeyed, Bearable, TwoStartsSuffice
  <2>. QED  BY <2>1, <2>2, <2>3, <2>4, <2>5
<1>3. CASE Fails("read") /\ Error
  <2> USE <1>3 DEF Fails, IsThere, Error, RemoveOrder
  <2>1. TypeOK'
    BY DEF TypeOK, Names
  <2>2. Generated' /\ Whole' /\ KnownKeyed'
    BY DEF TypeOK, Generated, Whole, KnownKeyed, KeyBeside, Bearable, Names
  <2>3. PairStays' /\ InOrder' /\ Held' /\ Cleared'
    BY DEF InOrder, Held, Readable, PairStays, Cleared
  <2>4. NeverRekeyed' /\ TwoStartsSuffice'
    BY DEF NeverRekeyed, Bearable, TwoStartsSuffice
  <2>. QED  BY <2>1, <2>2, <2>3, <2>4
<1>. QED  BY <1>1, <1>2, <1>3

LEMMA CreateStep == IInv /\ Create => IInv'
<1> SUFFICES ASSUME IInv, Create PROVE IInv'
  OBVIOUS
<1> USE DEF IInv, Create, Working, Succeeds, Fails, IsThere
<1>1. /\ Nothing("empty") \in Data
      /\ Nothing("empty").is = "empty" /\ Nothing("empty").v = 0
  BY IdentityAssumption, DatumType DEF Nothing
<1>2. /\ at \in Names /\ file' \in [Names -> Data]
      /\ file'[at] = Nothing("empty")
      /\ \A n \in Names : n # at => file'[n] = file[n]
      /\ lag' \in [Names -> SUBSET Data]
      /\ lag'[at] = lag[at] \cup {file[at]}
      /\ \A n \in Names : n # at => lag'[n] = lag[n]
  BY <1>1, Changed DEF TypeOK
<1> USE <1>1, <1>2
<1>3. TypeOK'
  BY DEF TypeOK
<1>4. Generated'
  BY DEF TypeOK, Generated, Names, Data
<1>5. Whole'
  BY DEF Whole, Names
<1>6. KnownKeyed'
  BY DEF TypeOK, KnownKeyed, KeyBeside, Bearable, Whole, Names
<1>7. PairStays'
  BY DEF PairStays, Names
<1>8. InOrder' /\ Held' /\ Cleared'
  BY DEF TypeOK, InOrder, Held, Readable, Cleared, Names
<1>9. NeverRekeyed' /\ TwoStartsSuffice'
  BY DEF NeverRekeyed, Bearable, TwoStartsSuffice
<1>. QED  BY <1>3, <1>4, <1>5, <1>6, <1>7, <1>8, <1>9

LEMMA CannotCreateStep == IInv /\ CannotCreate => IInv'
<1> SUFFICES ASSUME IInv, CannotCreate PROVE IInv'
  OBVIOUS
<1> USE IdentityAssumption DEF IInv, CannotCreate, Working, Fails, Error, RemoveOrder
<1>1. TypeOK'
  BY DEF TypeOK, Names
<1>2. Generated' /\ Whole' /\ KnownKeyed' /\ PairStays'
  BY DEF TypeOK, Generated, Whole, KnownKeyed, Bearable, PairStays
<1>3. InOrder' /\ Held' /\ Cleared' /\ NeverRekeyed' /\ TwoStartsSuffice'
  BY DEF InOrder, Held, Readable, Cleared, NeverRekeyed, Bearable, TwoStartsSuffice
<1>. QED  BY <1>1, <1>2, <1>3

\* A new identity is one nobody has used; a new key is made only beside an
\* identity nobody has used.
LEMMA GenerateStep == IInv /\ Generate => IInv'
<1> SUFFICES ASSUME IInv, Generate PROVE IInv'
  OBVIOUS
<1> DEFINE new == Datum("whole", gen + 1)
           part == Datum("short", gen + 1)
<1>1. gen + 1 \in 0 .. MaxGen /\ gen' = gen + 1 /\ gen \in Nat
  BY IdentityAssumption DEF IInv, TypeOK, Generated, Working, Generate
<1>2. /\ new \in Data /\ new.is = "whole" /\ new.v = gen + 1
      /\ part \in Data /\ part.is = "short" /\ part.v = gen + 1
  BY <1>1, DatumType
<1>3. /\ pc = "write" /\ at \in Names /\ Obtained(new)
      /\ harm \subseteq harm' /\ harm' \subseteq Faults \cup {"power"}
  BY DEF Generate, IInv, TypeOK, Succeeds, Fails
<1>c. calm' \in BOOLEAN /\ (calm' => calm)
  <2>1. CASE Succeeds
    BY <2>1 DEF Succeeds, IInv, TypeOK
  <2>2. CASE \E f \in {"write", "short"} : Fails(f)
    BY <2>2 DEF Fails
  <2>. QED  BY <2>1, <2>2 DEF Generate
<1>4. /\ mem' \in [Names -> Data] /\ mem'[at] = new
      /\ \A n \in Names : n # at => mem'[n] = mem[n]
  BY <1>2, <1>3, Updated DEF Obtained, IInv, TypeOK
<1>5. /\ file' \in [Names -> Data]
      /\ \/ file'[at] = new
         \/ file'[at] = file[at] /\ "write" \in harm'
         \/ file'[at] = part /\ "short" \in harm'
      /\ \A n \in Names : n # at => file'[n] = file[n]
      /\ lag' \in [Names -> SUBSET Data]
      /\ lag'[at] \subseteq lag[at] \cup {file[at], part}
      /\ \A n \in Names : n # at => lag'[n] = lag[n]
  <2>1. CASE Succeeds /\ Changes(new, {part})
    BY <1>2, <1>3, <2>1, Changed DEF IInv
  <2>2. CASE Fails("write") /\ UNCHANGED <<file, lag>>
    BY <2>2 DEF Fails, IInv, TypeOK
  <2>3. CASE Fails("short") /\ Changes(part, {})
    BY <1>2, <1>3, <2>3, Changed DEF Fails, IInv
  <2>. QED  BY <2>1, <2>2, <2>3 DEF Generate
<1> HIDE DEF new, part
<1> USE <1>1, <1>2, <1>3, <1>c, <1>4, <1>5 DEF IInv, Working, Obtained
<1>6. TypeOK'
  BY DEF TypeOK, Names
<1>7. Generated'
  BY IdentityAssumption DEF TypeOK, Generated, Names, Data
<1>8. Whole'
  BY DEF TypeOK, Whole, Names
<1>9. KnownKeyed'
  <2> SUFFICES ASSUME Bearable' PROVE KnownKeyed'
    BY DEF KnownKeyed
  <2>1. Bearable /\ file'[at] \in {new, file[at]}
    BY DEF Bearable
  <2>2. CASE at = "identity"
    <3>1. \A u \in uses : u[1] # new
      BY DEF TypeOK, Generated
    <3>. QED  BY <2>1, <2>2, <3>1 DEF KnownKeyed, KeyBeside, Bearable, Names
  <2>3. CASE at = "psk"
    <3>1. file'.psk = new \/ file'.psk = file.psk
      BY <2>1, <2>3
    <3>2. \A u \in uses : u[1] \notin {mem.identity, file.identity}
      BY <2>1, <2>3 DEF KnownKeyed
    <3>3. file.psk.is = "empty" /\ file'.identity = file.identity
      BY <2>3 DEF InOrder, Names
    <3>4. pc' = "run" /\ uses' = uses \cup {<<mem.identity, new>>}
      BY <2>3
    <3>5. ASSUME NEW u \in uses', u[1] = file'.identity
          PROVE  file'.psk = u[2] \/ file'.psk.is = "empty"
      BY <3>1, <3>2, <3>3, <3>4, <3>5
    <3>. QED  BY <3>4, <3>5 DEF KnownKeyed, KeyBeside, Bearable
  <2>. QED  BY <2>2, <2>3 DEF Names
<1>10. PairStays'
  BY DEF TypeOK, PairStays, Whole, Names
<1>11. InOrder' /\ Held' /\ Cleared'
  BY DEF TypeOK, InOrder, Held, Readable, Cleared, Names
<1>12. NeverRekeyed' /\ TwoStartsSuffice'
  <2>1. CASE at = "identity"
    BY <2>1 DEF NeverRekeyed, Bearable, TwoStartsSuffice
  <2>2. CASE at = "psk"
    <3>1. Bearable' => \A u \in uses : u[1] # mem.identity
      BY <2>2 DEF KnownKeyed, Bearable
    <3>2. uses' = uses \cup {<<mem.identity, new>>} /\ failed' = 0
      BY <2>2
    <3>. QED  BY <3>1, <3>2 DEF NeverRekeyed, Bearable, TwoStartsSuffice
  <2>. QED  BY <2>1, <2>2 DEF Names
<1>. QED  BY <1>6, <1>7, <1>8, <1>9, <1>10, <1>11, <1>12

LEMMA NoRandomBytesStep == IInv /\ NoRandomBytes => IInv'
<1> SUFFICES ASSUME IInv, NoRandomBytes PROVE IInv'
  OBVIOUS
<1> USE IdentityAssumption DEF IInv, NoRandomBytes, Working, Fails, Error, RemoveOrder
<1>1. TypeOK'
  BY DEF TypeOK, Names
<1>2. Generated' /\ Whole' /\ KnownKeyed' /\ PairStays'
  BY DEF TypeOK, Generated, Whole, KnownKeyed, KeyBeside, Bearable, PairStays
<1>3. InOrder' /\ Held' /\ Cleared' /\ NeverRekeyed' /\ TwoStartsSuffice'
  BY DEF InOrder, Held, Readable, Cleared, NeverRekeyed, Bearable, TwoStartsSuffice, Names
<1>. QED  BY <1>1, <1>2, <1>3

\* The identity is gone before the key goes.
LEMMA RemoveStep == IInv /\ Remove => IInv'
<1> SUFFICES ASSUME IInv, Remove PROVE IInv'
  OBVIOUS
<1> USE DEF IInv, Working
<1>1. /\ Nothing("absent") \in Data
      /\ Nothing("absent").is = "absent" /\ Nothing("absent").v = 0
  BY IdentityAssumption, DatumType DEF Nothing
<1>2. /\ at \in Names /\ file' \in [Names -> Data]
      /\ \/ file'[at] = Nothing("absent") /\ UNCHANGED <<harm, calm>>
         \/ /\ file'[at] = file[at] /\ calm' = FALSE
            /\ "remove" \in Faults /\ harm' = harm \cup {"remove"}
      /\ \A n \in Names : n # at => file'[n] = file[n]
      /\ lag' \in [Names -> SUBSET Data]
      /\ lag'[at] \subseteq lag[at] \cup {file[at]}
      /\ \A n \in Names : n # at => lag'[n] = lag[n]
  <2>1. CASE Succeeds /\ Changes(Nothing("absent"), {})
    BY <1>1, <2>1, Changed DEF TypeOK, Succeeds
  <2>2. CASE Fails("remove") /\ UNCHANGED <<file, lag>>
    BY <2>2 DEF Fails, TypeOK
  <2>. QED  BY <2>1, <2>2 DEF Remove
<1>3. /\ at = "identity" => at' = "psk" /\ UNCHANGED <<pc, mem, failed>>
      /\ at = "psk" => /\ pc' = "off" /\ mem' = NoMemory
                       /\ failed' = IF calm' THEN failed + 1 ELSE 0
                       /\ UNCHANGED at
  BY DEF RemoveOrder, TypeOK, Names, Remove
<1>4. pc = "remove" /\ UNCHANGED <<gen, uses>>
  BY DEF Remove
<1> USE <1>4, <1>1, <1>2, <1>3, NoMemoryType
<1>5. TypeOK'
  <2>1. harm' \subseteq Faults \cup {"power"}
    BY DEF TypeOK
  <2>2. calm' \in BOOLEAN /\ failed' \in Nat
    <3>1. failed \in Nat /\ calm \in BOOLEAN
      BY DEF TypeOK
    <3>2. calm' \in BOOLEAN
      BY Zenon, <3>1, <1>2
    <3>3. failed' \in {failed, failed + 1, 0}
      BY DEF Names
    <3>. QED  BY <3>1, <3>2, <3>3
  <2>3. /\ pc' \in {"off", "open", "write", "remove", "run"} /\ at' \in Names
        /\ mem' \in [Names -> Data]
    BY DEF TypeOK, Names
  <2>. QED  BY <2>1, <2>2, <2>3 DEF TypeOK
<1>6. Generated'
  BY DEF TypeOK, Generated, Names
<1>h. harm \subseteq harm'
  OBVIOUS
<1>7. Whole'
  BY <1>h DEF Whole, Names
<1>8. KnownKeyed'
  BY DEF KnownKeyed, KeyBeside, Bearable, Whole, InOrder, Names
<1>9. PairStays'
  BY <1>h DEF PairStays, Names
<1>10. InOrder' /\ Held' /\ Cleared' /\ TwoStartsSuffice'
  BY DEF TypeOK, InOrder, Held, Readable, Cleared, TwoStartsSuffice, Names
<1>11. NeverRekeyed'
  BY DEF NeverRekeyed, Bearable
<1>. QED  BY <1>5, <1>6, <1>7, <1>8, <1>9, <1>10, <1>11

LEMMA EndStep == IInv /\ (Killed \/ PowerLoss \/ \E n \in Names : WriteBack(n)) => IInv'
<1> SUFFICES ASSUME IInv, Killed \/ PowerLoss \/ \E n \in Names : WriteBack(n) PROVE IInv'
  OBVIOUS
<1> USE IdentityAssumption DEF IInv, Ends, Working, Nothing, Datum
<1>1. CASE Killed
  <2>1. TypeOK'
    BY <1>1, NoMemoryType DEF Killed, TypeOK, Names
  <2>2. Generated' /\ Whole' /\ KnownKeyed' /\ PairStays'
    BY <1>1, NoMemoryType DEF Killed, TypeOK, Generated, Whole, KnownKeyed,
        KeyBeside, Bearable, PairStays
  <2>3. InOrder' /\ Held' /\ Cleared' /\ NeverRekeyed' /\ TwoStartsSuffice'
    BY <1>1
    DEF InOrder, Held, Readable, Killed, Cleared, NeverRekeyed, Bearable,
        TwoStartsSuffice
  <2>. QED  BY <2>1, <2>2, <2>3
<1>2. CASE PowerLoss
  <2> USE <1>2 DEF PowerLoss
  <2>1. TypeOK'
    BY DEF TypeOK, Names, Data, NoMemory
  <2>2. Generated' /\ PairStays'
    BY NoMemoryType DEF TypeOK, Generated, PairStays, Names, Data
  <2>3. Whole'
    BY DEF TypeOK, Whole, Names, Data
  <2>4. KnownKeyed'
    BY DEF TypeOK, KnownKeyed, KeyBeside, Bearable, Whole, Names, Data
  <2>5. InOrder' /\ Held' /\ Cleared' /\ NeverRekeyed' /\ TwoStartsSuffice'
    BY DEF InOrder, Held, Readable, Cleared, NeverRekeyed, Bearable, TwoStartsSuffice
  <2>. QED  BY <2>1, <2>2, <2>3, <2>4, <2>5
<1>3. CASE \E n \in Names : WriteBack(n)
  BY <1>3 DEF WriteBack, TypeOK, Generated, Whole, KnownKeyed, KeyBeside, Bearable, PairStays,
              InOrder, Held, Readable, Cleared, NeverRekeyed, Bearable, TwoStartsSuffice
<1>. QED  BY <1>1, <1>2, <1>3

LEMMA StutterStep == IInv /\ UNCHANGED vars => IInv'
  BY DEF IInv, vars, TypeOK, Generated, Whole, KnownKeyed, KeyBeside, Bearable, PairStays,
         InOrder, Held, Readable, Cleared, NeverRekeyed, Bearable, TwoStartsSuffice, Working

LEMMA IInvStep == IInv /\ [Next]_vars => IInv'
  BY StartStep, ReadStep, CreateStep, CannotCreateStep, GenerateStep,
     NoRandomBytesStep, RemoveStep, EndStep, StutterStep
  DEF Next, Step

\* The inductive invariant of atlas_identity_init holds whatever fails and
\* whenever the process is killed or power is lost.
THEOREM IdentityInductive == Spec => []IInv
<1>1. Init => IInv
  BY InitIInv
<1>2. IInv /\ [Next]_vars => IInv'
  BY IInvStep
<1>. QED  BY <1>1, <1>2, PTL DEF Spec

\* atlas_identity_init never puts another key beside an identity that was used,
\* whenever it is killed, whatever it cannot read and whichever write stores
\* nothing.
THEOREM AlwaysKeyed == Spec => []NeverRekeyed
<1>1. IInv => NeverRekeyed
  BY DEF IInv
<1>. QED  BY <1>1, IdentityInductive, PTL

\* No step takes a pair that has reached the disk away or puts another one into
\* use, power losses included, unless a file that is there cannot be opened or
\* read.
THEOREM AlwaysSettled == Spec => SettledStays
<1> DEFINE Stays == Settled /\ Readable' =>
                        /\ Settled' /\ file' = file
                        /\ uses' \subseteq uses \cup {<<file.identity, file.psk>>}
<1>1. IInv /\ [Next]_vars => [Stays]_vars
  <2> SUFFICES ASSUME IInv, [Next]_vars, Settled, Readable'
               PROVE  /\ Settled' /\ file' = file
                      /\ uses' \subseteq uses \cup {<<file.identity, file.psk>>}
    OBVIOUS
  <2>1. CASE Start \/ Killed \/ CannotCreate \/ UNCHANGED vars
    BY <2>1 DEF Settled, Start, Killed, Ends, CannotCreate, Fails, Error, vars
  <2>2. CASE Read
    <3>1. at \in Names /\ file[at].is = "whole"
      BY DEF IInv, TypeOK, Settled
    <3>2. UNCHANGED <<file, lag>> /\ (Error \/ Obtained(file[at]))
      BY <2>2 DEF Read
    <3>3. CASE Error
      BY <3>2, <3>3 DEF Error, Settled
    <3>4. CASE Obtained(file[at])
      <4>1. CASE at = "identity"
        BY <3>2, <3>4, <4>1 DEF Obtained, Settled
      <4>2. CASE at = "psk"
        <5>1. mem.identity = file.identity
          BY <2>2, <4>2 DEF IInv, Held, Working, Read, Settled, Names
        <5>. QED  BY <3>2, <3>4, <4>2, <5>1 DEF Obtained, Settled
      <4>. QED  BY <3>1, <4>1, <4>2 DEF Names
    <3>. QED  BY <3>2, <3>3, <3>4
  <2>3. ~Create
    BY DEF Create, IsThere, Fails, Settled, Readable, IInv, TypeOK
  <2>4. ~Generate /\ ~NoRandomBytes
    BY DEF Generate, NoRandomBytes, Settled, IInv, InOrder, TypeOK
  <2>5. ~Remove
    <3>1. Remove => Readable
      BY DEF Remove, Succeeds, Fails, Readable
    <3>. QED  BY <3>1 DEF Remove, Settled, IInv, Held
  <2>6. CASE PowerLoss
    <3>1. file \in [Names -> Data]
      BY DEF IInv, TypeOK
    <3>2. file' = [n \in Names |-> file[n]]
      BY <2>6 DEF PowerLoss, Settled, Names
    <3>3. file' = file
      BY <3>1, <3>2
    <3>. QED  BY <2>6, <3>3 DEF PowerLoss, Settled
  <2>7. CASE \E n \in Names : WriteBack(n)
    BY <2>7 DEF WriteBack, Settled
  <2>. QED  BY <2>1, <2>2, <2>3, <2>4, <2>5, <2>6, <2>7 DEF Next, Step
<1>. QED  BY <1>1, IdentityInductive, PTL DEF Spec, SettledStays

\* A client that is only ever killed runs with one identity and one key.
THEOREM AlwaysOnePair == Spec => []OnePair
<1>1. IInv => OnePair
  BY DEF IInv, PairStays, OnePair
<1>. QED  BY <1>1, IdentityInductive, PTL

\* No contents of the two files make two undisturbed starts in a row fail.
THEOREM AlwaysTwoStarts == Spec => []TwoStartsSuffice
<1>1. IInv => TwoStartsSuffice
  BY DEF IInv
<1>. QED  BY <1>1, IdentityInductive, PTL
=============================================================================
