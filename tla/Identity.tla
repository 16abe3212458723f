------------------------------ MODULE Identity ------------------------------
(***************************************************************************)
(* The identity and the key of the client (identity/atlas_identity.c).     *)
(* atlas_identity_init reads each of them from its file or, when the file  *)
(* is not there, generates it; when one cannot be read it removes both     *)
(* files and main ends.  A client that got through uses the pair with the  *)
(* gateway (atlas_main.c).                                                 *)
(*                                                                         *)
(* One action per system call, because the process can be killed and the   *)
(* device can lose power between any two of them.  Neither a file nor its  *)
(* directory is synced: after a loss of power each file is as it was at    *)
(* some moment since the kernel wrote it back last, so a new one may be    *)
(* gone, empty or cut short and a removed one may be back.  The results of *)
(* write and remove are not looked at.                                     *)
(*                                                                         *)
(* Operators with a suffix are faulty variants of the definition after     *)
(* them, used to test the properties.                                      *)
(***************************************************************************)
EXTENDS Integers

CONSTANTS
    Faults,  \* system calls that may fail: "open", "read", "rand", "remove",
             \* and writes that store nothing ("write") or a part ("short")
    MaxGen   \* bound on the values that are generated

ASSUME IdentityAssumption ==
    /\ Faults \subseteq {"open", "read", "rand", "remove", "write", "short"}
    /\ MaxGen \in Nat

VARIABLES
    pc,        \* what the process does next, "off" when there is none
    at,        \* the file it does it to
    file,      \* ATLAS_IDENTITY_FILE and ATLAS_PSK_FILE
    lag,       \* what a loss of power may bring each file back to
    mem,       \* the static variables identity and psk
    gen,       \* the value generated last
    uses,      \* the pairs clients have run with
    harm,      \* the faults that have occurred so far
    calm,      \* nothing has failed since this start
    failed     \* undisturbed starts in a row that ended in an error

vars == <<pc, at, file, lag, mem, gen, uses, harm, calm, failed>>

Names == {"identity", "psk"}
Datum(is, v) == [is |-> is, v |-> v]
Nothing(is) == Datum(is, 0)
Data == [is : {"absent", "empty", "short", "whole"}, v : 0 .. MaxGen]

TypeOK ==
    /\ pc \in {"off", "open", "write", "remove", "run"} /\ at \in Names
    /\ file \in [Names -> Data] /\ mem \in [Names -> Data]
    /\ lag \in [Names -> SUBSET Data]
    /\ gen \in 0 .. MaxGen
    /\ uses \subseteq Data \X Data
    /\ harm \subseteq Faults \cup {"power"}
    /\ calm \in BOOLEAN /\ failed \in Nat

NoMemory == [n \in Names |-> Nothing("empty")]
Init ==
    /\ pc = "off" /\ at = "identity" /\ mem = NoMemory
    /\ lag = [n \in Names |-> {}]
    /\ file = [n \in Names |-> Nothing("absent")]
    /\ gen = 0 /\ uses = {} /\ harm = {} /\ calm = TRUE /\ failed = 0
-----------------------------------------------------------------------------
\* main is started.  A start generates two values at most.
Start ==
    /\ pc = "off" /\ gen + 2 <= MaxGen
    /\ pc' = "open" /\ at' = "identity" /\ calm' = TRUE
    /\ UNCHANGED <<file, lag, mem, gen, uses, harm, failed>>

\* A system call succeeds, or fails in the way of f.
Succeeds == UNCHANGED <<harm, calm>>
Fails(f) == f \in Faults /\ harm' = harm \cup {f} /\ calm' = FALSE

\* The file at changes; the disk keeps, for now, what was there or, of a write,
\* a part.
Changes(datum, part) ==
    /\ file' = [file EXCEPT ![at] = datum]
    /\ lag' = [lag EXCEPT ![at] = @ \cup {file[at]} \cup part]

\* The identity is there: the key is next.  Both are: main goes on, the pair
\* is used for DTLS.
Obtained(datum) ==
    /\ mem' = [mem EXCEPT ![at] = datum]
    /\ IF at = "identity"
       THEN pc' = "open" /\ at' = "psk" /\ UNCHANGED <<uses, failed>>
       ELSE /\ pc' = "run" /\ failed' = 0 /\ UNCHANGED at
            /\ uses' = uses \cup {<<mem.identity, datum>>}

\* The order in which the error path removes the files.
RemoveOrder_swapped == <<"psk", "identity">>
RemoveOrder_one == <<"identity", "identity">>
RemoveOrder_other == <<"identity", "log">>
RemoveOrder == <<"identity", "psk">>
Error == pc' = "remove" /\ at' = RemoveOrder[1] /\ UNCHANGED <<mem, uses, failed>>

\* The file is there: read it.  Whatever is in it is taken, but nothing (an
\* empty file, an error) is an error.
IsThere_never(n) == FALSE
IsThere(n) == file[n].is # "absent"
IsRead_full(n) == n = "psk" /\ file[n].is # "empty"
IsRead(n) == file[n].is # "empty"
Read ==
    /\ pc = "open" /\ IsThere(at)
    /\ \/ Succeeds /\ IsRead(at) /\ Obtained(file[at])
       \/ Succeeds /\ ~IsRead(at) /\ Error
       \/ Fails("read") /\ Error
    /\ UNCHANGED <<file, lag, gen>>

\* The file is not there or cannot be opened: create or truncate it.
Create ==
    /\ pc = "open" /\ pc' = "write"
    /\ \/ ~IsThere(at) /\ Succeeds
       \/ IsThere(at) /\ Fails("open")
    /\ Changes(Nothing("empty"), {})
    /\ UNCHANGED <<at, mem, gen, uses, failed>>

\* That fails, too.
CannotCreate ==
    /\ pc = "open" /\ Fails("open") /\ Error
    /\ UNCHANGED <<file, lag, gen>>

\* atlas_generate_identity, atlas_generate_psk: a new value, in one write.
Generate ==
    /\ pc = "write"
    /\ LET part == Datum("short", gen + 1)
       IN  \/ Succeeds /\ Changes(Datum("whole", gen + 1), {part})
           \/ Fails("write") /\ UNCHANGED <<file, lag>>
           \/ Fails("short") /\ Changes(part, {})
    /\ gen' = gen + 1
    /\ Obtained(Datum("whole", gen + 1))

\* RAND_bytes fails: the file of the key stays empty.
NoRandomBytes ==
    /\ pc = "write" /\ at = "psk" /\ Fails("rand") /\ Error
    /\ UNCHANGED <<file, lag, gen>>

\* The error path removes both files and main returns.  A file that cannot be
\* removed stays.
Remove ==
    /\ pc = "remove"
    /\ \/ Succeeds /\ Changes(Nothing("absent"), {})
       \/ Fails("remove") /\ UNCHANGED <<file, lag>>
    /\ IF at = RemoveOrder[1] /\ RemoveOrder[2] # at
       THEN at' = RemoveOrder[2] /\ UNCHANGED <<pc, mem, failed>>
       ELSE /\ pc' = "off" /\ mem' = NoMemory /\ UNCHANGED at
            /\ failed' = IF calm' THEN failed + 1 ELSE 0
    /\ UNCHANGED <<gen, uses>>
-----------------------------------------------------------------------------
\* The process is killed, or the device loses power, whether a client runs or
\* not.  The kernel writes a file back after a while.
Ends == pc' = "off" /\ mem' = NoMemory /\ failed' = 0
Killed ==
    /\ pc # "off" /\ Ends
    /\ UNCHANGED <<at, file, lag, gen, uses, harm, calm>>
PowerLoss ==
    /\ Ends
    /\ \E i \in lag.identity \cup {file.identity}, k \in lag.psk \cup {file.psk} :
           file' = [n \in Names |-> IF n = "identity" THEN i ELSE k]
    /\ lag' = [n \in Names |-> {}] /\ harm' = harm \cup {"power"}
    /\ UNCHANGED <<at, gen, uses, calm>>
WriteBack(n) ==
    /\ lag[n] # {} /\ lag' = [lag EXCEPT ![n] = {}]
    /\ UNCHANGED <<pc, at, file, mem, gen, uses, harm, calm, failed>>

Step == Read \/ Create \/ CannotCreate \/ Generate \/ NoRandomBytes \/ Remove
Next == Start \/ Step \/ Killed \/ PowerLoss \/ \E n \in Names : WriteBack(n)

Spec == Init /\ [][Next]_vars
-----------------------------------------------------------------------------
\* atlas_identity_init, killed at any point and any number of times: the
\* client never runs with a second identity or a second key.
OnePair == harm = {} => \A u, w \in uses : u = w

\* An identity the gateway has seen never comes back with another key, even
\* when writes store nothing, reads fail and the client is killed at any point:
\* the error path removes the identity before the key.  (A write that stores a
\* part, a file that exists and cannot be opened, one that cannot be removed
\* and a loss of power before the key is written back break this.)
Bearable == harm \subseteq {"read", "rand", "write"}
NeverRekeyed ==
    Bearable => \A u, w \in uses : u[1] = w[1] => u[2] = w[2]

\* A pair both of whose files have reached the disk is the one every client
\* runs with from then on, however often power is lost and whatever is killed,
\* as long as files that are there can be opened and read.
Settled == \A n \in Names : file[n].is = "whole" /\ lag[n] = {}
Readable == harm \cap {"open", "read"} = {}
SettledStays ==
    [][Settled /\ Readable' =>
           /\ Settled' /\ file' = file
           /\ uses' \subseteq uses \cup {<<file.identity, file.psk>>}]_vars

\* Whatever a start finds on the disk, it runs or clears it away: of two
\* undisturbed starts in a row one runs.
TwoStartsSuffice == failed <= 1
-----------------------------------------------------------------------------
\* The parts of the inductive invariant behind the properties above.  In
\* "open" and "write" the process works on the file at.
Working == pc \in {"open", "write"}

\* A start generates at most one value for each file it still has to obtain,
\* and every value there is was generated before.
Generated ==
    /\ Working => gen + (IF at = "identity" THEN 2 ELSE 1) <= MaxGen
    /\ \A n \in Names :
           /\ file[n].v <= gen /\ mem[n].v <= gen
           /\ \A d \in lag[n] : d.v <= gen
    /\ \A u \in uses : u[1].v <= gen

\* As long as writes store all or nothing and power is not lost, everything in
\* use and in the files is whole or not there.
Whole ==
    harm \cap {"short", "power"} = {} =>
        /\ \A n \in Names : file[n].is # "short"
        /\ Working /\ at = "psk" => mem.identity.is = "whole"
        /\ \A u \in uses : u[1].is = "whole" /\ u[2].is = "whole"

\* A known identity, on the disk or in the hands of the process, has its key
\* beside it, or an empty file, which makes the start fail.  A new key is only
\* made beside an identity that is not known.
KeyBeside(id) ==
    \A u \in uses : u[1] = id => file.psk = u[2] \/ file.psk.is = "empty"
KnownKeyed ==
    Bearable =>
        /\ KeyBeside(file.identity)
        /\ pc = "open" /\ at = "psk" => KeyBeside(mem.identity)
        /\ pc = "write" /\ at = "psk" =>
               \A u \in uses : u[1] \notin {mem.identity, file.identity}

\* Without any fault a pair that was used stays on the disk.
PairStays ==
    harm = {} =>
        /\ Working /\ at = "psk" => mem.identity = file.identity
        /\ \A u \in uses :
               /\ u = <<file.identity, file.psk>>
               /\ file.identity.is = "whole" /\ file.psk.is = "whole"
               /\ pc \notin {"write", "remove"}

\* A file is emptied before it is written; the identity is removed before the
\* key, if it can be.
InOrder ==
    /\ pc = "write" => file[at].is = "empty"
    /\ pc = "remove" /\ at = "psk" =>
           file.identity.is = "absent" \/ ("remove" \in harm /\ ~calm)

\* What the process took from a whole file is still in it, and the error path
\* is entered only for a file that is not whole.
Held ==
    /\ Working /\ at = "psk" =>
           mem.identity = file.identity \/ file.identity.is # "whole"
    /\ pc = "remove" /\ Readable => \E n \in Names : file[n].is # "whole"

\* A start after a failed one finds nothing and, undisturbed, generates both.
Cleared ==
    failed = 1 =>
        /\ pc # "run"
        /\ pc = "off" => \A n \in Names : file[n].is = "absent"
        /\ pc # "off" /\ calm =>
               /\ Working
               /\ pc = "open" => file[at].is = "absent"
               /\ at = "identity" => file.psk.is = "absent"

\* The inductive invariant of atlas_identity_init.
IInv ==
    /\ TypeOK /\ Generated /\ Whole /\ KnownKeyed /\ PairStays /\ InOrder
    /\ Held /\ Cleared /\ NeverRekeyed /\ TwoStartsSuffice
=============================================================================
