---------------------------- MODULE CommandBatch ----------------------------
(***************************************************************************)
(* The type-length-value codec of all payloads (commands/atlas_command.c). *)
(* A batch is filled with atlas_cmd_batch_add and sent as raw bytes, or    *)
(* raw bytes come from the gateway or the application; atlas_cmd_batch_    *)
(* set_raw validates them and atlas_cmd_batch_get walks over the commands. *)
(*                                                                         *)
(* A byte has Base values (256 in the code), so that a uint16_t has        *)
(* Base^2.  Types and lengths are two bytes in network order.  The walk    *)
(* converts them in place to the order of the host (little endian) and     *)
(* then finds the next command with the converted length.                  *)
(*                                                                         *)
(* Operators with a suffix are faulty variants of the definition after     *)
(* them, used to test the properties.                                      *)
(***************************************************************************)
EXTENDS Integers, Sequences, SequencesExt

CONSTANTS
    Base,      \* values of a byte
    Bytes,     \* the bytes that occur in raw buffers and values
    MaxRaw,    \* length of the longest raw buffer
    Types,     \* the command types that are added
    MaxValue,  \* length of the longest value that is added
    MaxAdds    \* most commands added to one batch

Width == Base * Base  \* uint16_t

ASSUME CommandBatchAssumption ==
    /\ Base \in Nat /\ Base >= 3 /\ Bytes \subseteq 0 .. Base - 1
    /\ MaxRaw \in 0 .. Width - 1 /\ MaxValue \in 0 .. Width - 1
    /\ Types \subseteq 0 .. Width - 1 /\ MaxAdds \in Nat

VARIABLES
    pc,       \* "fill", "validate", "walk", "end"
    buf,      \* buf_ of the batch at hand
    length,   \* length_ of the batch at hand
    added,    \* the commands added by the sender
    overrun,  \* atlas_cmd_batch_add has written past the block
    raw,      \* the bytes given to atlas_cmd_batch_set_raw
    p,        \* p: offset in raw, then in buf_
    tmp_len,  \* bytes that are still to be validated
    status,   \* what atlas_cmd_batch_set_raw returned
    visited,  \* the commands atlas_cmd_batch_get handed out
    past      \* a byte past the buffer was read

vars == <<pc, buf, length, added, overrun, raw, p, tmp_len, status, visited,
          past>>

Header == 4
NoBatch == buf = <<>> /\ length = 0

TypeOK ==
    /\ pc \in {"fill", "validate", "walk", "end"}
    /\ length \in 0 .. Width - 1 /\ buf \in Seq(0 .. Base - 1)
    /\ p \in Nat /\ tmp_len \in 0 .. Width - 1
    /\ status \in {"none", "OK", "INVALID_INPUT", "CORRUPTED_COMMAND"}
    /\ overrun \in BOOLEAN /\ past \in BOOLEAN

\* atlas_cmd_batch_new.
Init ==
    /\ pc = "fill" /\ NoBatch /\ added = <<>> /\ overrun = FALSE
    /\ raw = <<>> /\ p = 0 /\ tmp_len = 0 /\ status = "none"
    /\ visited = <<>> /\ past = FALSE
-----------------------------------------------------------------------------
\* A uint16_t in memory at offset i: as the host reads it and, with ntohs, as
\* the network means it.  The byte past the end of a buffer reads as 0.
Byte(b, i) == IF i < Len(b) THEN b[i + 1] ELSE 0
Host(b, i) == Byte(b, i) + Base * Byte(b, i + 1)
Ntohs(b, i) == Base * Byte(b, i) + Byte(b, i + 1)
Htons(n) == <<n \div Base, n % Base>>

\* cmd->type = ntohs(cmd->type) and the same for the length, in place.
Swapped(b, i) == [b EXCEPT ![i + 1] = b[i + 2], ![i + 2] = b[i + 1],
                           ![i + 3] = b[i + 4], ![i + 4] = b[i + 3]]
-----------------------------------------------------------------------------
\* atlas_cmd_batch_add.  The new length is a uint16_t: when it wraps, realloc
\* shrinks the block, and value, type and length are written past its end.
NewLength_wide(n) == length + Header + n
NewLength(n) == (length + Header + n) % Width
Block_value(c) == Htons(c.type) \o Htons(Len(c.value) + Header) \o c.value
Block(c) == Htons(c.type) \o Htons(Len(c.value)) \o c.value
Add(c) ==
    LET all == buf \o Block(c)
        len == NewLength(Len(c.value))
    IN  /\ pc = "fill" /\ ~overrun /\ Len(added) < MaxAdds
        /\ buf' = SubSeq(all, 1, len)
        /\ length' = len
        /\ overrun' = (Len(all) > len)
        /\ added' = Append(added, c)
        /\ UNCHANGED <<pc, raw, p, tmp_len, status, visited, past>>

\* The raw bytes of atlas_cmd_batch_get_buf, or bytes of another sender, go
\* to atlas_cmd_batch_set_raw of a new batch.  An empty buffer is refused.
SetRaw(bytes) ==
    /\ pc = "fill" /\ ~overrun
    /\ raw' = bytes /\ p' = 0 /\ tmp_len' = Len(bytes)
    /\ buf' = <<>> /\ length' = 0
    /\ IF bytes = <<>> THEN pc' = "end" /\ status' = "INVALID_INPUT"
       ELSE pc' = "validate" /\ UNCHANGED status
    /\ UNCHANGED <<added, overrun, visited, past>>
SendBatch == added # <<>> /\ SetRaw(SubSeq(buf, 1, length))
Receive == added = <<>> /\ \E bytes \in BoundedSeq(Bytes, MaxRaw) : SetRaw(bytes)

\* One round of the loop of atlas_cmd_batch_set_raw.
CmdLen == Ntohs(raw, p + 2)
HeaderFits == tmp_len >= 2 /\ tmp_len - 2 >= 2
ValueFits_header == tmp_len >= CmdLen
ValueFits == tmp_len - Header >= CmdLen
Advance_value == CmdLen
Advance == Header + CmdLen
Validate ==
    /\ pc = "validate" /\ tmp_len > 0
    /\ past' = (past \/ (HeaderFits /\ p + Header > Len(raw)))
    /\ IF HeaderFits /\ ValueFits
       THEN /\ p' = p + Advance /\ tmp_len' = (tmp_len - Advance) % Width
            /\ UNCHANGED <<pc, status>>
       ELSE /\ pc' = "end" /\ status' = "CORRUPTED_COMMAND"
            /\ UNCHANGED <<p, tmp_len>>
    /\ UNCHANGED <<buf, length, added, overrun, raw, visited>>

\* The end of atlas_cmd_batch_set_raw: the batch keeps a copy.
Accept ==
    /\ pc = "validate" /\ tmp_len = 0
    /\ pc' = "walk" /\ status' = "OK"
    /\ buf' = raw /\ length' = Len(raw)
    /\ UNCHANGED <<added, overrun, raw, p, tmp_len, visited, past>>

\* atlas_cmd_batch_get hands out the command at offset i: its header is
\* converted, then the caller reads type, length and value.
HandOut(i) ==
    LET inside == i + Header <= Len(buf)
        b == IF inside THEN Swapped(buf, i) ELSE buf
        n == Host(b, i + 2)
    IN  /\ p' = i
        /\ buf' = b
        /\ past' = (past \/ ~inside \/ i + Header + n > Len(buf))
        /\ visited' = Append(visited,
               [type |-> Host(b, i),
                value |-> [j \in 1 .. n |-> Byte(b, i + Header + j - 1)]])
        /\ UNCHANGED <<pc, length, added, overrun, raw, tmp_len, status>>

\* The first call, with NULL, and the ones that follow it.
GetFirst == pc = "walk" /\ visited = <<>> /\ HandOut(0)
NextCmd_raw == p + Header + Ntohs(buf, p + 2)
NextCmd == p + Header + Host(buf, p + 2)
AtEnd_late(i) == i > length
AtEnd(i) == i >= length
GetNext == pc = "walk" /\ visited # <<>> /\ ~AtEnd(NextCmd) /\ HandOut(NextCmd)
GetNull ==
    /\ pc = "walk" /\ visited # <<>> /\ AtEnd(NextCmd)
    /\ pc' = "end"
    /\ UNCHANGED <<buf, length, added, overrun, raw, p, tmp_len, status,
                   visited, past>>

\* atlas_cmd_batch_free, and a new batch.
Free ==
    /\ pc = "end" \/ overrun
    /\ pc' = "fill" /\ buf' = <<>> /\ length' = 0
    /\ added' = <<>> /\ overrun' = FALSE
    /\ raw' = <<>> /\ p' = 0 /\ tmp_len' = 0 /\ status' = "none"
    /\ visited' = <<>> /\ past' = FALSE

Commands == [type : Types, value : BoundedSeq(Bytes, MaxValue)]
Fill == \E c \in Commands : Add(c)
Parse == Validate \/ Accept \/ GetFirst \/ GetNext \/ GetNull
Next == Fill \/ SendBatch \/ Receive \/ Parse \/ Free

\* The codec is straight code: once it has a buffer it goes on.
Spec == Init /\ [][Next]_vars /\ WF_vars(Parse)
-----------------------------------------------------------------------------
\* The reference: a batch is its commands, one after the other.  Encoded(cs)[i]
\* is what the first i of them come to, Whole(b)[i] says that from offset i on
\* there are whole commands only.
Code(c) == Htons(c.type) \o Htons(Len(c.value)) \o c.value
Encoded(cs) ==
    LET e[i \in 0 .. Len(cs)] == IF i = 0 THEN <<>> ELSE e[i - 1] \o Code(cs[i])
    IN  e
Encode(cs) == Encoded(cs)[Len(cs)]
Whole(b) ==
    LET ok[i \in 0 .. Len(b)] ==
            \/ i = Len(b)
            \/ \E n \in 0 .. Len(b) - i - Header :
                   n = Base * b[i + 3] + b[i + 4] /\ ok[i + Header + n]
    IN  ok
WellFormed(b) == b # <<>> /\ Whole(b)[0]

\* atlas_cmd_batch_set_raw accepts exactly the buffers that are a sequence of
\* whole commands: no valid one is turned away, no truncated one gets in.
AcceptsExactly ==
    pc \in {"walk", "end"} => (status = "OK" <=> WellFormed(raw))

\* Neither the validation nor the walk reads a byte past the buffer, although
\* the walk checks no length and trusts the one it converted in place.
InBounds == ~past

\* The walk hands out exactly the commands that were sent, in their order,
\* and stops after the last of them.
WalkExact == pc = "end" /\ status = "OK" => Encode(visited) = raw

\* What the sender added is what the receiver gets, as long as the batch is
\* not longer than a uint16_t can say; beyond that the block is overrun.
RoundTrip ==
    /\ overrun <=> Len(Encode(added)) >= Width
    /\ pc = "end" /\ added # <<>> => visited = added

\* The parts of the inductive invariant.  The length is that of the block, and
\* no buffer is longer than a uint16_t can say.
Lengths ==
    /\ length = Len(buf)
    /\ raw \in Seq(0 .. Base - 1) /\ Len(raw) < Width

\* The validation: what it has passed over are whole commands, and nothing has
\* been handed out yet.
Validating ==
    pc = "validate" =>
        /\ raw # <<>> /\ p + tmp_len = Len(raw) /\ status = "none"
        /\ visited = <<>>
        /\ Whole(raw)[p] <=> Whole(raw)[0]

\* The walk: the header of the command at hand is converted, what follows it
\* is as it came, and behind its value there are whole commands only.
Walking ==
    pc = "walk" =>
        /\ Len(buf) = Len(raw) /\ status = "OK" /\ WellFormed(raw)
        /\ visited = <<>> => buf = raw
        /\ visited # <<>> =>
               /\ p + Header <= Len(raw) /\ NextCmd <= Len(raw)
               /\ Host(buf, p + 2) = Ntohs(raw, p + 2)
               /\ Whole(raw)[NextCmd]
               /\ \A j \in p + Header + 1 .. Len(raw) : buf[j] = raw[j]

\* While a batch is filled nothing is parsed.
Filling == pc = "fill" => status = "none" /\ visited = <<>>

IInv ==
    /\ TypeOK /\ Lengths /\ Filling /\ Validating /\ Walking
    /\ AcceptsExactly /\ InBounds

\* For the way from the sender to the receiver, in addition: any command that
\* fits a uint16_t, and what has been sent.
AnyCommand ==
    [type : 0 .. Width - 1, value : {v \in Seq(0 .. Base - 1) : Len(v) < Width}]
Sent ==
    /\ added \in Seq(Commands)
    /\ overrun => pc = "fill" /\ Len(Encode(added)) >= Width
    /\ ~overrun /\ pc = "fill" => buf = Encode(added)
    /\ pc # "fill" /\ added # <<>> => raw = Encode(added)

\* The validation of a batch that was sent is between two of its commands.
Between ==
    pc = "validate" /\ added # <<>> =>
        \E k \in 0 .. Len(added) : p = Len(Encoded(added)[k])

\* What has been handed out is what is in front of the next command.
Delivering ==
    pc = "walk" =>
        /\ visited \in Seq(AnyCommand)
        /\ visited # <<>> => Encode(visited) = SubSeq(raw, 1, NextCmd)
        /\ added # <<>> =>
               /\ Len(visited) <= Len(added)
               /\ visited = SubSeq(added, 1, Len(visited))
               /\ visited # <<>> => NextCmd = Len(Encoded(added)[Len(visited)])

RInv == IInv /\ Sent /\ Between /\ Delivering /\ WalkExact /\ RoundTrip

\* Every buffer is parsed to an end, commands without a value included.
ParseEnds == pc = "validate" ~> pc = "end"
=============================================================================
