--------------------------- MODULE FindMessages ---------------------------
(***************************************************************************)
(* From UIDs to messages: Model::findMessagesByUids and the search below   *)
(* it, lowerBoundWithUnknownElements.  The list is that of a mailbox: its  *)
(* known UIDs ascend, and a UID of 0 is not known yet.  The search bisects *)
(* until it meets a 0 and goes on linearly from there; the next UID is     *)
(* searched for from where the last one was found.  Positions start at 1;  *)
(* the end iterator is the position after the last.                        *)
(***************************************************************************)
EXTENDS Integers, Sequences

CONSTANTS
    MaxUid,    \* bound: UIDs of the mailbox and those asked for
    MaxLen,    \* bound: messages in the mailbox
    MaxAsked,  \* bound: UIDs asked for
    AnyOrder   \* the UIDs are passed in any order, or ascending, as all callers do

ASSUME BoundAssumption == MaxUid \in Nat /\ MaxLen \in Nat /\ MaxAsked \in Nat
ASSUME OrderAssumption == AnyOrder \in BOOLEAN

VARIABLES
    list,     \* the UIDs of the messages in the mailbox
    uids,     \* what is asked for
    i,        \* the one that is looked for
    lastUid,  \* the last one looked for
    it,       \* where it was found, or where it would be
    begin, n, \* what is left to search: n positions from begin
    mode,     \* "next" UID, "binary" or "linear" search, "found" a position, "done"
    res       \* the positions of the messages found

vars == <<list, uids, i, lastUid, it, begin, n, mode, res>>

IsUnknown(position) == list[position] = 0
NotGreater(position, uid) == list[position] <= uid    \* mutant
LessThan(position, uid) == list[position] < uid

Ascending(l) == \A j, k \in DOMAIN l : j < k /\ l[j] # 0 /\ l[k] # 0 => l[j] < l[k]
\* A UID may be asked for more than once.
Sorted(u) == \A j, k \in DOMAIN u : j < k => u[j] <= u[k]

Lists == {l \in UNION {[1..len -> 0..MaxUid] : len \in 0..MaxLen} : Ascending(l)}
Requests == {u \in UNION {[1..len -> 1..MaxUid] : len \in 0..MaxAsked} : AnyOrder \/ Sorted(u)}

Init ==
    /\ list \in Lists /\ uids \in Requests
    /\ i = 1 /\ lastUid = 0 /\ it = 1 /\ begin = 1 /\ n = 0
    /\ mode = "next" /\ res = <<>>

\* The loop over the UIDs; a repeated one is passed over.
NextUid ==
    /\ mode = "next" /\ i <= Len(uids)
    /\ IF uids[i] = lastUid
       THEN i' = i + 1 /\ UNCHANGED <<lastUid, begin, n, mode>>
       ELSE /\ lastUid' = uids[i] /\ begin' = it /\ n' = Len(list) + 1 - it
            /\ mode' = "binary" /\ UNCHANGED i
    /\ UNCHANGED <<list, uids, it, res>>

Return ==
    /\ mode = "next" /\ i > Len(uids)
    /\ mode' = "done"
    /\ UNCHANGED <<list, uids, i, lastUid, it, begin, n, res>>

\* Continue behind the middle, or below it.
BehindWithMiddle(half) == begin' = begin + half + 1 /\ n' = n - half    \* mutant
BehindFromMiddle(half) == begin' = begin + half /\ n' = n - half        \* mutant
Behind(half) == begin' = begin + half + 1 /\ n' = n - (half + 1)
Below(half) == n' = half /\ UNCHANGED begin

Binary ==
    /\ mode = "binary"
    /\ IF n = 0 THEN mode' = "found" /\ UNCHANGED <<begin, n>>
       ELSE LET half == n \div 2
                middle == begin + half
            IN IF IsUnknown(middle) THEN mode' = "linear" /\ UNCHANGED <<begin, n>>
               ELSE /\ IF LessThan(middle, lastUid) THEN Behind(half) ELSE Below(half)
                    /\ UNCHANGED mode
    /\ UNCHANGED <<list, uids, i, lastUid, it, res>>

Linear ==
    /\ mode = "linear"
    /\ IF n > 0 /\ (IsUnknown(begin) \/ LessThan(begin, lastUid))
       THEN begin' = begin + 1 /\ n' = n - 1 /\ UNCHANGED mode
       ELSE mode' = "found" /\ UNCHANGED <<begin, n>>
    /\ UNCHANGED <<list, uids, i, lastUid, it, res>>

\* Where the next search starts.
ResumeBehind(position) ==    \* mutant
    IF position <= Len(list) THEN position + 1 ELSE position
Resume(position) == position

Take ==
    /\ mode = "found"
    /\ it' = Resume(begin)
    /\ res' = IF begin <= Len(list) /\ list[begin] = lastUid THEN Append(res, begin) ELSE res
    /\ i' = i + 1 /\ mode' = "next"
    /\ UNCHANGED <<list, uids, lastUid, begin, n>>

Next == NextUid \/ Return \/ Binary \/ Linear \/ Take

Spec == Init /\ [][Next]_vars /\ WF_vars(Next)

----------------------------------------------------------------------------
(* Properties. *)

\* Types, and no iterator ever leaves the list.
TypeOK ==
    /\ list \in Lists /\ uids \in Requests
    /\ i \in 1..(Len(uids) + 1) /\ lastUid \in Nat
    /\ it \in 1..(Len(list) + 1) /\ begin \in 1..(Len(list) + 1)
    /\ n \in Nat /\ begin + n <= Len(list) + 1
    /\ mode \in {"next", "binary", "linear", "found", "done"}
    /\ res \in Seq(1..Len(list))

\* Each search returns what a linear search from its start would: the first known
\* UID that is not below the one asked for, or the end, bisecting or not and
\* wherever the unknown UIDs are (lowerBoundWithUnknownElements).
IsLowerBound(position) ==
    /\ \A j \in it..(position - 1) : list[j] < lastUid
    /\ position <= Len(list) => list[position] >= lastUid /\ list[position] # 0
SearchRight == mode = "found" => IsLowerBound(begin)

\* "Convert a list of UIDs to a list of pointers to the relevant message nodes"
\* (Model.cpp:1250): every message whose UID is asked for is found, and no other.
AllFound ==
    mode = "done" =>
        \A p \in 1..Len(list) :
            (\E k \in DOMAIN res : res[k] = p) <=>
                \E k \in DOMAIN uids : uids[k] = list[p]

\* The search ends.
Ends == <>(mode = "done")
=============================================================================
