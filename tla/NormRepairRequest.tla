-------------------------- MODULE NormRepairRequest --------------------------
(***************************************************************************)
(* The repair-request synthesis loop shared by NormBlock::AppendRepairAdv *)
(* (src/common/normSegment.cpp 394-466) and NormBlock::AppendRepairRequest *)
(* (469-557): walk the set ids of a bit mask in ascending order, cut them *)
(* into maximal runs of consecutive ids and emit a run of 1 or 2 ids as   *)
(* ITEMS and a longer run as one RANGES entry, starting a new request in  *)
(* the message whenever the form changes.                                 *)
(*                                                                         *)
(* The message collaborator (NormNackMsg / NormCmdRepairAdvMsg, not in    *)
(* src/) is modelled from spec 6: AttachRepairRequest starts a new empty  *)
(* request, SetForm sets its form, AppendRepairItem / AppendRepairRange   *)
(* add an entry, PackRepairRequest appends it to the message.  An entry   *)
(* is <<id>> for an item and <<first, last>> for a range.  The request    *)
(* flags (SEGMENT, INFO) are left out: nothing here depends on them.      *)
(***************************************************************************)
EXTENDS Integers, Sequences, FiniteSets, NormBitMask

LOCAL SX == INSTANCE SequencesExt

Forms == {"INVALID", "ITEMS", "RANGES"}

\* The form a closed run of segmentCount ids is sent as (the switch of
\* lines 513-526 / 419-432).
RunForm(segmentCount) ==
  CASE segmentCount = 0 -> "INVALID"
    [] segmentCount <= 2 -> "ITEMS"
    [] OTHER             -> "RANGES"

(* The loop body of lines 504-555 (and 410-461), one iteration per call:  *)
(* st holds the message built so far, the request being filled (cur),    *)
(* prevForm, segmentCount and firstId.                                    *)
RECURSIVE RepairWalk(_, _, _, _)
RepairWalk(S, nextId, endId, st) ==
  IF nextId >= endId
  THEN IF st.prevForm # "INVALID" THEN Append(st.msg, st.cur) ELSE st.msg
  ELSE
    LET currentId == nextId
        nx        == NextSet(S, currentId + 1)
        nid       == IF nx.ok THEN nx.id ELSE endId
        firstId   == IF st.count = 0 THEN currentId ELSE st.first
        count     == st.count + 1
        close     == (nid - currentId > 1) \/ (nid >= endId)
        form      == RunForm(count)
        switch    == close /\ form # st.prevForm
        msg       == IF switch /\ st.prevForm # "INVALID"
                     THEN Append(st.msg, st.cur) ELSE st.msg
        cur       == IF switch THEN [form |-> form, entries |-> <<>>]
                     ELSE st.cur
        entries   == CASE form = "ITEMS" /\ count = 2
                            -> << <<firstId>>, <<currentId>> >>
                       [] form = "ITEMS" -> << <<firstId>> >>
                       [] OTHER          -> << <<firstId, currentId>> >>
    IN  RepairWalk(S, nid, endId,
          [msg      |-> msg,
           cur      |-> IF close
                        THEN [cur EXCEPT !.entries = @ \o entries]
                        ELSE cur,
           prevForm |-> IF switch THEN form ELSE st.prevForm,
           count    |-> IF close THEN 0 ELSE count,
           first    |-> firstId])

\* The loop's local variables before the first iteration.
WalkStart == [msg |-> <<>>, cur |-> [form |-> "INVALID", entries |-> <<>>],
              prevForm |-> "INVALID", count |-> 0, first |-> 0]

-----------------------------------------------------------------------------
(* Reference definitions, written from the wire rule of spec 4.2.7 and 6 *)
(* rather than from the loop: the maximal runs of a set of ids, a run of  *)
(* 1-2 ids as items and of 3 or more as a range, and consecutive runs of  *)
(* the same form sharing one request.                                     *)
RunsOf(T) ==
  LET starts   == {s \in T : s - 1 \notin T}
      RunEnd(s) == CHOOSE e \in T : e >= s /\ (\A k \in s .. e : k \in T) /\ e + 1 \notin T
  IN  SX!SetToSortSeq({<<s, RunEnd(s)>> : s \in starts},
                      LAMBDA a, b : a[1] < b[1])

RunEntries(r) ==
  CASE r[2] - r[1] >= 2 -> <<r>>
    [] r[1] = r[2]      -> << <<r[1]>> >>
    [] OTHER            -> << <<r[1]>>, <<r[2]>> >>

Encode(T) ==
  SX!FoldLeft(
    LAMBDA acc, r :
      LET f == IF r[2] - r[1] >= 2 THEN "RANGES" ELSE "ITEMS"
      IN  IF acc # <<>> /\ acc[Len(acc)].form = f
          THEN [acc EXCEPT ![Len(acc)].entries = @ \o RunEntries(r)]
          ELSE Append(acc, [form |-> f, entries |-> RunEntries(r)]),
    <<>>, RunsOf(T))

\* The symbol ids a receiver of the message reads out of it.
EntryIds(e) == IF Len(e) = 1 THEN {e[1]} ELSE e[1] .. e[2]

Decode(msg) ==
  UNION {UNION {EntryIds(msg[i].entries[j]) : j \in 1 .. Len(msg[i].entries)} :
           i \in 1 .. Len(msg)}
=============================================================================
