---------------------------- MODULE NormRepairLoop ----------------------------
(***************************************************************************)
(* One block of one object, sent by a NormBlock at the sender (NormBlockTx)*)
(* to a NormBlock at one receiver (NormBlockRx) over a network that loses *)
(* packets in both directions.                                            *)
(*                                                                         *)
(* The block-level steps are those of the two component modules.  The    *)
(* glue around them lives in NormObject / NormSession, outside src/, and  *)
(* is modelled from spec 2 and 4.2: the sender transmits pending symbols; *)
(* the receiver's repair timer asks IsRepairPending on a repair_mask with *)
(* no suppression from other receivers and, when repair is pending, sends *)
(* the NACK AppendRepairRequest builds; the sender feeds every request    *)
(* entry of an arriving NACK to TxUpdate (in holdoff) or to               *)
(* HandleSegmentRequest (outside holdoff, committed by a later            *)
(* ActivateRepairs).  The model covers one repair cycle: TxReset, which  *)
(* opens the next, is the session's (see LoopSpec).                      *)
(* erasureCount is the receiver's erasure count (spec 3), which a parity  *)
(* NACK conveys as the span [numData, lastId] it asks from (4.2.7).       *)
(*                                                                         *)
(* The network holds the set of symbols in flight, so a retransmission   *)
(* of a symbol already on the way merges with it, and at most one NACK:  *)
(* a newer NACK replaces one not yet delivered, which the loss model      *)
(* allows anyway.                                                         *)
(***************************************************************************)
EXTENDS Integers, Sequences, FiniteSets, NormRepairRequest

LOCAL SX == INSTANCE SequencesExt

CONSTANTS NumData, NumParity, AutoParity

VARIABLES
  tx_pending, tx_repair, parity_offset, parity_count, in_repair, sent, adv,
  rx_pending, rx_repair, erasure_count, rp_result, nack,
  data_net,     \* symbols in flight from sender to receiver
  nack_net      \* the NACK in flight to the sender, or <<>> for none

txVars  == <<tx_pending, tx_repair, parity_offset, parity_count, in_repair,
             sent, adv>>
rxVars  == <<rx_pending, rx_repair, erasure_count, rp_result, nack>>
netVars == <<data_net, nack_net>>
loopVars == <<txVars, rxVars, netVars>>

Tx == INSTANCE NormBlockTx
        WITH pending <- tx_pending, repair <- tx_repair,
             MaxErasures <- NumData + NumParity
Rx == INSTANCE NormBlockRx
        WITH pending <- rx_pending, repair <- rx_repair,
             BlockSize <- NumData + NumParity, XCopy <- XCopyDifference

Symbols == 0 .. NumData + NumParity - 1

(* The calls a NACK makes at the sender: one per request entry, an item  *)
(* <<id>> as (id, id, e) and a range <<first, last>> as (first, last, e),*)
(* in the order of the message, with e = last - numData + 1 (only read   *)
(* for a parity request, last >= numData).                               *)
NackCalls(msg) ==
  LET entries == SX!FoldLeft(LAMBDA acc, req : acc \o req.entries, <<>>, msg)
  IN  [k \in 1 .. Len(entries) |->
         LET e == entries[k]
         IN  <<e[1], e[Len(e)], e[Len(e)] - NumData + 1>>]

(* The calls applied in turn to mask M, each one seeing the parity       *)
(* bookkeeping the previous one left.                                    *)
IngestNack(M, msg) ==
  SX!FoldLeft(LAMBDA acc, c : Tx!IngestAt(acc.mask, acc.offset, acc.count,
                                          c[1], c[2], c[3]),
              [mask |-> M, offset |-> parity_offset, count |-> parity_count],
              NackCalls(msg))

(* AppendRepairRequest's message for every receiver state, evaluated   *)
(* once: RepairTimeout looks its NACK up here.                          *)
NackTable ==
  [x \in (SUBSET Symbols) \X (0 .. NumData) |-> Rx!RequestFor(x[1], x[2])]

-----------------------------------------------------------------------------
LoopInit ==
  /\ Tx!Init /\ Rx!Init
  /\ data_net = {}
  /\ nack_net = <<>>

(* The sender transmits a pending symbol onto the network.               *)
SendSymbol(s) ==
  /\ Tx!Transmit(s)
  /\ data_net' = data_net \cup {s}
  /\ UNCHANGED <<rxVars, nack_net>>

(* A symbol arrives; one the receiver already has, or one for a block it *)
(* has decoded, is dropped.                                              *)
Deliver(s) ==
  /\ s \in data_net
  /\ data_net' = data_net \ {s}
  /\ IF s \in rx_pending /\ ~Rx!Decoded THEN Rx!Receive(s)
                                        ELSE UNCHANGED rxVars
  /\ UNCHANGED <<txVars, nack_net>>

(* The receiver's repair timer: IsRepairPending on a cleared repair_mask  *)
(* and, when it returns true, AppendRepairRequest and the send.          *)
RepairTimeout ==
  LET r == XCopyDifference(Rx!ParityCover, rx_pending)
  IN  /\ ~Rx!Decoded
      /\ rx_repair' = r
      /\ rp_result' = (r # {})
      /\ IF r # {}
         THEN /\ nack'     = NackTable[rx_pending, erasure_count]
              /\ nack_net' = nack'
         ELSE UNCHANGED <<nack, nack_net>>
      /\ UNCHANGED <<txVars, rx_pending, erasure_count, data_net>>

(* A NACK arrives during the holdoff window: TxUpdate for each entry.    *)
(* The network may also keep a copy (duplication by the network or NACKs *)
(* of several receivers), which arrives again at any later time.        *)
NackInHoldoff ==
  LET r == IngestNack(tx_pending, nack_net)
  IN  /\ nack_net # <<>>
      /\ nack_net' \in {<<>>, nack_net}
      /\ tx_pending' = r.mask /\ parity_offset' = r.offset /\ parity_count' = r.count
      /\ UNCHANGED <<tx_repair, in_repair, sent, adv, rxVars, data_net>>

(* A NACK arrives outside holdoff: HandleSegmentRequest for each entry.  *)
NackInActive ==
  LET r == IngestNack(tx_repair, nack_net)
  IN  /\ nack_net # <<>>
      /\ nack_net' \in {<<>>, nack_net}
      /\ tx_repair' = r.mask /\ parity_offset' = r.offset /\ parity_count' = r.count
      /\ UNCHANGED <<tx_pending, in_repair, sent, adv, rxVars, data_net>>

Activate == Tx!ActivateRepairs /\ UNCHANGED <<rxVars, netVars>>

(* The network loses a symbol or the NACK in flight.                     *)
LoseSymbol(s) ==
  /\ s \in data_net
  /\ data_net' = data_net \ {s}
  /\ UNCHANGED <<txVars, rxVars, nack_net>>

LoseNack ==
  /\ nack_net # <<>>
  /\ nack_net' = <<>>
  /\ UNCHANGED <<txVars, rxVars, data_net>>

LoopNext ==
  \/ \E s \in Symbols : SendSymbol(s) \/ Deliver(s) \/ LoseSymbol(s)
  \/ RepairTimeout
  \/ NackInHoldoff \/ NackInActive
  \/ Activate
  \/ LoseNack

(* The receiver's repair timer step would change nothing: the block is *)
(* decoded, or the timer's IsRepairPending result and NACK are the ones  *)
(* already in place.  This is ~ENABLED <<RepairTimeout>>_loopVars.       *)
TimeoutIdle ==
  LET r == XCopyDifference(Rx!ParityCover, rx_pending)
  IN  \/ Rx!Decoded
      \/ /\ rx_repair = r /\ rp_result = (r # {})
         /\ r # {} => nack = NackTable[rx_pending, erasure_count] /\ nack_net = nack

(* The sender's transmit pacing, its holdoff timer (ActivateRepairs) and *)
(* the receiver's repair timer keep running: weak fairness, the last one *)
(* written out as []<>~ENABLED <<A>>_v \/ []<><<A>>_v.  The network may  *)
(* lose any packet but not every copy of a packet sent again and again:  *)
(* strong fairness on delivery, which loss disables at times.  TxReset   *)
(* is called from NormObject, outside src/, and gets no fairness.         *)
Fairness ==
  /\ \A s \in Symbols : WF_loopVars(SendSymbol(s)) /\ SF_loopVars(Deliver(s))
  /\ []<>TimeoutIdle \/ []<><<RepairTimeout>>_loopVars
  /\ SF_loopVars(NackInHoldoff \/ NackInActive)
  /\ WF_loopVars(Activate)

(* The block's first transmission cycle: TxReset, which NormObject calls *)
(* outside src/ to open a new cycle, is not taken, so the receiver's     *)
(* progress rests on the NACK machinery alone.                           *)
LoopSpec == LoopInit /\ [][LoopNext]_loopVars /\ Fairness

-----------------------------------------------------------------------------
(* Spec 1 and 2: the point of the repair machinery.  However the network *)
(* loses symbols and NACKs, the receiver's NACKs, built by               *)
(* IsRepairPending / AppendRepairRequest, and the sender's ingestion of   *)
(* them by TxUpdate / HandleSegmentRequest / ActivateRepairs, with its   *)
(* fresh-parity bookkeeping, together get the receiver enough symbols to *)
(* decode the block.  A NACK that asks for too little, or ingestion that *)
(* answers it with nothing new, leaves the receiver waiting for ever.    *)
EventuallyDecoded == <>Rx!Decoded
=============================================================================
