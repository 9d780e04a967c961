-------------------------------- MODULE Dmsg --------------------------------
(***************************************************************************)
(* The transactions of libdmsg over one connection between two service     *)
(* daemons: the states of dmsg_iocom, what dmsg_msg_write and the replies  *)
(* do to them, the receive side (dmsg_ioq_read, dmsg_state_msgrx, the      *)
(* callback, dmsg_state_cleanuprx) and what becomes of them when the       *)
(* connection breaks.                                                      *)
(*                                                                         *)
(* Between daemons the transactions are top-level: each side opens one     *)
(* LNK_CONN (service.c) and one LNK_SPAN per relay (msg_lnk.c).  Whoever   *)
(* writes on a connection holds cluster_mtx, so a call of the API is one   *)
(* step; the core thread of the connection interleaves with them.          *)
(*                                                                         *)
(* A msgid is the address of the state of the end that opened the          *)
(* transaction: it is used again as soon as the state is freed, and the    *)
(* two ends may use the same one.  inc counts the uses; it is history, the *)
(* code never sees it.                                                     *)
(*                                                                         *)
(* txmsgq, the transmit ioq and the socket of one direction are one queue. *)
(* Every loss inside it is found by the sequence number of the messages    *)
(* (msg.c 1071-1081), so a broken stream is a prefix of what was written.  *)
(*                                                                         *)
(* Two things are taken as they are meant.  The flags of the core thread   *)
(* (RWORK, WWORK, PWORK, EOF) are changed by atomic_set_int, which at this *)
(* commit expands to a function that only prints (msg.c 75-83), and        *)
(* iocom->mtx, locked again by its holder (msg.c 1547 and 2390, 2324 and   *)
(* 474), is taken as recursive.  So the module says what the core thread   *)
(* may do and never that it does it: it states no fairness.                *)
(***************************************************************************)
EXTENDS Naturals, Sequences, FiniteSets

CONSTANTS
  Peers,       \* the two daemons
  MaxInc,      \* bound: uses of a msgid
  SpanUses     \* SpanUses[p]: bound: uses of the msgid of p's LNK_SPAN

ASSUME PeersAssumption == IsFiniteSet(Peers) /\ Cardinality(Peers) = 2
ASSUME IncAssumption   == /\ MaxInc \in Nat \ {0}
                          /\ SpanUses \in [Peers -> 0..MaxInc]

\* The address of the state of a transaction, at the end that opened it.
Addrs == {"CONN", "SPAN"}
Trans == Peers \X Addrs
Other(p) == CHOOSE q \in Peers : q # p

VARIABLES
  st,          \* st[p][t]: the dmsg_state_t of t at p
  wire,        \* wire[p]: messages written by p, not yet read
  cut,         \* p's stream ends with what is in wire[p]
  cur,         \* cur[p]: message in the core thread of p
  conn,        \* conn[p]: iocom->conn of p is set, and in connq
  auth,        \* master_auth_signal of p has run
  err,         \* ioq_rx.error of p
  eof,         \* DMSG_IOCOMF_EOF of p
  asserted     \* the ends that failed an assertion

vars == <<st, wire, cut, cur, conn, auth, err, eof, asserted>>

\* txC .. rxD: CREATE and DELETE in txcmd and rxcmd; live: INSERTED.
State == [live : BOOLEAN, txC : BOOLEAN, txD : BOOLEAN,
          rxC : BOOLEAN, rxD : BOOLEAN, inc : 0..MaxInc]

\* reply: REPLY and REVTRANS, which the replying end sets together.
Message == [msgid : Addrs, reply : BOOLEAN, create : BOOLEAN, delete : BOOLEAN,
            inc : 1..MaxInc]

Free(n) == [live |-> FALSE, txC |-> FALSE, txD |-> FALSE,
            rxC |-> FALSE, rxD |-> FALSE, inc |-> n]

\* The message in the core thread, and the thread without one.
CoreMsg == [phase : {"callback", "cleanup"}, t : Trans, inc : 1..MaxInc,
            create : BOOLEAN, delete : BOOLEAN]
NoMsg   == [phase |-> "read"]

Init ==
  /\ st       = [p \in Peers |-> [t \in Trans |-> Free(0)]]
  /\ wire     = [p \in Peers |-> <<>>]
  /\ cut      = [p \in Peers |-> FALSE]
  /\ cur      = [p \in Peers |-> NoMsg]
  /\ conn     = [p \in Peers |-> FALSE]
  /\ auth     = [p \in Peers |-> FALSE]
  /\ err      = [p \in Peers |-> FALSE]
  /\ eof      = [p \in Peers |-> FALSE]
  /\ asserted = {}

Running(p) == p \notin asserted /\ ~eof[p]
Reading(p) == Running(p) /\ auth[p] /\ cur[p] = NoMsg

-----------------------------------------------------------------------------
(* Writing *)

\* Mutant of Retire: freed when either direction is closed.
RetireEither(s) == IF s.txD \/ s.rxD THEN Free(s.inc) ELSE s

\* A state leaves the trees and is freed once both directions are closed.
Retire(s) == IF s.txD /\ s.rxD THEN Free(s.inc) ELSE s

Msg(p, t, create, delete) ==
  [msgid |-> t[2], reply |-> t[1] # p, create |-> create, delete |-> delete,
   inc |-> st[p][t].inc]

Queue(p, ms) == wire' = IF cut[p] THEN wire ELSE [wire EXCEPT ![p] = @ \o ms]

\* A new transaction: dmsg_msg_alloc with CREATE, then dmsg_msg_write.
Create(p, addr) ==
  LET t == <<p, addr>>
      n == st[p][t].inc + 1
  IN /\ ~st[p][t].live
     /\ st' = [st EXCEPT ![p][t] = [Free(n) EXCEPT !.live = TRUE, !.txC = TRUE]]
     /\ Queue(p, <<[Msg(p, t, TRUE, FALSE) EXCEPT !.inc = n]>>)

\* The state of p for t after a reply that closes p's direction.
Closed(s) == IF s.live /\ ~s.txD THEN Retire([s EXCEPT !.txC = TRUE, !.txD = TRUE])
                                 ELSE s

\* Mutant of ReplyMsg: CREATE is set without a look at txcmd.
ReplyMsgCreates(p, t) ==
  IF st[p][t].live /\ ~st[p][t].txD THEN <<Msg(p, t, TRUE, TRUE)>> ELSE <<>>

\* Mutant of ReplyMsg: the end that did not open the transaction only frees it.
ReplyMsgOpener(p, t) ==
  IF st[p][t].live /\ ~st[p][t].txD /\ t[1] = p
  THEN <<Msg(p, t, ~st[p][t].txC, TRUE)>> ELSE <<>>

\* What dmsg_msg_reply and dmsg_state_reply write: nothing when the direction
\* is closed already, a CREATE too when it was never opened.
ReplyMsg(p, t) ==
  IF st[p][t].live /\ ~st[p][t].txD THEN <<Msg(p, t, ~st[p][t].txC, TRUE)>> ELSE <<>>

\* dmsg_msg_result and dmsg_state_result: the direction stays open.
ResultMsg(p, t) ==
  IF ~st[p][t].txD THEN <<Msg(p, t, ~st[p][t].txC, FALSE)>> ELSE <<>>

\* Mutant of AuthSignal: the signal callback is not replaced, so it runs again.
AuthSignalAgain(p) ==
  /\ Running(p)
  /\ Create(p, "CONN")
  /\ auth' = [auth EXCEPT ![p] = TRUE]
  /\ UNCHANGED <<cut, cur, conn, err, eof, asserted>>

\* The first signal of a connection opens the LNK_CONN of p.
AuthSignal(p) ==
  /\ Running(p)
  /\ ~auth[p]
  /\ Create(p, "CONN")
  /\ auth' = [auth EXCEPT ![p] = TRUE]
  /\ UNCHANGED <<cut, cur, conn, err, eof, asserted>>

\* A relay scan, in the core thread of any connection, opens a LNK_SPAN over
\* the connections that are in connq.
OpenSpan(p) ==
  /\ Running(p)
  /\ conn[p]
  /\ st[p][<<p, "SPAN">>].inc < SpanUses[p]
  /\ Create(p, "SPAN")
  /\ UNCHANGED <<cut, cur, conn, auth, err, eof, asserted>>

\* dmsg_relay_delete, in the core thread of any connection, closes it.
CloseSpan(p) ==
  LET t == <<p, "SPAN">>
  IN /\ Running(p)
     /\ st[p][t].live /\ ~st[p][t].txD
     /\ Queue(p, ReplyMsg(p, t))
     /\ st' = [st EXCEPT ![p][t] = Closed(@)]
     /\ UNCHANGED <<cut, cur, conn, auth, err, eof, asserted>>

-----------------------------------------------------------------------------
(* Receiving: the core thread *)

\* The tree is chosen by REVTRANS, the state in it by msgid.
Lookup(p, m) == <<IF m.reply THEN p ELSE Other(p), m.msgid>>

\* The messages at which dmsg_state_msgrx fails an assertion: duplicate
\* transaction, no-state(r), missing-state and reused-state.
TransError(p, m) ==
  LET s == st[p][Lookup(p, m)]
  IN \/ m.create /\ ~m.reply /\ s.live
     \/ m.create /\ m.reply /\ ~s.live
     \/ ~m.create /\ m.delete /\ (~s.live \/ ~s.rxC)

\* dmsg_state_msgrx on a message it accepts.
Received(s, m) ==
  IF ~m.create THEN s
  ELSE IF m.reply THEN [s EXCEPT !.rxC = TRUE, !.rxD = FALSE]
  ELSE [Free(m.inc) EXCEPT !.live = TRUE, !.rxC = TRUE]

\* dmsg_ioq_read: the next message from the socket, through dmsg_state_msgrx.
Receive(p) ==
  LET m == Head(wire[Other(p)])
      t == Lookup(p, m)
  IN /\ Reading(p) /\ ~err[p]
     /\ wire[Other(p)] # <<>>
     /\ wire' = [wire EXCEPT ![Other(p)] = Tail(@)]
     /\ IF TransError(p, m)
        THEN asserted' = asserted \cup {p} /\ UNCHANGED <<st, cur>>
        ELSE /\ st' = [st EXCEPT ![p][t] = Received(@, m)]
             /\ cur' = [cur EXCEPT ![p] = [phase |-> "callback", t |-> t, inc |-> m.inc,
                                           create |-> m.create, delete |-> m.delete]]
             /\ UNCHANGED asserted
     /\ UNCHANGED <<cut, conn, auth, err, eof>>

\* Mutant of CallbackCloses: dmsg_lnk_conn does not terminate its side.
CallbackKeepsConn(p) ==
  LET c == cur[p]
  IN IF ~c.delete THEN {}
     ELSE IF c.t = <<Other(p), "CONN">> THEN {<<p, "SPAN">>} ELSE {c.t}

\* The transactions the callback closes: on DELETE the one it is called for
\* and, in dmsg_lnk_conn, those of all relays of the connection.
CallbackCloses(p) ==
  LET c == cur[p]
  IN IF ~c.delete THEN {}
     ELSE {c.t} \cup (IF c.t = <<Other(p), "CONN">> THEN {<<p, "SPAN">>} ELSE {})

\* The callback of a received message: dmsg_lnk_conn and dmsg_lnk_span for the
\* transactions of the other end, which they acknowledge on CREATE;
\* master_auth_conn_rx and dmsg_lnk_relay for our own.
Callback(p) ==
  LET c     == cur[p]
      ack   == c.create /\ c.t[1] # p
      relay == <<p, "SPAN">>
      ends  == CallbackCloses(p)
  IN /\ Running(p)
     /\ c.phase = "callback"
     /\ IF ack
        THEN /\ st' = [st EXCEPT ![p][c.t].txC = TRUE]
             /\ Queue(p, ResultMsg(p, c.t))
        ELSE /\ st' = [st EXCEPT ![p] = [t \in Trans |->
                        IF t \in ends THEN Closed(@[t]) ELSE @[t]]]
             /\ Queue(p, (IF relay \in ends \ {c.t} THEN ReplyMsg(p, relay) ELSE <<>>)
                         \o (IF c.t \in ends THEN ReplyMsg(p, c.t) ELSE <<>>))
     /\ conn' = IF c.t = <<Other(p), "CONN">> THEN [conn EXCEPT ![p] = ack] ELSE conn
     /\ cur' = [cur EXCEPT ![p].phase = "cleanup"]
     /\ UNCHANGED <<cut, auth, err, eof, asserted>>

\* Mutant of CleanupRx: every message closes the receive direction.
CleanupRxAny(p) ==
  LET c == cur[p]
  IN /\ Running(p)
     /\ c.phase = "cleanup"
     /\ st' = [st EXCEPT ![p][c.t] = Retire([@ EXCEPT !.rxD = TRUE])]
     /\ cur' = [cur EXCEPT ![p] = NoMsg]
     /\ UNCHANGED <<wire, cut, conn, auth, err, eof, asserted>>

\* dmsg_state_cleanuprx: a DELETE closes the receive direction.
CleanupRx(p) ==
  LET c == cur[p]
  IN /\ Running(p)
     /\ c.phase = "cleanup"
     /\ st' = IF c.delete THEN [st EXCEPT ![p][c.t] = Retire([@ EXCEPT !.rxD = TRUE])]
                          ELSE st
     /\ cur' = [cur EXCEPT ![p] = NoMsg]
     /\ UNCHANGED <<wire, cut, conn, auth, err, eof, asserted>>

-----------------------------------------------------------------------------
(* A broken connection *)

Prefixes(s) == {SubSeq(s, 1, n) : n \in 0..Len(s)}

\* The connection breaks: each stream loses what follows some point of it.
Break ==
  /\ \A p \in Peers : ~cut[p]
  /\ wire' \in {w \in [Peers -> UNION {Prefixes(wire[p]) : p \in Peers}] :
                 \A p \in Peers : w[p] \in Prefixes(wire[p])}
  /\ cut' = [p \in Peers |-> TRUE]
  /\ UNCHANGED <<st, cur, conn, auth, err, eof, asserted>>

\* dmsg_ioq_read meets the end of the stream, or any other error of the socket
\* or of the message (spontaneous).
ReadEOF(p) ==
  /\ Reading(p) /\ ~err[p]
  /\ cut[Other(p)] /\ wire[Other(p)] = <<>>
  /\ err' = [err EXCEPT ![p] = TRUE]
  /\ UNCHANGED <<st, wire, cut, cur, conn, auth, eof, asserted>>

ReadError(p) ==
  /\ Reading(p) /\ ~err[p]
  /\ ~cut[Other(p)]
  /\ err' = [err EXCEPT ![p] = TRUE]
  /\ UNCHANGED <<st, wire, cut, cur, conn, auth, eof, asserted>>

\* The states dmsg_ioq_read may pick: staterd_tree first, then statewr_tree.
StateRd(p) == {t \in Trans : t[1] # p /\ st[p][t].live}
StateWr(p) == {t \in Trans : t[1] = p /\ st[p][t].live}
\* Mutant of Victims: only the transactions of the other end.
VictimsRd(p) == StateRd(p)

Victims(p) == IF StateRd(p) # {} THEN StateRd(p) ELSE StateWr(p)

FailureMsg(p, t) ==
  [phase |-> "callback", t |-> t, inc |-> st[p][t].inc,
   create |-> t[1] = p /\ ~st[p][t].rxC, delete |-> TRUE]

\* dmsg_msg_simulate_failure on one open transaction: a DELETE as if the other
\* end had sent it, which goes to the callback without dmsg_state_msgrx.  When
\* the receive direction is closed already it only sleeps and tries again.
SimulateFailure(p) ==
  /\ Reading(p) /\ err[p]
  /\ \E t \in Victims(p) :
       cur' = IF st[p][t].rxD THEN cur ELSE [cur EXCEPT ![p] = FailureMsg(p, t)]
  /\ UNCHANGED <<st, wire, cut, conn, auth, err, eof, asserted>>

\* No transaction is left: the final LNK_ERROR, and the core loop ends.
SetEOF(p) ==
  /\ Reading(p) /\ err[p]
  /\ Victims(p) = {}
  /\ eof' = [eof EXCEPT ![p] = TRUE]
  /\ UNCHANGED <<st, wire, cut, cur, conn, auth, err, asserted>>

\* dmsg_iocom_done closes the socket; what is in it may still be read.
CloseSocket(p) ==
  /\ eof[p] /\ ~cut[p]
  /\ cut' = [cut EXCEPT ![p] = TRUE]
  /\ UNCHANGED <<st, wire, cur, conn, auth, err, eof, asserted>>

Done == \A p \in Peers : eof[p] /\ cut[p]
Finished == Done /\ UNCHANGED vars

-----------------------------------------------------------------------------
Next ==
  \/ \E p \in Peers : \/ AuthSignal(p) \/ OpenSpan(p) \/ CloseSpan(p)
                      \/ Receive(p) \/ Callback(p) \/ CleanupRx(p)
                      \/ ReadEOF(p) \/ ReadError(p)
                      \/ SimulateFailure(p) \/ SetEOF(p) \/ CloseSocket(p)
  \/ Break
  \/ Finished

Spec == Init /\ [][Next]_vars

-----------------------------------------------------------------------------
(* Properties *)

TypeOK ==
  /\ st \in [Peers -> [Trans -> State]]
  /\ wire \in [Peers -> Seq(Message)]
  /\ cut \in [Peers -> BOOLEAN]
  /\ conn \in [Peers -> BOOLEAN]
  /\ auth \in [Peers -> BOOLEAN]
  /\ err \in [Peers -> BOOLEAN]
  /\ eof \in [Peers -> BOOLEAN]
  /\ asserted \subseteq Peers
  /\ cur \in [Peers -> {NoMsg} \cup CoreMsg]

\* No end fails an assertion of dmsg_state_msgrx, however the DELETEs of the
\* two directions cross, msgids are used again, and one end closes its
\* transactions because its own receive side broke while it still transmits.
NoTransError == asserted = {}

\* The message in the core thread belongs to the state it carries a pointer
\* to: the state is not freed, nor used again, before dmsg_state_cleanuprx.
NoDanglingState ==
  \A p \in Peers :
    cur[p] # NoMsg => /\ st[p][cur[p].t].live
                      /\ st[p][cur[p].t].inc = cur[p].inc

\* A connection that has reached EOF keeps nothing: no state that nobody would
\* fail any more, and no entry in connq over which a relay scan of another
\* connection would open a new one.
NothingAfterEOF ==
  \A p \in Peers :
    eof[p] => /\ \A t \in Trans : ~st[p][t].live
              /\ ~conn[p]

\* The ends agree when nothing is under way: with both core threads reading,
\* both streams empty and no error, a transaction is open in both directions
\* at both ends, as the same use of its msgid, or it is freed at both.  No end
\* keeps a half-closed state that the other one has forgotten, and so none
\* whose msgid the other end would take for a new transaction.
AgreeAtRest ==
  (\A p \in Peers : Reading(p) /\ ~err[p] /\ ~cut[p] /\ wire[p] = <<>>) =>
    \A p \in Peers : \A t \in Trans :
      st[p][t].live => /\ st[Other(p)][t].live
                       /\ st[Other(p)][t].inc = st[p][t].inc
                       /\ st[p][t].txC /\ ~st[p][t].txD
                       /\ st[p][t].rxC /\ ~st[p][t].rxD

\* The loop that fails the open transactions of a broken connection one by one
\* (msg.c 1131-1149) never meets a state whose receive direction is closed
\* already: it would only sleep and pick the same state again, for ever, and
\* the connection would not reach EOF.
FailureNeverStuck ==
  \A p \in Peers :
    Reading(p) /\ err[p] => \A t \in Victims(p) : ~st[p][t].rxD

\* The refinement mapping: a transaction of DmsgTxn is one use of a msgid.
\* Before that use it is idle, when the state is freed it is over.
Phase(s, n, opened, closed) ==
  IF s.inc < n THEN "idle"
  ELSE IF s.inc > n \/ ~s.live \/ closed THEN "closed"
  ELSE IF opened THEN "open" ELSE "idle"

Uses == Peers \X Addrs \X (1..MaxInc)

SentPhase(p, x) == LET s == st[p][<<x[1], x[2]>>] IN Phase(s, x[3], s.txC, s.txD)
SeenPhase(p, x) == LET s == st[p][<<x[1], x[2]>>] IN Phase(s, x[3], s.rxC, s.rxD)

Txn == INSTANCE DmsgTxn WITH
         Names  <- Addrs,
         Rounds <- MaxInc,
         sent   <- [p \in Peers |-> [x \in Uses |-> SentPhase(p, x)]],
         seen   <- [p \in Peers |-> [x \in Uses |-> SeenPhase(p, x)]],
         lost   <- {p \in Peers : err[p]}

\* The states, msgids and queues of the two ends implement independent
\* transactions: neither end ever sees a stream of one transaction in another
\* one that uses the same msgid, nor a close that was not sent, unless its
\* receive side is broken.
Implements == Txn!AbsSpec
=============================================================================
