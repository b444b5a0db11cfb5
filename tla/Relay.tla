-------------------------------- MODULE Relay --------------------------------
(***************************************************************************)
(* PacketRelay::run (net/relay.rs): the three loops of the play phase and  *)
(* how they stop each other, the batching of backend packets, and the      *)
(* graceful shutdown of proxy.rs as one relay meets it.                    *)
(*                                                                         *)
(* s2c, c2s and out run as futures of one task (tokio::join!).  Each loop  *)
(* checks the `stopped` flag at its top, then parks in a biased select!.   *)
(* Notify::notify_waiters reaches only the futures that are parked, so a   *)
(* loop whose handler is waiting for a socket misses it.  The relay's own  *)
(* stop signal is backed up by the flag; the proxy-wide shutdown signal,   *)
(* raised by another task, is not.                                         *)
(***************************************************************************)
EXTENDS Naturals, Sequences

CONSTANTS
  BatchWrites,  \* proxy.batch_s2c_writes
  FlushCap,     \* PENDING_FLUSH_CAP, counted in packets
  MaxSent       \* bound: packets the backend sends

ASSUME RelayAssumption == BatchWrites \in BOOLEAN /\ FlushCap \in Nat /\ MaxSent \in Nat

Loops == {"s2c", "c2s", "out"}

(* What the backend may send: a packet forwarded through the batch, one    *)
(* written straight through (an id out of the u8 range, the answer to a    *)
(* transfer command), one that is swallowed (backend brand, malformed id,  *)
(* dropped by a plugin hook) and the play-state Disconnect.                *)
Kinds == {"plain", "direct", "swallowed", "kick"}

VARIABLES
  pc,          \* pc[f]: "top", "parked", "busy" (in a handler) or "done"
  result,      \* result[f]: "ok" or "err" once done, "none" before
  stopped,     \* the shared flag
  stopWake,    \* parked loops the stop Notify has woken
  shutWake,    \* parked loops the shutdown Notify has woken
  shutdown,    \* "no", "notified" or "kicked": progress of shutdown_gracefully
  socket,      \* packets the backend has sent, not yet in the BufReader
  buffer,      \* packets in the BufReader
  sent,        \* packets sent so far
  visible,     \* how many of them are for the client
  taken,       \* history: how many of those s2c has read
  held,        \* the packet s2c is handling
  pending,     \* pending_s2c
  wire,        \* backend packets written to the client, by number
  outbox,      \* out_rx: packets injected for the client
  told,        \* a Disconnect packet has reached the client
  gone,        \* the client's socket is broken: writes to it fail
  switchTo,    \* switch_target is set
  kickReason   \* kick_reason is set

loopVars == <<pc, result, stopped, stopWake, shutWake>>
inVars == <<socket, buffer, sent, visible, taken>>
outVars == <<pending, wire>>
clientVars == <<outbox, told, gone>>
exitVars == <<switchTo, kickReason>>
vars == <<loopVars, shutdown, inVars, held, outVars, clientVars, exitVars>>

NoPacket == [kind |-> "none", n |-> 0]

Init ==
  /\ pc = [f \in Loops |-> "top"]
  /\ result = [f \in Loops |-> "none"]
  /\ stopped = FALSE /\ stopWake = {} /\ shutWake = {}
  /\ shutdown = "no"
  /\ socket = <<>> /\ buffer = <<>> /\ sent = 0 /\ visible = 0 /\ taken = 0
  /\ held = NoPacket
  /\ pending = <<>> /\ wire = <<>>
  /\ outbox = <<>> /\ told = FALSE /\ gone = FALSE
  /\ switchTo = FALSE /\ kickReason = FALSE

-----------------------------------------------------------------------------
(* What all three loops share.                                             *)

Goto(f, p) ==
  /\ pc' = [pc EXCEPT ![f] = p]
  /\ stopWake' = stopWake \ {f} /\ shutWake' = shutWake \ {f}
  /\ UNCHANGED <<result, stopped>>

(* A loop returns: store the flag, then notify_waiters.                    *)
Finish(f, res) ==
  /\ pc' = [pc EXCEPT ![f] = "done"]
  /\ result' = [result EXCEPT ![f] = res]
  /\ stopped' = TRUE
  /\ stopWake' = {g \in Loops \ {f} : pc[g] = "parked"}
  /\ shutWake' = shutWake \ {f}

(* The top of the loop: the flag, then into select!.                       *)
(* Faulty variant: the flag is not looked at.                              *)
ParkUnchecked(f) ==
  /\ pc[f] = "top"
  /\ Goto(f, "parked")
  /\ UNCHANGED <<shutdown, inVars, held, outVars, clientVars, exitVars>>

Park(f) ==
  /\ pc[f] = "top" /\ ~stopped
  /\ Goto(f, "parked")
  /\ UNCHANGED <<shutdown, inVars, held, outVars, clientVars, exitVars>>

(* What the client has once write_all(packets) returns.                    *)
Written(packets) == IF gone THEN wire ELSE wire \o packets

(* Leaving because of the flag or of the stop signal.  s2c flushes what is *)
(* pending; a client that is gone makes that fail.                         *)
StopSeen(f) == (pc[f] = "top" /\ stopped) \/ (pc[f] = "parked" /\ f \in stopWake)

(* Faulty variant: what is pending is dropped.                             *)
StopWithoutFlush(f) ==
  /\ StopSeen(f)
  /\ Finish(f, "ok")
  /\ pending' = IF f = "s2c" THEN <<>> ELSE pending
  /\ UNCHANGED <<shutdown, inVars, held, wire, clientVars, exitVars>>

Stop(f) ==
  /\ StopSeen(f)
  /\ Finish(f, IF f = "s2c" /\ pending # <<>> /\ gone THEN "err" ELSE "ok")
  /\ wire' = IF f = "s2c" THEN Written(pending) ELSE wire
  /\ pending' = IF f = "s2c" THEN <<>> ELSE pending
  /\ UNCHANGED <<shutdown, inVars, held, clientVars, exitVars>>

(* select! is biased: I/O is looked at only when no signal has arrived.    *)
Idle(f) == pc[f] = "parked" /\ f \notin stopWake /\ f \notin shutWake

-----------------------------------------------------------------------------
(* Backend to client.                                                      *)

(* The backend writes a packet; the ones meant for the client are numbered.*)
BackendSends ==
  /\ sent < MaxSent
  /\ sent' = sent + 1
  /\ \E kind \in Kinds :
       LET shown == kind \in {"plain", "direct"} IN
       /\ visible' = IF shown THEN visible + 1 ELSE visible
       /\ socket' = Append(socket, [kind |-> kind, n |-> IF shown THEN visible + 1 ELSE 0])
  /\ UNCHANGED <<loopVars, shutdown, buffer, taken, held, outVars, clientVars, exitVars>>

(* read_packet: an empty BufReader is filled with what has arrived.        *)
S2cRead ==
  /\ Idle("s2c")
  /\ LET input == IF buffer = <<>> THEN socket ELSE buffer IN
       /\ input # <<>>
       /\ held' = Head(input)
       /\ buffer' = Tail(input)
       /\ socket' = IF buffer = <<>> THEN <<>> ELSE socket
       /\ taken' = IF Head(input).n # 0 THEN taken + 1 ELSE taken
  /\ Goto("s2c", "busy")
  /\ UNCHANGED <<shutdown, sent, visible, outVars, clientVars, exitVars>>

Busy(kind) == pc["s2c"] = "busy" /\ held.kind = kind /\ held' = NoPacket

(* A batched packet joins the pending ones, which are written out when the *)
(* read buffer is empty or the cap is reached.  A write that fails returns *)
(* from the loop (`?`), past the final flush.                              *)
S2cForward ==
  /\ Busy("plain")
  /\ LET all == Append(pending, held.n)
         flush == ~BatchWrites \/ Len(all) >= FlushCap \/ buffer = <<>>
     IN  /\ IF flush /\ gone THEN Finish("s2c", "err") ELSE Goto("s2c", "top")
         /\ wire' = IF flush THEN Written(all) ELSE wire
         /\ pending' = IF flush THEN <<>> ELSE all
  /\ UNCHANGED <<shutdown, inVars, clientVars, exitVars>>

(* Faulty variant: the packet overtakes what is pending.                   *)
S2cDirectUnflushed ==
  /\ Busy("direct")
  /\ IF gone THEN Finish("s2c", "err") ELSE Goto("s2c", "top")
  /\ wire' = Written(<<held.n>>)
  /\ UNCHANGED <<shutdown, inVars, pending, clientVars, exitVars>>

(* A packet that bypasses the batch: what is pending goes out first.       *)
S2cDirect ==
  /\ Busy("direct")
  /\ IF gone THEN Finish("s2c", "err") ELSE Goto("s2c", "top")
  /\ wire' = Written(Append(pending, held.n))
  /\ pending' = <<>>
  /\ UNCHANGED <<shutdown, inVars, clientVars, exitVars>>

S2cSwallow ==
  /\ Busy("swallowed")
  /\ Goto("s2c", "top")
  /\ UNCHANGED <<shutdown, inVars, outVars, clientVars, exitVars>>

(* Faulty variant: the packets before the kick are dropped.                *)
S2cKickUnflushed ==
  /\ Busy("kick")
  /\ Finish("s2c", "ok")
  /\ pending' = <<>>
  /\ kickReason' = TRUE
  /\ UNCHANGED <<shutdown, inVars, wire, clientVars, switchTo>>

(* The backend kicks the player: flush (an error is ignored), stash the    *)
(* reason, stop.                                                           *)
S2cKick ==
  /\ Busy("kick")
  /\ Finish("s2c", "ok")
  /\ wire' = Written(pending)
  /\ pending' = <<>>
  /\ kickReason' = TRUE
  /\ UNCHANGED <<shutdown, inVars, clientVars, switchTo>>

(* The backend socket ends or breaks: `?` returns without a flush.         *)
S2cFails ==
  /\ Idle("s2c") /\ buffer = <<>> /\ socket = <<>>
  /\ Finish("s2c", "err")
  /\ UNCHANGED <<shutdown, inVars, held, outVars, clientVars, exitVars>>

S2cShutdown ==
  /\ pc["s2c"] = "parked" /\ "s2c" \in shutWake \ stopWake
  /\ Finish("s2c", "ok")
  /\ wire' = Written(pending)
  /\ pending' = <<>>
  /\ told' = (told \/ ~gone)
  /\ UNCHANGED <<shutdown, inVars, held, outbox, gone, exitVars>>

-----------------------------------------------------------------------------
(* Client to backend.  A packet from the client (or one injected for the   *)
(* backend) takes the loop into a handler, which goes on, has found a      *)
(* switch request to an online backend, kicks the client, or loses one of  *)
(* the sockets.                                                            *)

C2sRead ==
  /\ Idle("c2s")
  /\ Goto("c2s", "busy")
  /\ UNCHANGED <<shutdown, inVars, held, outVars, clientVars, exitVars>>

C2sHandled ==
  /\ pc["c2s"] = "busy"
  /\ Goto("c2s", "top")
  /\ UNCHANGED <<shutdown, inVars, held, outVars, clientVars, exitVars>>

C2sSwitch ==
  /\ pc["c2s"] = "busy"
  /\ Finish("c2s", "ok")
  /\ switchTo' = TRUE
  /\ UNCHANGED <<shutdown, inVars, held, outVars, clientVars, kickReason>>

C2sKick ==
  /\ pc["c2s"] = "busy"
  /\ Finish("c2s", "err")
  /\ told' = (told \/ ~gone)
  /\ UNCHANGED <<shutdown, inVars, held, outVars, outbox, gone, exitVars>>

(* A plugin answers the player's chat with a kick: the Disconnect is       *)
(* queued for the out loop and c2s returns.                                *)
C2sPluginKick ==
  /\ pc["c2s"] = "busy"
  /\ Finish("c2s", "ok")
  /\ outbox' = Append(outbox, "plugin kick")
  /\ UNCHANGED <<shutdown, inVars, held, outVars, told, gone, exitVars>>

C2sFails ==
  /\ Idle("c2s") \/ pc["c2s"] = "busy"
  /\ Finish("c2s", "err")
  /\ UNCHANGED <<shutdown, inVars, held, outVars, clientVars, exitVars>>

C2sShutdown ==
  /\ pc["c2s"] = "parked" /\ "c2s" \in shutWake \ stopWake
  /\ Finish("c2s", "ok")
  /\ UNCHANGED <<shutdown, inVars, held, outVars, clientVars, exitVars>>

-----------------------------------------------------------------------------
(* Packets injected for the client (send_to_player, kick_player).          *)

MaxOutbox == 1   \* bound: chat packets waiting in out_rx

AllDone == \A f \in Loops : pc[f] = "done"

(* send_to_player finds the relay's channel until the loops have ended.    *)
Inject(packet) == outbox' = IF AllDone THEN outbox ELSE Append(outbox, packet)

InjectChat ==
  /\ ~AllDone /\ Len(outbox) < MaxOutbox
  /\ Inject("chat")
  /\ UNCHANGED <<loopVars, shutdown, inVars, held, outVars, told, gone, exitVars>>

OutTake ==
  /\ Idle("out") /\ outbox # <<>>
  /\ Goto("out", "busy")
  /\ UNCHANGED <<shutdown, inVars, held, outVars, clientVars, exitVars>>

OutWrite ==
  /\ pc["out"] = "busy"
  /\ IF gone THEN Finish("out", "ok") ELSE Goto("out", "top")
  /\ told' = (told \/ (~gone /\ Head(outbox) # "chat"))
  /\ outbox' = Tail(outbox)
  /\ UNCHANGED <<shutdown, inVars, held, outVars, gone, exitVars>>

-----------------------------------------------------------------------------
(* The world around the relay.                                             *)

ClientGoes ==
  /\ ~gone
  /\ gone' = TRUE
  /\ UNCHANGED <<loopVars, shutdown, inVars, held, outVars, outbox, told, exitVars>>

(* shutdown_gracefully, from another task: wake whoever is parked on the   *)
(* shutdown signal, then queue a Disconnect for every session.             *)
ShutdownNotify ==
  /\ shutdown = "no"
  /\ shutdown' = "notified"
  /\ shutWake' = {f \in {"s2c", "c2s"} : pc[f] = "parked"}
  /\ UNCHANGED <<pc, result, stopped, stopWake, inVars, held, outVars, clientVars, exitVars>>

ShutdownKick ==
  /\ shutdown = "notified"
  /\ shutdown' = "kicked"
  /\ Inject("shutdown kick")
  /\ UNCHANGED <<loopVars, inVars, held, outVars, told, gone, exitVars>>

-----------------------------------------------------------------------------

(* What run returns once tokio::join! has all three results.               *)
RelayExit ==
  IF switchTo /\ result["c2s"] = "ok" THEN "Switch"
  ELSE IF kickReason THEN "BackendKicked"
  ELSE IF "err" \in {result["c2s"], result["s2c"]} THEN "Err" ELSE "Disconnected"

S2c == S2cRead \/ S2cForward \/ S2cDirect \/ S2cSwallow \/ S2cKick \/ S2cFails \/ S2cShutdown
C2s == C2sRead \/ C2sHandled \/ C2sSwitch \/ C2sKick \/ C2sPluginKick \/ C2sFails \/ C2sShutdown
Out == OutTake \/ OutWrite

Next ==
  \/ \E f \in Loops : Park(f) \/ Stop(f)
  \/ S2c \/ C2s \/ Out
  \/ BackendSends \/ ClientGoes \/ InjectChat \/ ShutdownNotify \/ ShutdownKick

Spec == Init /\ [][Next]_vars

(* The runtime polls every woken future, and a handler ends: a peer that   *)
(* neither reads nor closes is cut off by TCP in the end.  The backend,    *)
(* the client and the operator who shuts down owe nothing.                 *)
Fairness ==
  /\ \A f \in Loops : WF_vars(Park(f)) /\ WF_vars(Stop(f))
  /\ WF_vars(S2cForward \/ S2cDirect \/ S2cSwallow \/ S2cKick)
  /\ WF_vars(S2cShutdown) /\ WF_vars(C2sShutdown)
  /\ WF_vars(C2sHandled \/ C2sSwitch \/ C2sKick \/ C2sPluginKick \/ C2sFails)
  /\ WF_vars(S2cRead) /\ WF_vars(OutTake) /\ WF_vars(OutWrite) /\ WF_vars(ShutdownKick)

FairSpec == Spec /\ Fairness

-----------------------------------------------------------------------------
(* What the reader hands over.                                             *)
Packets == [kind : Kinds, n : Nat]

(* Batching sends the same "bytes in the same order" (config/src/lib.rs   *)
(* on batch_s2c_writes): what the client got, followed by what is pending, is *)
(* the packets the backend sent for it, in order, without gap or repeat.   *)
WireInOrder == wire \o pending = [i \in 1..(Len(wire) + Len(pending)) |-> i]

(* How many packets s2c may have read and not written.                     *)
Capacity == IF BatchWrites /\ FlushCap > 1 THEN FlushCap ELSE 1

(* How the loop from the backend to the client has ended.                  *)
Ending ==
  IF pc["s2c"] # "done" THEN "open" ELSE IF result["s2c"] = "ok" THEN "clean" ELSE "failed"

(* One direction of the relay is a bounded channel, however its loops stop *)
(* each other: what s2c has read is delivered in order, it never holds     *)
(* back more than the flush cap ("so a change to BufReader's capacity      *)
(* elsewhere can't make this grow unboundedly"), nothing is written after  *)
(* its end, and an end without an error leaves nothing behind that was     *)
(* read, unless the client is gone.                                        *)
InOrder == INSTANCE Channel WITH
  sent <- visible, delivered <- wire, ending <- Ending, broken <- gone
DeliversInOrder == InOrder!Spec

(* The stream that run hands back for a switch or for limbo owes the       *)
(* client nothing: if it is there and the backend's socket did not fail,   *)
(* the packets sent for it that it has not got are exactly those that are  *)
(* still unread ("Flush anything already queued before we stop writing").  *)
Unread == {(buffer \o socket)[i].n : i \in 1..Len(buffer \o socket)} \ {0}

NothingOwedAtExit ==
  (AllDone /\ result["s2c"] = "ok" /\ ~gone) =>
    /\ pending = <<>>
    /\ Unread = (Len(wire) + 1)..visible

(* No wake-up of the relay's own stop signal is lost: when one loop has    *)
(* returned, the other two return.                                         *)
LoopsStopTogether == (\E f \in Loops : pc[f] = "done") ~> AllDone

-----------------------------------------------------------------------------
(* What comments say and the code does not do.                             *)

(* proxy.rs on shutdown_notify: "Every connection task (handshake, login,  *)
(* limbo, relay) watches this and gets a wake the moment the proxy starts  *)
(* shutting down".                                                         *)
ShutdownEndsRelay == shutdown # "no" ~> AllDone
=============================================================================
