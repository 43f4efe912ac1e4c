------------------------------ MODULE IOEvents -------------------------------
(***************************************************************************)
(* The event half of IOManager (src/src/iomanager): the table of           *)
(* FdContexts, addEvent, delEvent, cancelEvent, cancelAll, and the part of *)
(* idle() that turns what epoll reports into scheduled callbacks.          *)
(*                                                                         *)
(* Each section under an FdContext's mutex is one action.  epoll, with     *)
(* EPOLLET on every descriptor, and the descriptors themselves are modelled*)
(* from how the code uses them.  A registration is numbered by the call of *)
(* addEvent that made it; its number stands for the callback or fiber.     *)
(***************************************************************************)
EXTENDS Naturals, FiniteSets

CONSTANTS
  Clients,     \* threads that register, delete and cancel events
  Pollers,     \* threads that execute IOManager::idle()
  Fds,         \* file descriptors, numbers
  Uses,        \* the pairs <<fd, event>> the clients operate on
  Size,        \* m_fdContexts.size() after the constructor (32)
  CountMod,    \* the counter m_pendingEventCount wraps at this value (2^64)
  MaxAdds,     \* bound: successful calls of addEvent
  MaxRemoves,  \* bound: calls of delEvent, cancelEvent and cancelAll
  MaxArrivals  \* bound: changes of a descriptor's readiness

READ == "READ"
WRITE == "WRITE"
Event == {READ, WRITE}
HUP == "HUP"   \* EPOLLERR or EPOLLHUP, reported whether asked for or not

ASSUME IOEventsAssumption ==
  /\ Fds \subseteq Nat /\ Uses \subseteq Fds \X Event
  /\ Size \in Nat /\ CountMod \in Nat \ {0}
  /\ MaxAdds \in Nat /\ MaxRemoves \in Nat /\ MaxArrivals \in Nat
  /\ Clients \cap Pollers = {}

VARIABLES
  events,               \* FdContext::events
  ctx,                  \* EventContext of each event: a registration or 0
  m_pendingEventCount,
  upgrading,            \* clients that hold m_mutex shared and ask for it
                        \* exclusively
  interest,             \* external: what epoll watches it for, {} if not at all
  readyList,            \* external: descriptors with an unreported edge
  io,                   \* external: what each descriptor is ready for
  batch,                \* of each poller: descriptor and mask still to do
  adds, removes, arrivals,
  scheduled,            \* history: registrations handed to the scheduler
  deleted,              \* history: registrations removed by delEvent
  aborted               \* an assert of the code has failed

tableVars == <<events, ctx, m_pendingEventCount>>
epollVars == <<interest, readyList>>
envVars   == <<io, arrivals>>
boundVars == <<adds, removes>>
histVars  == <<scheduled, deleted>>
vars == <<tableVars, upgrading, epollVars, envVars, boundVars, histVars, batch,
          aborted>>

(* The types; the pending counter stays in the range of its width.         *)
TypeOK ==
  /\ events \in [Fds -> SUBSET Event]
  /\ ctx \in [Fds -> [Event -> 0..MaxAdds]]
  /\ m_pendingEventCount \in 0..(CountMod - 1)
  /\ upgrading \subseteq Clients
  /\ interest \in [Fds -> SUBSET Event]
  /\ readyList \subseteq Fds
  /\ io \in [Fds -> SUBSET (Event \cup {HUP})]
  /\ batch \in [Pollers -> SUBSET (Fds \X SUBSET (Event \cup {HUP}))]
  /\ adds \in 0..MaxAdds /\ removes \in 0..MaxRemoves
  /\ arrivals \in 0..MaxArrivals
  /\ scheduled \subseteq 1..MaxAdds /\ deleted \subseteq 1..MaxAdds
  /\ aborted \in BOOLEAN

Init ==
  /\ events = [fd \in Fds |-> {}]
  /\ ctx = [fd \in Fds |-> [e \in Event |-> 0]]
  /\ m_pendingEventCount = 0
  /\ upgrading = {}
  /\ interest = [fd \in Fds |-> {}] /\ readyList = {}
  /\ io = [fd \in Fds |-> {}]
  /\ batch = [p \in Pollers |-> {}]
  /\ adds = 0 /\ removes = 0 /\ arrivals = 0
  /\ scheduled = {} /\ deleted = {} /\ aborted = FALSE

-----------------------------------------------------------------------------
(* epoll and the descriptors (external).                                   *)

Reported(fd, mask, ready) == ready \cap (mask \cup {HUP})

(* epoll_ctl(ADD or MOD) watches fd for mask and reports it again if it is *)
(* ready; epoll_ctl(DEL), for an empty mask, forgets it.                   *)
EpollCtl(fd, mask) ==
  /\ interest' = [interest EXCEPT ![fd] = mask]
  /\ readyList' = IF mask # {} /\ Reported(fd, mask, io[fd]) # {}
                  THEN readyList \cup {fd} ELSE readyList \ {fd}

(* A descriptor becomes readable or writable once more, or hangs up ...    *)
Arrive(fd, e) ==
  /\ arrivals < MaxArrivals /\ arrivals' = arrivals + 1
  /\ io' = [io EXCEPT ![fd] = @ \cup {e}]
  /\ readyList' = IF interest[fd] # {} /\ e \in interest[fd] \cup {HUP}
                  THEN readyList \cup {fd} ELSE readyList
  /\ UNCHANGED <<tableVars, upgrading, boundVars, histVars, interest, batch,
                 aborted>>

(* ... and a callback reads or writes until it would block.                *)
Drain(fd, e) ==
  /\ arrivals < MaxArrivals /\ arrivals' = arrivals + 1
  /\ e \in io[fd]
  /\ io' = [io EXCEPT ![fd] = @ \ {e}]
  /\ UNCHANGED <<tableVars, upgrading, epollVars, boundVars, histVars, batch,
                 aborted>>

-----------------------------------------------------------------------------
(* Faulty variant: the counter is a signed one.                            *)
MinusSigned(n) == m_pendingEventCount - n

(* --m_pendingEventCount on an unsigned counter, n times.                  *)
Minus(n) == (m_pendingEventCount + CountMod * n - n) % CountMod

(* Faulty variant: resetEventContext() is forgotten.                       *)
TriggerNoReset(fd, E) ==
  /\ aborted' = ~(E \subseteq events[fd])
  /\ events' = [events EXCEPT ![fd] = @ \ E]
  /\ scheduled' = scheduled \cup ({ctx[fd][e] : e \in E} \ {0})
  /\ UNCHANGED ctx

(* triggerEvent() for each event of E in turn: assert(events & event),     *)
(* then schedule what the context holds and reset the context.  A context  *)
(* that is empty schedules nothing.                                        *)
TriggerEvents(fd, E) ==
  /\ aborted' = ~(E \subseteq events[fd])
  /\ events' = [events EXCEPT ![fd] = @ \ E]
  /\ scheduled' = scheduled \cup ({ctx[fd][e] : e \in E} \ {0})
  /\ ctx' = [ctx EXCEPT ![fd] = [e \in Event |-> IF e \in E THEN 0 ELSE @[e]]]

-----------------------------------------------------------------------------
(* Clients.                                                                *)

Free(c) == c \notin upgrading

(* addEvent() on a descriptor the table has, whose event is not there yet; *)
(* the second assert wants the event's context to be empty.                *)
AddEvent(c, fd, e) ==
  /\ Free(c) /\ fd < Size /\ <<fd, e>> \in Uses
  /\ e \notin events[fd]
  /\ adds < MaxAdds /\ adds' = adds + 1
  /\ EpollCtl(fd, events[fd] \cup {e})
  /\ m_pendingEventCount' = (m_pendingEventCount + 1) % CountMod
  /\ events' = [events EXCEPT ![fd] = @ \cup {e}]
  /\ aborted' = (ctx[fd][e] # 0)
  /\ ctx' = [ctx EXCEPT ![fd][e] = adds + 1]
  /\ UNCHANGED <<upgrading, envVars, histVars, batch, removes>>

(* addEvent() on a descriptor beyond the table asks for the exclusive lock *)
(* while it keeps the shared one (the unlock is commented out), so that    *)
(* the exclusive lock is never granted, contextResize() is not reached and *)
(* the thread does not come back.                                          *)
AddEventGrow(c, fd) ==
  /\ Free(c) /\ fd >= Size
  /\ upgrading' = upgrading \cup {c}
  /\ UNCHANGED <<tableVars, epollVars, envVars, boundVars, histVars, batch,
                 aborted>>

(* "if (!(fd_ctx->events) & event) return false": ! binds tighter than &,  *)
(* and !events is 1, the bit of READ, only when no event is registered.    *)
NothingToRemove(fd, e) == events[fd] = {} /\ e = READ

(* epoll_ctl with EPOLL_CTL_DEL fails for a descriptor epoll does not have *)
(* and the operation returns without a change.                             *)
Removable(c, fd, e) ==
  /\ Free(c) /\ fd < Size /\ <<fd, e>> \in Uses
  /\ removes < MaxRemoves /\ removes' = removes + 1
  /\ ~NothingToRemove(fd, e)
  /\ interest[fd] # {}

(* delEvent().                                                             *)
DelEvent(c, fd, e) ==
  /\ Removable(c, fd, e)
  /\ EpollCtl(fd, events[fd] \ {e})
  /\ m_pendingEventCount' = Minus(1)
  /\ events' = [events EXCEPT ![fd] = @ \ {e}]
  /\ deleted' = deleted \cup ({ctx[fd][e]} \ {0})
  /\ ctx' = [ctx EXCEPT ![fd][e] = 0]
  /\ UNCHANGED <<upgrading, envVars, batch, adds, scheduled, aborted>>

(* Faulty variant: the counter is not touched.                             *)
CancelEventUncounted(c, fd, e) ==
  /\ Removable(c, fd, e)
  /\ EpollCtl(fd, events[fd] \ {e})
  /\ TriggerEvents(fd, {e})
  /\ UNCHANGED <<upgrading, envVars, batch, adds, deleted, m_pendingEventCount>>

(* cancelEvent().                                                          *)
CancelEvent(c, fd, e) ==
  /\ Removable(c, fd, e)
  /\ EpollCtl(fd, events[fd] \ {e})
  /\ m_pendingEventCount' = Minus(1)
  /\ TriggerEvents(fd, {e})
  /\ UNCHANGED <<upgrading, envVars, batch, adds, deleted>>

(* cancelAll(): every registered event is triggered and counted off.       *)
CancelAll(c, fd) ==
  /\ Free(c) /\ fd < Size /\ events[fd] # {} /\ interest[fd] # {}
  /\ removes < MaxRemoves /\ removes' = removes + 1
  /\ EpollCtl(fd, {})
  /\ m_pendingEventCount' = Minus(Cardinality(events[fd]))
  /\ TriggerEvents(fd, events[fd])
  /\ UNCHANGED <<upgrading, envVars, batch, adds, deleted>>

-----------------------------------------------------------------------------
(* Pollers: the event loop of idle().                                      *)

(* epoll_wait() takes some of the reported descriptors off the ready list; *)
(* one that is no longer ready is dropped.                                 *)
EpollWait(p) ==
  /\ batch[p] = {}
  /\ \E S \in (SUBSET readyList) \ {{}} :
       /\ readyList' = readyList \ S
       /\ batch' = [batch EXCEPT ![p] =
            {b \in {<<fd, Reported(fd, interest[fd], io[fd])>> : fd \in S} :
               b[2] # {}}]
  /\ UNCHANGED <<tableVars, upgrading, envVars, boundVars, histVars, interest,
                 aborted>>

(* EPOLLERR and EPOLLHUP stand for every registered event.                 *)
RealEvents(fd, mask) ==
  (mask \cap Event) \cup (IF HUP \in mask THEN events[fd] ELSE {})

(* (fd_ctx->events & real_events) == NONE.                                 *)
IdleSkip(fd, real) == events[fd] \cap real = {}

(* Faulty variant: the descriptor is taken off epoll although it has other *)
(* registered events.                                                      *)
IdleEventDropsRest(p, b) ==
  LET fd == b[1]
      real == RealEvents(fd, b[2]) IN
  /\ b \in batch[p]
  /\ batch' = [batch EXCEPT ![p] = @ \ {b}]
  /\ \/ /\ IdleSkip(fd, real)
        /\ UNCHANGED <<tableVars, epollVars, scheduled, aborted>>
     \/ /\ ~IdleSkip(fd, real)
        /\ EpollCtl(fd, {})
        /\ TriggerEvents(fd, real)
        /\ m_pendingEventCount' = Minus(Cardinality(real))
  /\ UNCHANGED <<upgrading, envVars, boundVars, deleted>>

(* One reported descriptor, under its mutex: unwatch the real events,      *)
(* trigger each of them and count it off.                                  *)
IdleEvent(p, b) ==
  LET fd == b[1]
      real == RealEvents(fd, b[2]) IN
  /\ b \in batch[p]
  /\ batch' = [batch EXCEPT ![p] = @ \ {b}]
  /\ \/ /\ IdleSkip(fd, real)
        /\ UNCHANGED <<tableVars, epollVars, scheduled, aborted>>
     \/ /\ ~IdleSkip(fd, real)
        /\ EpollCtl(fd, events[fd] \ real)
        /\ TriggerEvents(fd, real)
        /\ m_pendingEventCount' = Minus(Cardinality(real))
  /\ UNCHANGED <<upgrading, envVars, boundVars, deleted>>

-----------------------------------------------------------------------------
PollerStep(p) == EpollWait(p) \/ \E b \in batch[p] : IdleEvent(p, b)

ClientStep(c) ==
  \E fd \in Fds :
    \/ \E e \in Event : AddEvent(c, fd, e) \/ DelEvent(c, fd, e)
                        \/ CancelEvent(c, fd, e)
    \/ CancelAll(c, fd) \/ AddEventGrow(c, fd)

Step ==
  \/ \E c \in Clients : ClientStep(c)
  \/ \E p \in Pollers : PollerStep(p)
  \/ \E fd \in Fds, e \in Event \cup {HUP} : Arrive(fd, e) \/ Drain(fd, e)

Next == ~aborted /\ Step

Spec == Init /\ [][Next]_vars

(* Pollers keep polling; epoll_wait hands out every ready descriptor.      *)
Fairness == \A p \in Pollers : WF_vars(~aborted /\ PollerStep(p))
FairSpec == Spec /\ Fairness

-----------------------------------------------------------------------------
(* Properties.                                                             *)

(* Edge-triggered reports are not lost: when a registered event is ready,  *)
(* epoll still has an edge to report or a poller has it in hand.           *)
NoLostEdge ==
  aborted \/ \A fd \in Fds : \A e \in events[fd] \cap io[fd] :
               \/ fd \in readyList
               \/ \E p \in Pollers : \E b \in batch[p] :
                    b[1] = fd /\ b[2] \cap {e, HUP} # {}

(* The registrations whose context is filled in.                           *)
Waiting == {ctx[fd][e] : fd \in Fds, e \in Event} \ {0}

(* Each registration made by addEvent() is in exactly one place: it waits, *)
(* it has been handed to the scheduler once by triggerEvent(), or it has   *)
(* been dropped by delEvent().                                             *)
RegistrationOnce ==
  /\ Waiting \cup scheduled \cup deleted = 1..adds
  /\ Waiting \cap scheduled = {} /\ Waiting \cap deleted = {}
  /\ scheduled \cap deleted = {}

(* The events that are registered, over the whole table.                   *)
Registered == {u \in Fds \X Event : u[2] \in events[u[1]]}

(* m_pendingEventCount, on which stopping() relies, is the number of       *)
(* registered events.                                                      *)
PendingExact == m_pendingEventCount = Cardinality(Registered)

(* No assert of addEvent(), triggerEvent() or cancelAll() fails.           *)
NoAssertFails == ~aborted

(* A descriptor that stays ready does not keep an event registered: each   *)
(* registration is triggered, or removed by a client.                      *)
ReadyIsTriggered ==
  \A fd \in Fds, e \in Event :
    <>[](e \in io[fd]) => []<>(aborted \/ e \notin events[fd])
-----------------------------------------------------------------------------
(* The inductive invariants; see IOEventsProofs.                           *)

(* epoll watches each descriptor for what FdContext::events says, and an   *)
(* event is registered exactly while its context holds a registration,     *)
(* which no other context holds.                                           *)
Filled ==
  \A fd \in Fds, e \in Event :
    (e \in events[fd] <=> ctx[fd][e] # 0) /\ ctx[fd][e] <= adds
Distinct ==
  \A fd, gd \in Fds, e, f \in Event :
    ctx[fd][e] # 0 /\ ctx[fd][e] = ctx[gd][f] => fd = gd /\ e = f
TableOK == interest = events /\ Filled /\ Distinct

(* All that holds with any use of the descriptors: the table, the contexts *)
(* in it and epoll's interest list agree whatever addEvent(), delEvent(),  *)
(* cancelEvent() and idle() do.                                            *)
IInv == TypeOK /\ TableOK /\ RegistrationOnce /\ NoLostEdge

(* No descriptor is used for both events, and addEvent() is not called     *)
(* often enough to wrap the counter.                                       *)
SingleUse ==
  /\ \A u, v \in Uses : u[1] = v[1] => u = v
  /\ MaxAdds < CountMod

(* What is registered or reported is in Uses; with SingleUse a report that *)
(* idle() has in hand is therefore about the one event the descriptor can  *)
(* have, the counter is exact and the asserts hold.                        *)
SingleInv ==
  /\ Registered \subseteq Uses
  /\ \A p \in Pollers : \A b \in batch[p] : \A e \in b[2] \ {HUP} :
       <<b[1], e>> \in Uses
  /\ IsFiniteSet(Registered) /\ Cardinality(Registered) <= adds
  /\ PendingExact /\ NoAssertFails
=============================================================================
