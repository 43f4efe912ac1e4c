---------------------------- MODULE IOEventsProofs ---------------------------
(***************************************************************************)
(* The safety properties of IOEvents, proved for every set of descriptors, *)
(* clients and pollers.                                                    *)
(***************************************************************************)
EXTENDS IOEvents, FiniteSetTheorems, TLAPS

(* The counter arithmetic stays within the width of the counter.           *)
LEMMA ModRange ==
  ASSUME NEW a \in Int, NEW m \in Nat \ {0}
  PROVE  a % m \in 0..(m - 1)
OBVIOUS

(* Decrementing a counter that is not zero does not wrap.                  *)
LEMMA ModMinus ==
  ASSUME NEW m \in Nat \ {0}, NEW a \in 1..(m - 1)
  PROVE  (a + m * 1 - 1) % m = a - 1
<1>1. a + m * 1 - 1 = (a - 1) + m
  OBVIOUS
<1>2. ((a - 1) + m) % m = a - 1
  OBVIOUS
<1>3. QED
  BY <1>1, <1>2

(* Nor does decrementing it twice when it is two or more.                  *)
LEMMA ModMinusTwo ==
  ASSUME NEW m \in Nat \ {0}, NEW a \in 2..(m - 1)
  PROVE  (a + m * 2 - 2) % m = a - 2
<1>1. a + m * 2 - 2 = ((a - 2) + m) + m
  OBVIOUS
<1>2. (((a - 2) + m) + m) % m = a - 2
  OBVIOUS
<1>3. QED
  BY <1>1, <1>2

(* Incrementing it below its bound does not wrap either.                   *)
LEMMA ModPlus ==
  ASSUME NEW m \in Nat \ {0}, NEW a \in Nat, a + 1 < m
  PROVE  (a + 1) % m = a + 1
OBVIOUS

(* A set of events is finite.                                              *)
LEMMA EventFacts ==
  /\ HUP \notin Event
  /\ \A E \in SUBSET Event : IsFiniteSet(E) /\ Cardinality(E) \in Nat
<1>1. IsFiniteSet({READ, WRITE})
  <2>1. IsFiniteSet({READ})
    BY FS_Singleton
  <2>2. {READ, WRITE} = {READ} \cup {WRITE}
    OBVIOUS
  <2>3. QED
    BY <2>1, <2>2, FS_AddElement
<1>2. ASSUME NEW E \in SUBSET Event PROVE IsFiniteSet(E) /\ Cardinality(E) \in Nat
  BY <1>1, FS_Subset, FS_CardinalityType DEF Event
<1>3. QED
  BY <1>2 DEF Event, HUP, READ, WRITE

-----------------------------------------------------------------------------
(* What the three groups of actions do to the table, point by point.       *)

(* The events E of fd and their contexts are taken out (delEvent,          *)
(* cancelEvent, cancelAll, idle), and epoll is told.                       *)
TakesOut(fd, E) ==
  /\ \A g \in Fds : events'[g] = IF g = fd THEN events[g] \ E ELSE events[g]
  /\ \A g \in Fds, f \in Event :
       ctx'[g][f] = IF g = fd /\ f \in E THEN 0 ELSE ctx[g][f]
  /\ EpollCtl(fd, events[fd] \ E)
  /\ adds' = adds /\ io' = io

(* An event of fd and its context are filled in (addEvent).                *)
PutsIn(fd, e) ==
  /\ e \notin events[fd] /\ adds' = adds + 1
  /\ \A g \in Fds : events'[g] = IF g = fd THEN events[g] \cup {e} ELSE events[g]
  /\ \A g \in Fds, f \in Event :
       ctx'[g][f] = IF g = fd /\ f = e THEN adds + 1 ELSE ctx[g][f]
  /\ EpollCtl(fd, events[fd] \cup {e})
  /\ io' = io

(* TriggerEvents and its caller's EpollCtl.                                *)
LEMMA TriggerTakesOut ==
  ASSUME TypeOK, NEW fd \in Fds, NEW E \in SUBSET Event,
         TriggerEvents(fd, E), EpollCtl(fd, events[fd] \ E),
         UNCHANGED <<io, adds>>
  PROVE  TakesOut(fd, E)
<1>1. ASSUME NEW g \in Fds
      PROVE  events'[g] = IF g = fd THEN events[g] \ E ELSE events[g]
  BY DEF TypeOK, TriggerEvents
<1>2. ASSUME NEW g \in Fds, NEW f \in Event
      PROVE  ctx'[g][f] = IF g = fd /\ f \in E THEN 0 ELSE ctx[g][f]
  BY DEF TypeOK, TriggerEvents
<1>3. QED
  BY <1>1, <1>2 DEF TakesOut

(* delEvent() takes its event out of the table.                            *)
LEMMA DelTakesOut ==
  ASSUME TypeOK, NEW c \in Clients, NEW fd \in Fds, NEW e \in Event,
         DelEvent(c, fd, e)
  PROVE  TakesOut(fd, {e})
<1>1. ASSUME NEW g \in Fds
      PROVE  events'[g] = IF g = fd THEN events[g] \ {e} ELSE events[g]
  BY DEF TypeOK, DelEvent
<1>2. ASSUME NEW g \in Fds, NEW f \in Event
      PROVE  ctx'[g][f] = IF g = fd /\ f \in {e} THEN 0 ELSE ctx[g][f]
  BY DEF TypeOK, DelEvent
<1>3. QED
  BY <1>1, <1>2 DEF TakesOut, DelEvent, envVars

(* addEvent() puts its event into the table.                               *)
LEMMA AddPutsIn ==
  ASSUME TypeOK, NEW c \in Clients, NEW fd \in Fds, NEW e \in Event,
         AddEvent(c, fd, e)
  PROVE  PutsIn(fd, e)
<1>1. ASSUME NEW g \in Fds
      PROVE  events'[g] = IF g = fd THEN events[g] \cup {e} ELSE events[g]
  BY DEF TypeOK, AddEvent
<1>2. ASSUME NEW g \in Fds, NEW f \in Event
      PROVE  ctx'[g][f] = IF g = fd /\ f = e THEN adds + 1 ELSE ctx[g][f]
  BY DEF TypeOK, AddEvent
<1>3. QED
  BY <1>1, <1>2 DEF PutsIn, AddEvent, envVars

(* cancelEvent, cancelAll and the triggering branch of idle are such steps.*)
LEMMA CancelAllTakesOut ==
  ASSUME TypeOK, NEW c \in Clients, NEW fd \in Fds, CancelAll(c, fd)
  PROVE  TakesOut(fd, events[fd])
<1>1. events[fd] \in SUBSET Event /\ events[fd] \ events[fd] = {}
  BY DEF TypeOK
<1>2. QED
  BY <1>1, TriggerTakesOut DEF CancelAll, envVars

(* cancelEvent() takes its event out of the table.                         *)
LEMMA CancelTakesOut ==
  ASSUME TypeOK, NEW c \in Clients, NEW fd \in Fds, NEW e \in Event,
         CancelEvent(c, fd, e)
  PROVE  TakesOut(fd, {e})
BY TriggerTakesOut DEF CancelEvent, envVars

(* The pair of a batch and the events it stands for.                       *)
LEMMA BatchFacts ==
  ASSUME TypeOK, NEW p \in Pollers, NEW b \in batch[p]
  PROVE  /\ b[1] \in Fds /\ b[2] \in SUBSET (Event \cup {HUP})
         /\ b = <<b[1], b[2]>>
         /\ RealEvents(b[1], b[2]) \in SUBSET Event
<1>1. b \in Fds \X SUBSET (Event \cup {HUP})
  BY DEF TypeOK
<1>2. QED
  BY <1>1 DEF TypeOK, RealEvents

(* The event loop of idle() takes out the events it triggers.              *)
LEMMA IdleTakesOut ==
  ASSUME TypeOK, NEW p \in Pollers, NEW b \in batch[p], IdleEvent(p, b),
         ~IdleSkip(b[1], RealEvents(b[1], b[2]))
  PROVE  TakesOut(b[1], RealEvents(b[1], b[2]))
BY BatchFacts, TriggerTakesOut DEF IdleEvent, envVars, boundVars

-----------------------------------------------------------------------------
(* Every step keeps the types.                                             *)
LEMMA TypeStep == TypeOK /\ [Next]_vars => TypeOK'
<1> SUFFICES ASSUME TypeOK, [Next]_vars PROVE TypeOK'
  OBVIOUS
<1> USE IOEventsAssumption DEF tableVars, epollVars, envVars, boundVars, histVars
<1>0. /\ events \in [Fds -> SUBSET Event] /\ io \in [Fds -> SUBSET (Event \cup {HUP})]
      /\ m_pendingEventCount \in Nat /\ adds \in Nat /\ removes \in Nat
      /\ \A n \in Nat : Minus(n) \in 0..(CountMod - 1)
  <2>1. ASSUME NEW n \in Nat PROVE Minus(n) \in 0..(CountMod - 1)
    <3>1. m_pendingEventCount + CountMod * n - n \in Int
      BY DEF TypeOK
    <3>2. QED
      BY <3>1, ModRange DEF Minus
  <2>2. QED
    BY <2>1 DEF TypeOK
<1>1. ASSUME NEW fd \in Fds, NEW mask \in SUBSET Event, EpollCtl(fd, mask)
      PROVE  interest' \in [Fds -> SUBSET Event] /\ readyList' \subseteq Fds
  BY <1>1 DEF TypeOK, EpollCtl
<1>2. ASSUME NEW fd \in Fds, NEW E \in SUBSET Event, TriggerEvents(fd, E)
      PROVE  /\ events' \in [Fds -> SUBSET Event]
             /\ ctx' \in [Fds -> [Event -> 0..MaxAdds]]
             /\ scheduled' \subseteq 1..MaxAdds /\ aborted' \in BOOLEAN
  <2>1. events' \in [Fds -> SUBSET Event] /\ aborted' \in BOOLEAN
    BY <1>2 DEF TypeOK, TriggerEvents
  <2>2. [e \in Event |-> IF e \in E THEN 0 ELSE ctx[fd][e]] \in [Event -> 0..MaxAdds]
    BY DEF TypeOK
  <2>3. ctx' \in [Fds -> [Event -> 0..MaxAdds]]
    BY <1>2, <2>2 DEF TypeOK, TriggerEvents
  <2>4. \A e \in E : ctx[fd][e] \in 0..MaxAdds
    BY DEF TypeOK
  <2>5. scheduled' \subseteq 1..MaxAdds
    <3>1. {ctx[fd][e] : e \in E} \ {0} \subseteq 1..MaxAdds
      BY <2>4
    <3>2. scheduled \subseteq 1..MaxAdds
      BY DEF TypeOK
    <3>3. QED
      BY <1>2, <3>1, <3>2 DEF TriggerEvents
  <2>6. QED
    BY <2>1, <2>3, <2>5
<1>3. ASSUME NEW c \in Clients, NEW fd \in Fds, NEW e \in Event, AddEvent(c, fd, e)
      PROVE  TypeOK'
  <2>1. events[fd] \cup {e} \in SUBSET Event /\ adds + 1 \in 0..MaxAdds
    BY <1>0, <1>3 DEF AddEvent
  <2>2. interest' \in [Fds -> SUBSET Event] /\ readyList' \subseteq Fds
    BY <1>1, <1>3, <2>1 DEF AddEvent
  <2>3. m_pendingEventCount' \in 0..(CountMod - 1)
    BY <1>0, <1>3, ModRange DEF AddEvent
  <2>4. ctx' \in [Fds -> [Event -> 0..MaxAdds]]
    BY <1>3, <2>1 DEF TypeOK, AddEvent
  <2>5. events' \in [Fds -> SUBSET Event] /\ aborted' \in BOOLEAN
    BY <1>3, <2>1 DEF TypeOK, AddEvent
  <2>6. QED
    BY <1>3, <2>1, <2>2, <2>3, <2>4, <2>5 DEF TypeOK, AddEvent
<1>4. ASSUME NEW c \in Clients, NEW fd \in Fds, NEW e \in Event, DelEvent(c, fd, e)
      PROVE  TypeOK'
  <2>1. interest' \in [Fds -> SUBSET Event] /\ readyList' \subseteq Fds
    BY <1>0, <1>1, <1>4 DEF DelEvent
  <2>2. m_pendingEventCount' \in 0..(CountMod - 1) /\ removes' \in 0..MaxRemoves
    BY <1>0, <1>4 DEF DelEvent, Removable
  <2>3. ctx' \in [Fds -> [Event -> 0..MaxAdds]] /\ events' \in [Fds -> SUBSET Event]
    BY <1>4 DEF TypeOK, DelEvent
  <2>4. ctx[fd][e] \in 0..MaxAdds
    BY DEF TypeOK
  <2>5. deleted' \subseteq 1..MaxAdds
    <3>1. {ctx[fd][e]} \ {0} \subseteq 1..MaxAdds
      BY <2>4
    <3>2. deleted \subseteq 1..MaxAdds
      BY DEF TypeOK
    <3>3. QED
      BY <1>4, <3>1, <3>2 DEF DelEvent
  <2>6. QED
    BY <1>4, <2>1, <2>2, <2>3, <2>5 DEF TypeOK, DelEvent
<1>5. ASSUME NEW c \in Clients, NEW fd \in Fds, NEW e \in Event, CancelEvent(c, fd, e)
      PROVE  TypeOK'
  <2>1. interest' \in [Fds -> SUBSET Event] /\ readyList' \subseteq Fds
    BY <1>0, <1>1, <1>5 DEF CancelEvent
  <2>2. m_pendingEventCount' \in 0..(CountMod - 1) /\ removes' \in 0..MaxRemoves
    BY <1>0, <1>5 DEF CancelEvent, Removable
  <2>3. TriggerEvents(fd, {e}) /\ {e} \in SUBSET Event
    BY <1>5 DEF CancelEvent
  <2>4. QED
    BY <1>2, <1>5, <2>1, <2>2, <2>3 DEF TypeOK, CancelEvent
<1>6. ASSUME NEW c \in Clients, NEW fd \in Fds, CancelAll(c, fd)
      PROVE  TypeOK'
  <2>1. interest' \in [Fds -> SUBSET Event] /\ readyList' \subseteq Fds
    BY <1>0, <1>1, <1>6 DEF CancelAll
  <2>2. m_pendingEventCount' \in 0..(CountMod - 1) /\ removes' \in 0..MaxRemoves
    BY <1>0, <1>6, EventFacts DEF CancelAll
  <2>3. TriggerEvents(fd, events[fd]) /\ events[fd] \in SUBSET Event
    BY <1>0, <1>6 DEF CancelAll
  <2>4. QED
    BY <1>2, <1>6, <2>1, <2>2, <2>3 DEF TypeOK, CancelAll
<1>7. ASSUME NEW c \in Clients, NEW fd \in Fds, AddEventGrow(c, fd)
      PROVE  TypeOK'
  BY <1>7 DEF TypeOK, AddEventGrow
<1>8. ASSUME NEW p \in Pollers, EpollWait(p) PROVE TypeOK'
  <2>1. PICK S \in SUBSET readyList :
          /\ readyList' = readyList \ S
          /\ batch' = [batch EXCEPT ![p] =
               {b \in {<<fd, Reported(fd, interest[fd], io[fd])>> : fd \in S} :
                  b[2] # {}}]
    BY <1>8 DEF EpollWait
  <2>2. \A fd \in S : fd \in Fds
                      /\ Reported(fd, interest[fd], io[fd]) \in SUBSET (Event \cup {HUP})
    BY <1>0 DEF TypeOK, Reported
  <2>3. batch' \in [Pollers -> SUBSET (Fds \X SUBSET (Event \cup {HUP}))]
    BY <2>1, <2>2 DEF TypeOK
  <2>4. QED
    BY <1>8, <2>1, <2>3 DEF TypeOK, EpollWait
<1>9. ASSUME NEW p \in Pollers, NEW b \in batch[p], IdleEvent(p, b) PROVE TypeOK'
  <2> DEFINE fd == b[1]
             real == RealEvents(b[1], b[2])
  <2>1. fd \in Fds /\ real \in SUBSET Event /\ Cardinality(real) \in Nat
    BY BatchFacts, EventFacts
  <2>2. batch' \in [Pollers -> SUBSET (Fds \X SUBSET (Event \cup {HUP}))]
    BY <1>9 DEF TypeOK, IdleEvent
  <2>3. CASE IdleSkip(fd, real)
    BY <1>9, <2>2, <2>3 DEF TypeOK, IdleEvent
  <2>4. CASE ~IdleSkip(fd, real)
    <3>1. /\ EpollCtl(fd, events[fd] \ real) /\ TriggerEvents(fd, real)
          /\ m_pendingEventCount' = Minus(Cardinality(real))
      BY <1>9, <2>4 DEF IdleEvent
    <3>2. events[fd] \ real \in SUBSET Event
      BY <1>0, <2>1
    <3> HIDE DEF fd, real
    <3>3. interest' \in [Fds -> SUBSET Event] /\ readyList' \subseteq Fds
      BY <1>1, <2>1, <3>1, <3>2
    <3>4. m_pendingEventCount' \in 0..(CountMod - 1)
      BY <1>0, <2>1, <3>1
    <3>5. UNCHANGED <<upgrading, envVars, boundVars, deleted>>
      BY <1>9 DEF IdleEvent
    <3>6. QED
      BY <1>2, <2>1, <2>2, <3>1, <3>3, <3>4, <3>5 DEF TypeOK
  <2>5. QED
    BY <2>3, <2>4
<1>10. ASSUME NEW fd \in Fds, NEW e \in Event \cup {HUP}, Arrive(fd, e) \/ Drain(fd, e)
       PROVE  TypeOK'
  <2>1. io' \in [Fds -> SUBSET (Event \cup {HUP})]
    <3>1. CASE Arrive(fd, e)
      BY <3>1 DEF TypeOK, Arrive
    <3>2. CASE Drain(fd, e)
      BY <3>2 DEF TypeOK, Drain
    <3>3. QED
      BY <1>10, <3>1, <3>2
  <2>2. readyList' \subseteq Fds
    <3>1. readyList' \in {readyList, readyList \cup {fd}}
      BY <1>10 DEF Arrive, Drain, epollVars
    <3>2. QED
      BY <3>1 DEF TypeOK
  <2>3. arrivals' \in 0..MaxArrivals
    <3>1. arrivals \in Nat /\ arrivals < MaxArrivals /\ arrivals' = arrivals + 1
      BY <1>10 DEF TypeOK, Arrive, Drain
    <3>2. QED
      BY <3>1
  <2>4. QED
    BY <1>10, <2>1, <2>2, <2>3 DEF TypeOK, Arrive, Drain
<1>11. CASE UNCHANGED vars
  BY <1>11 DEF TypeOK, vars
<1>12. QED
  BY <1>3, <1>4, <1>5, <1>6, <1>7, <1>8, <1>9, <1>10, <1>11
     DEF Next, Step, ClientStep, PollerStep

-----------------------------------------------------------------------------
(* No registration is in the contexts of two events.                       *)
LEMMA DistinctUse ==
  ASSUME Distinct, NEW g \in Fds, NEW h \in Fds, NEW f \in Event, NEW d \in Event,
         ctx[g][f] # 0, ctx[g][f] = ctx[h][d]
  PROVE  g = h /\ f = d
<1>1. \A f1, d1 \in Event : ctx[g][f1] # 0 /\ ctx[g][f1] = ctx[h][d1] => g = h /\ f1 = d1
  BY DEF Distinct
<1>2. QED
  BY <1>1

(* Taking events out or putting one in keeps the table consistent.         *)
LEMMA TakesOutTable ==
  ASSUME TypeOK, TypeOK', TableOK, NEW fd \in Fds, NEW E \in SUBSET Event,
         TakesOut(fd, E)
  PROVE  TableOK'
<1>1. interest' = events'
  <2>1. interest' = [g \in Fds |-> IF g = fd THEN events[fd] \ E ELSE events[g]]
    BY DEF TypeOK, TableOK, TakesOut, EpollCtl
  <2>2. events' = [g \in Fds |-> IF g = fd THEN events[fd] \ E ELSE events[g]]
    BY DEF TypeOK, TakesOut
  <2>3. QED
    BY <2>1, <2>2
<1>2. ASSUME NEW g \in Fds, NEW f \in Event
      PROVE  (f \in events'[g] <=> ctx'[g][f] # 0) /\ ctx'[g][f] <= adds'
  <2>1. ctx[g][f] \in Nat /\ ctx[g][f] <= adds /\ adds' = adds /\ adds \in Nat
    BY DEF TypeOK, TableOK, Filled, TakesOut
  <2>2. f \in events[g] <=> ctx[g][f] # 0
    BY DEF TableOK, Filled
  <2>3. CASE g = fd /\ f \in E
    <3>1. f \notin events'[g] /\ ctx'[g][f] = 0
      BY <2>3 DEF TakesOut
    <3>2. QED
      BY <2>1, <3>1
  <2>4. CASE ~(g = fd /\ f \in E)
    <3>1. (f \in events'[g] <=> f \in events[g]) /\ ctx'[g][f] = ctx[g][f]
      BY <2>4 DEF TakesOut
    <3>2. QED
      BY <2>1, <2>2, <3>1
  <2>5. QED
    BY <2>3, <2>4
<1>3. ASSUME NEW g \in Fds, NEW h \in Fds, NEW e \in Event, NEW f \in Event,
             ctx'[g][e] # 0, ctx'[g][e] = ctx'[h][f]
      PROVE  g = h /\ e = f
  <2>1. ctx'[g][e] = ctx[g][e] /\ ctx'[h][f] = ctx[h][f]
    BY <1>3 DEF TakesOut
  <2>2. ctx[g][e] # 0 /\ ctx[g][e] = ctx[h][f]
    BY <1>3, <2>1
  <2>3. Distinct
    BY DEF TableOK
  <2>4. QED
    BY <2>2, <2>3, DistinctUse
<1>4. Filled' /\ Distinct'
  BY <1>2, <1>3 DEF Filled, Distinct
<1>5. QED
  BY <1>1, <1>4 DEF TableOK

(* Table and interest list agree after an event has been put in.           *)
LEMMA PutsInTable ==
  ASSUME TypeOK, TypeOK', TableOK, NEW fd \in Fds, NEW e \in Event, PutsIn(fd, e)
  PROVE  TableOK'
<1> USE IOEventsAssumption
<1>1. interest' = events'
  <2>1. interest' = [g \in Fds |-> IF g = fd THEN events[fd] \cup {e} ELSE events[g]]
    BY DEF TypeOK, TableOK, PutsIn, EpollCtl
  <2>2. events' = [g \in Fds |-> IF g = fd THEN events[fd] \cup {e} ELSE events[g]]
    BY DEF TypeOK, PutsIn
  <2>3. QED
    BY <2>1, <2>2
<1>2. ASSUME NEW g \in Fds, NEW f \in Event
      PROVE  (f \in events'[g] <=> ctx'[g][f] # 0) /\ ctx'[g][f] <= adds'
  BY DEF TypeOK, TableOK, Filled, PutsIn
<1>3. \A g \in Fds, f \in Event : ctx[g][f] # adds + 1
  BY DEF TypeOK, TableOK, Filled
<1>4. ASSUME NEW g \in Fds, NEW h \in Fds, NEW f \in Event, NEW d \in Event,
             ctx'[g][f] # 0, ctx'[g][f] = ctx'[h][d]
      PROVE  g = h /\ f = d
  <2>1. CASE (g = fd /\ f = e) \/ (h = fd /\ d = e)
    <3>1. ctx'[g][f] = adds + 1 /\ ctx'[h][d] = adds + 1
      BY <1>4, <2>1 DEF PutsIn
    <3>2. QED
      BY <1>3, <3>1 DEF PutsIn
  <2>2. CASE ~((g = fd /\ f = e) \/ (h = fd /\ d = e))
    <3>1. ctx'[g][f] = ctx[g][f] /\ ctx'[h][d] = ctx[h][d]
      BY <2>2 DEF PutsIn
    <3>2. ctx[g][f] # 0 /\ ctx[g][f] = ctx[h][d]
      BY <1>4, <3>1
    <3>3. Distinct
      BY DEF TableOK
    <3>4. g \in Fds /\ h \in Fds /\ f \in Event /\ d \in Event
      OBVIOUS
    <3>5. QED
      BY ONLY <3>2, <3>3, <3>4, DistinctUse
  <2>3. QED
    BY <2>1, <2>2
<1>5. Filled' /\ Distinct'
  BY <1>2, <1>4 DEF Filled, Distinct
<1>6. QED
  BY <1>1, <1>5 DEF TableOK

(* Registrations that leave the table go to one place.                     *)
LEMMA TakesOutOnce ==
  ASSUME TypeOK, TableOK, RegistrationOnce, NEW fd \in Fds,
         NEW E \in SUBSET Event, TakesOut(fd, E), NEW out,
         out = {ctx[fd][e] : e \in E} \ {0},
         \/ scheduled' = scheduled \cup out /\ deleted' = deleted
         \/ deleted' = deleted \cup out /\ scheduled' = scheduled
  PROVE  RegistrationOnce'
<1>1. Waiting' = Waiting \ out
  <2>1. ASSUME NEW n \in Waiting' PROVE n \in Waiting \ out
    <3>1. PICK g \in Fds, f \in Event : n = ctx'[g][f] /\ n # 0
      BY DEF Waiting
    <3>2. n = ctx[g][f] /\ ~(g = fd /\ f \in E)
      BY <3>1 DEF TakesOut
    <3>3. n \notin out
      BY <3>1, <3>2 DEF TableOK, Distinct
    <3>4. QED
      BY <3>1, <3>2, <3>3 DEF Waiting
  <2>2. ASSUME NEW n \in Waiting \ out PROVE n \in Waiting'
    <3>1. PICK g \in Fds, f \in Event : n = ctx[g][f] /\ n # 0
      BY DEF Waiting
    <3>2. ~(g = fd /\ f \in E)
      BY <2>2, <3>1
    <3>3. n = ctx'[g][f]
      BY <3>1, <3>2 DEF TakesOut
    <3>4. QED
      BY <3>1, <3>3 DEF Waiting
  <2>3. QED
    BY <2>1, <2>2
<1>2. out \subseteq Waiting
  BY DEF Waiting
<1>3. adds' = adds
  BY DEF TakesOut
<1> HIDE DEF Waiting
<1>4. QED
  BY <1>1, <1>2, <1>3 DEF RegistrationOnce

(* A new registration is in one place.                                     *)
LEMMA PutsInOnce ==
  ASSUME TypeOK, TableOK, RegistrationOnce, NEW fd \in Fds, NEW e \in Event,
         PutsIn(fd, e), UNCHANGED <<scheduled, deleted>>
  PROVE  RegistrationOnce'
<1> USE IOEventsAssumption
<1>0. ctx[fd][e] = 0 /\ adds' = adds + 1 /\ adds \in Nat
  BY DEF TypeOK, TableOK, Filled, PutsIn
<1>1. Waiting' = Waiting \cup {adds + 1}
  <2>1. ASSUME NEW n \in Waiting' PROVE n \in Waiting \cup {adds + 1}
    <3>1. PICK g \in Fds, f \in Event : n = ctx'[g][f] /\ n # 0
      BY DEF Waiting
    <3>2. n = adds + 1 \/ n = ctx[g][f]
      BY <3>1 DEF PutsIn
    <3>3. ctx[g][f] # 0 => ctx[g][f] \in Waiting
      BY DEF Waiting
    <3>4. QED
      BY <3>1, <3>2, <3>3
  <2>2. ASSUME NEW n \in Waiting PROVE n \in Waiting'
    <3>1. PICK g \in Fds, f \in Event : n = ctx[g][f] /\ n # 0
      BY DEF Waiting
    <3>2. n = ctx'[g][f]
      BY <1>0, <3>1 DEF PutsIn
    <3>3. QED
      BY <3>1, <3>2 DEF Waiting
  <2>3. adds + 1 \in Waiting'
    <3>1. ctx'[fd][e] = adds + 1 /\ adds + 1 # 0
      BY <1>0 DEF PutsIn
    <3>2. QED
      BY <3>1 DEF Waiting
  <2>4. QED
    BY <2>1, <2>2, <2>3
<1>2. 1..(adds + 1) = (1..adds) \cup {adds + 1} /\ adds + 1 \notin 1..adds
  BY <1>0
<1> HIDE DEF Waiting
<1>3. QED
  BY <1>0, <1>1, <1>2 DEF RegistrationOnce

-----------------------------------------------------------------------------
(* An edge is not lost.                                                    *)

(* A descriptor some poller has in hand for event e, or for a hang-up.     *)
InHand(fd, e) ==
  \E p \in Pollers : \E b \in batch[p] : b[1] = fd /\ b[2] \cap {e, HUP} # {}

(* epoll_ctl on fd reports every event of fd that is ready; the other      *)
(* descriptors are not touched.                                            *)
LEMMA CtlCovers ==
  ASSUME TypeOK, NoLostEdge, ~aborted, NEW fd \in Fds, NEW mask,
         EpollCtl(fd, mask), events'[fd] = mask, io' = io,
         \A g \in Fds : g # fd => events'[g] = events[g],
         \A g \in Fds, e \in Event : g # fd /\ InHand(g, e) => InHand(g, e)'
  PROVE  NoLostEdge'
<1> SUFFICES ASSUME NEW g \in Fds, NEW e \in events'[g] \cap io'[g]
             PROVE  g \in readyList' \/ InHand(g, e)'
  BY DEF NoLostEdge, InHand
<1>1. CASE g = fd
  BY <1>1 DEF EpollCtl, Reported
<1>2. CASE g # fd
  <2>1. e \in events[g] \cap io[g] /\ e \in Event
    BY <1>2 DEF TypeOK
  <2>2. g \in readyList \/ InHand(g, e)
    BY <2>1 DEF NoLostEdge, InHand
  <2>3. g \in readyList => g \in readyList'
    BY <1>2 DEF EpollCtl
  <2>4. QED
    BY <1>2, <2>1, <2>2, <2>3
<1>3. QED
  BY <1>1, <1>2

(* No step loses the edge of a registered event that is ready.             *)
LEMMA EdgeStep ==
  ASSUME TypeOK, TypeOK', TableOK, NoLostEdge, [Next]_vars
  PROVE  NoLostEdge'
<1> USE DEF tableVars, epollVars, envVars, boundVars, histVars
<1>1. CASE UNCHANGED <<events, io, readyList, batch, aborted>>
  BY <1>1 DEF NoLostEdge
<1>2. ASSUME NEW fd \in Fds, NEW E \in SUBSET Event, TakesOut(fd, E), ~aborted,
             \A g \in Fds, e \in Event : g # fd /\ InHand(g, e) => InHand(g, e)'
      PROVE  NoLostEdge'
  <2>1. EpollCtl(fd, events[fd] \ E) /\ events'[fd] = events[fd] \ E /\ io' = io
    BY <1>2 DEF TakesOut
  <2>2. \A g \in Fds : g # fd => events'[g] = events[g]
    BY <1>2 DEF TakesOut
  <2>3. QED
    BY <1>2, <2>1, <2>2, CtlCovers
<1>3. ASSUME NEW fd \in Fds, NEW e \in Event, PutsIn(fd, e), ~aborted,
             UNCHANGED batch
      PROVE  NoLostEdge'
  <2>1. /\ EpollCtl(fd, events[fd] \cup {e}) /\ events'[fd] = events[fd] \cup {e}
        /\ io' = io
    BY <1>3 DEF PutsIn
  <2>2. \A g \in Fds : g # fd => events'[g] = events[g]
    BY <1>3 DEF PutsIn
  <2>3. \A g \in Fds, f \in Event : g # fd /\ InHand(g, f) => InHand(g, f)'
    BY <1>3 DEF InHand
  <2>4. QED
    BY <1>3, <2>1, <2>2, <2>3, CtlCovers
<1>4. ASSUME ~aborted, NEW c \in Clients, ClientStep(c) PROVE NoLostEdge'
  <2>0. UNCHANGED batch =>
          \A fd, g \in Fds, e \in Event : g # fd /\ InHand(g, e) => InHand(g, e)'
    BY DEF InHand
  <2>1. ASSUME NEW fd \in Fds, NEW e \in Event, AddEvent(c, fd, e) PROVE NoLostEdge'
    BY <1>3, <1>4, <2>1, AddPutsIn DEF AddEvent
  <2>2. ASSUME NEW fd \in Fds, NEW e \in Event, DelEvent(c, fd, e) PROVE NoLostEdge'
    BY <1>2, <1>4, <2>0, <2>2, DelTakesOut DEF DelEvent
  <2>3. ASSUME NEW fd \in Fds, NEW e \in Event, CancelEvent(c, fd, e)
        PROVE  NoLostEdge'
    BY <1>2, <1>4, <2>0, <2>3, CancelTakesOut DEF CancelEvent
  <2>4. ASSUME NEW fd \in Fds, CancelAll(c, fd) PROVE NoLostEdge'
    <3>1. events[fd] \in SUBSET Event
      BY DEF TypeOK
    <3>2. QED
      BY <1>2, <1>4, <2>0, <2>4, <3>1, CancelAllTakesOut DEF CancelAll
  <2>5. ASSUME NEW fd \in Fds, AddEventGrow(c, fd) PROVE NoLostEdge'
    BY <1>1, <2>5 DEF AddEventGrow
  <2>6. QED
    BY <1>4, <2>1, <2>2, <2>3, <2>4, <2>5 DEF ClientStep
<1>5. ASSUME ~aborted, NEW p \in Pollers, EpollWait(p) PROVE NoLostEdge'
  <2>1. PICK S \in SUBSET readyList :
          /\ readyList' = readyList \ S
          /\ batch' = [batch EXCEPT ![p] =
               {b \in {<<fd, Reported(fd, interest[fd], io[fd])>> : fd \in S} :
                  b[2] # {}}]
    BY <1>5 DEF EpollWait
  <2>2. batch[p] = {} /\ UNCHANGED <<events, io>>
    BY <1>5 DEF EpollWait
  <2> SUFFICES ASSUME NEW g \in Fds, NEW e \in events[g] \cap io[g]
               PROVE  g \in readyList' \/ InHand(g, e)'
    BY <2>2 DEF NoLostEdge, InHand
  <2>3. e \in Event
    BY DEF TypeOK
  <2>4. CASE g \in S
    <3> DEFINE new == <<g, Reported(g, interest[g], io[g])>>
    <3>1. new[1] = g /\ e \in new[2]
      BY DEF TableOK, Reported
    <3>2. new \in batch'[p]
      BY <2>1, <2>4, <3>1 DEF TypeOK
    <3> HIDE DEF new
    <3>3. QED
      BY <3>1, <3>2 DEF InHand
  <2>5. CASE g \in readyList \ S
    BY <2>1, <2>5
  <2>6. CASE g \notin readyList
    <3>1. InHand(g, e)
      BY <1>5, <2>6 DEF NoLostEdge, InHand
    <3>2. \A q \in Pollers : batch[q] \subseteq batch'[q]
      BY <2>1, <2>2 DEF TypeOK
    <3>3. QED
      BY <3>1, <3>2 DEF InHand
  <2>7. QED
    BY <2>4, <2>5, <2>6
<1>6. ASSUME ~aborted, NEW p \in Pollers, NEW b \in batch[p], IdleEvent(p, b)
      PROVE  NoLostEdge'
  <2> DEFINE fd == b[1]
             real == RealEvents(b[1], b[2])
  <2>1. fd \in Fds /\ real \in SUBSET Event
    BY BatchFacts
  <2>2. \A q \in Pollers : \A d \in batch[q] : d \in batch'[q] \/ (q = p /\ d = b)
    BY <1>6 DEF TypeOK, IdleEvent
  <2>3. \A g \in Fds, e \in Event : g # fd /\ InHand(g, e) => InHand(g, e)'
    BY <2>2 DEF InHand
  <2>4. CASE IdleSkip(fd, real)
    <3>1. UNCHANGED <<events, io, readyList, aborted>>
      BY <1>6, <2>4 DEF IdleEvent
    <3> SUFFICES ASSUME NEW g \in Fds, NEW e \in events[g] \cap io[g]
                 PROVE  g \in readyList \/ InHand(g, e)'
      BY <3>1 DEF NoLostEdge, InHand
    <3>2. e \in Event
      BY DEF TypeOK
    <3>3. g = fd => b[2] \cap {e, HUP} = {}
      BY <2>4, <3>2 DEF IdleSkip, RealEvents
    <3>4. g \in readyList \/ InHand(g, e)
      BY <1>6 DEF NoLostEdge, InHand
    <3>5. InHand(g, e) => InHand(g, e)'
      BY <2>2, <3>3 DEF InHand
    <3>6. QED
      BY <3>4, <3>5
  <2>5. CASE ~IdleSkip(fd, real)
    BY <1>2, <1>6, <2>1, <2>3, <2>5, IdleTakesOut
  <2>6. QED
    BY <2>4, <2>5
<1>7. ASSUME ~aborted, NEW fd \in Fds, NEW e \in Event \cup {HUP},
             Arrive(fd, e) \/ Drain(fd, e)
      PROVE  NoLostEdge'
  <2> SUFFICES ASSUME NEW g \in Fds, NEW f \in events'[g] \cap io'[g]
               PROVE  g \in readyList' \/ InHand(g, f)'
    BY DEF NoLostEdge, InHand
  <2>1. UNCHANGED <<events, batch>> /\ readyList \subseteq readyList'
    BY <1>7 DEF Arrive, Drain
  <2>2. InHand(g, f) => InHand(g, f)'
    BY <2>1 DEF InHand
  <2>3. CASE f \in io[g]
    <3>1. g \in readyList \/ InHand(g, f)
      BY <1>7, <2>1, <2>3 DEF NoLostEdge, InHand
    <3>2. QED
      BY <2>1, <2>2, <3>1
  <2>4. CASE f \notin io[g]
    <3>1. Arrive(fd, e) /\ g = fd /\ f = e
      BY <1>7, <2>4 DEF TypeOK, Arrive, Drain
    <3>2. interest[fd] # {} /\ e \in interest[fd]
      BY <2>1, <3>1 DEF TableOK
    <3>3. QED
      BY <3>1, <3>2 DEF Arrive
  <2>5. QED
    BY <2>3, <2>4
<1>8. QED
  BY <1>1, <1>4, <1>5, <1>6, <1>7 DEF Next, Step, PollerStep, vars

-----------------------------------------------------------------------------
(* The invariant for any use of the descriptors.                           *)
LEMMA InitInv == Init => IInv
<1> SUFFICES ASSUME Init PROVE IInv
  OBVIOUS
<1> USE IOEventsAssumption
<1>1. TypeOK
  <2>1. [e \in Event |-> 0] \in [Event -> 0..MaxAdds] /\ 0 \in 0..(CountMod - 1)
    OBVIOUS
  <2>2. ctx \in [Fds -> [Event -> 0..MaxAdds]]
    BY <2>1 DEF Init
  <2>3. /\ events \in [Fds -> SUBSET Event] /\ interest \in [Fds -> SUBSET Event]
        /\ io \in [Fds -> SUBSET (Event \cup {HUP})]
        /\ batch \in [Pollers -> SUBSET (Fds \X SUBSET (Event \cup {HUP}))]
    BY DEF Init
  <2>4. /\ m_pendingEventCount \in 0..(CountMod - 1)
        /\ adds \in 0..MaxAdds /\ removes \in 0..MaxRemoves
        /\ arrivals \in 0..MaxArrivals
    BY <2>1 DEF Init
  <2>5. QED
    BY <2>2, <2>3, <2>4 DEF Init, TypeOK
<1>2. TableOK
  BY DEF Init, TableOK, Filled, Distinct
<1>3. RegistrationOnce
  <2>1. Waiting = {}
    BY DEF Init, Waiting
  <2>2. QED
    BY <2>1 DEF Init, RegistrationOnce
<1>4. NoLostEdge
  BY DEF Init, NoLostEdge
<1>5. QED
  BY <1>1, <1>2, <1>3, <1>4 DEF IInv

(* Every step keeps table and interest list in agreement, and each         *)
(* registration in one place.                                              *)
LEMMA TableStep ==
  ASSUME TypeOK, TypeOK', TableOK, RegistrationOnce, [Next]_vars
  PROVE  TableOK' /\ RegistrationOnce'
<1> USE DEF tableVars, epollVars, envVars, boundVars, histVars
<1>1. CASE UNCHANGED <<interest, events, ctx, adds, scheduled, deleted>>
  <2>1. Waiting' = Waiting
    BY <1>1 DEF Waiting
  <2>2. QED
    BY <1>1, <2>1 DEF TableOK, Filled, Distinct, RegistrationOnce
<1>2. ASSUME NEW fd \in Fds, NEW e \in Event, NEW c \in Clients, AddEvent(c, fd, e)
      PROVE  TableOK' /\ RegistrationOnce'
  <2>1. PutsIn(fd, e) /\ UNCHANGED <<scheduled, deleted>>
    BY <1>2, AddPutsIn DEF AddEvent
  <2>2. QED
    BY <2>1, PutsInTable, PutsInOnce
<1>3. ASSUME NEW fd \in Fds, NEW e \in Event, NEW c \in Clients, DelEvent(c, fd, e)
      PROVE  TableOK' /\ RegistrationOnce'
  <2>1. /\ TakesOut(fd, {e}) /\ scheduled' = scheduled
        /\ deleted' = deleted \cup ({ctx[fd][f] : f \in {e}} \ {0})
    BY <1>3, DelTakesOut DEF DelEvent
  <2>2. QED
    BY <2>1, TakesOutTable, TakesOutOnce
<1>4. ASSUME NEW fd \in Fds, NEW E \in SUBSET Event, TakesOut(fd, E),
             TriggerEvents(fd, E), UNCHANGED deleted
      PROVE  TableOK' /\ RegistrationOnce'
  <2>1. scheduled' = scheduled \cup ({ctx[fd][f] : f \in E} \ {0})
    BY <1>4 DEF TriggerEvents
  <2>2. QED
    BY <1>4, <2>1, TakesOutTable, TakesOutOnce
<1>5. ASSUME NEW fd \in Fds, NEW e \in Event, NEW c \in Clients, CancelEvent(c, fd, e)
      PROVE  TableOK' /\ RegistrationOnce'
  BY <1>4, <1>5, CancelTakesOut DEF CancelEvent
<1>6. ASSUME NEW fd \in Fds, NEW c \in Clients, CancelAll(c, fd)
      PROVE  TableOK' /\ RegistrationOnce'
  <2>1. events[fd] \in SUBSET Event
    BY DEF TypeOK
  <2>2. QED
    BY <1>4, <1>6, <2>1, CancelAllTakesOut DEF CancelAll
<1>7. ASSUME NEW p \in Pollers, NEW b \in batch[p], IdleEvent(p, b)
      PROVE  TableOK' /\ RegistrationOnce'
  <2>1. CASE IdleSkip(b[1], RealEvents(b[1], b[2]))
    BY <1>1, <1>7, <2>1 DEF IdleEvent
  <2>2. CASE ~IdleSkip(b[1], RealEvents(b[1], b[2]))
    <3>1. TriggerEvents(b[1], RealEvents(b[1], b[2])) /\ UNCHANGED deleted
      BY <1>7, <2>2 DEF IdleEvent
    <3>2. TakesOut(b[1], RealEvents(b[1], b[2]))
      BY <1>7, <2>2, IdleTakesOut
    <3>3. b[1] \in Fds /\ RealEvents(b[1], b[2]) \in SUBSET Event
      BY BatchFacts
    <3>4. QED
      BY <1>4, <3>1, <3>2, <3>3
  <2>3. QED
    BY <2>1, <2>2
<1>8. QED
  BY <1>1, <1>2, <1>3, <1>5, <1>6, <1>7 DEF Next, Step, ClientStep, PollerStep,
     AddEventGrow, EpollWait, Arrive, Drain, vars

(* The inductive invariant holds in every reachable state.                 *)
THEOREM Invariance == Spec => []IInv
<1>1. IInv /\ [Next]_vars => IInv'
  <2> SUFFICES ASSUME IInv, [Next]_vars PROVE IInv'
    OBVIOUS
  <2>1. TypeOK /\ TableOK /\ RegistrationOnce /\ NoLostEdge
    BY DEF IInv
  <2>2. TypeOK'
    BY <2>1, TypeStep
  <2>3. QED
    BY <2>1, <2>2, TableStep, EdgeStep DEF IInv
<1>2. QED
  BY <1>1, InitInv, PTL DEF Spec

(* The types, and with them that the counter stays within its width.       *)
THEOREM TypeCorrect == Spec => []TypeOK
<1>1. IInv => TypeOK
  BY DEF IInv
<1>2. QED
  BY <1>1, Invariance, PTL

(* Each registration of addEvent() waits, has been scheduled once or has   *)
(* been deleted, also when both events of a descriptor are in use.         *)
THEOREM RegistrationsOnce == Spec => []RegistrationOnce
<1>1. IInv => RegistrationOnce
  BY DEF IInv
<1>2. QED
  BY <1>1, Invariance, PTL

(* The edge-triggered registration in addEvent(), delEvent(), cancelEvent()*)
(* and idle() never leaves a ready event without a report to come.         *)
THEOREM EdgesKept == Spec => []NoLostEdge
<1>1. IInv => NoLostEdge
  BY DEF IInv
<1>2. QED
  BY <1>1, Invariance, PTL

-----------------------------------------------------------------------------
(* The counter.                                                            *)

(* The registered events can be counted, there are no more than calls of   *)
(* addEvent(), and m_pendingEventCount is their number.                    *)
Counted ==
  IsFiniteSet(Registered) /\ Cardinality(Registered) <= adds /\ PendingExact

(* A set of events that are taken out together.                            *)
LEMMA EventSets ==
  ASSUME NEW E \in SUBSET Event, E # {}
  PROVE  \/ \E e \in Event : E = {e} /\ Cardinality(E) = 1
         \/ E = {READ, WRITE} /\ Cardinality(E) = 2
<1>1. ASSUME NEW e \in Event PROVE Cardinality({e}) = 1
  BY FS_Singleton
<1>2. Cardinality({READ, WRITE}) = 2
  <2>1. IsFiniteSet({READ}) /\ Cardinality({READ}) = 1 /\ WRITE \notin {READ}
    BY FS_Singleton DEF READ, WRITE
  <2>2. {READ, WRITE} = {READ} \cup {WRITE}
    OBVIOUS
  <2>3. Cardinality({READ} \cup {WRITE}) = Cardinality({READ}) + 1
    BY <2>1, FS_AddElement
  <2>4. QED
    BY <2>1, <2>2, <2>3
<1>3. E = {READ} \/ E = {WRITE} \/ E = {READ, WRITE}
  BY DEF Event
<1>4. QED
  BY <1>1, <1>2, <1>3 DEF Event

(* What is taken out of the table is no longer registered.                 *)
LEMMA RegisteredOut ==
  ASSUME NEW fd \in Fds, NEW E \in SUBSET Event, TakesOut(fd, E)
  PROVE  \A u \in Fds \X Event :
           u \in Registered' <=> u \in Registered /\ ~(u[1] = fd /\ u[2] \in E)
<1>1. ASSUME NEW g \in Fds, NEW f \in Event
      PROVE  f \in events'[g] <=> f \in events[g] /\ ~(g = fd /\ f \in E)
  BY DEF TakesOut
<1>2. ASSUME NEW u \in Fds \X Event
      PROVE  u \in Registered' <=> u \in Registered /\ ~(u[1] = fd /\ u[2] \in E)
  BY <1>1 DEF Registered
<1>3. QED
  BY <1>2

(* One or both events of a descriptor are taken out: the counter goes down *)
(* by their number, without a wrap, and so does the number of registered   *)
(* events.                                                                 *)
LEMMA CountOut ==
  ASSUME TypeOK, MaxAdds < CountMod, Counted, NEW fd \in Fds,
         NEW E \in SUBSET Event, E # {}, E \subseteq events[fd], TakesOut(fd, E),
         m_pendingEventCount' = Minus(Cardinality(E))
  PROVE  Registered' \subseteq Registered /\ Counted'
<1> USE IOEventsAssumption
<1>1. Registered \subseteq Fds \X Event /\ Registered' \subseteq Fds \X Event
  BY DEF Registered
<1>2. \A f \in E : <<fd, f>> \in Registered
  BY DEF Registered
<1>3. /\ IsFiniteSet(Registered) /\ Cardinality(Registered) <= adds
      /\ m_pendingEventCount = Cardinality(Registered)
  BY DEF Counted, PendingExact
<1>4. Cardinality(Registered) \in Nat /\ adds \in 0..MaxAdds /\ adds' = adds
  BY <1>3, FS_CardinalityType DEF TypeOK, TakesOut
<1>5. \A u \in Fds \X Event :
        u \in Registered' <=> u \in Registered /\ ~(u[1] = fd /\ u[2] \in E)
  BY RegisteredOut
<1> HIDE DEF Registered
<1>6. ASSUME NEW n \in {1, 2}, n = Cardinality(E), n <= Cardinality(Registered),
             IsFiniteSet(Registered'), Cardinality(Registered') = Cardinality(Registered) - n
      PROVE  Counted'
  <2>1. m_pendingEventCount \in n..(CountMod - 1)
    BY <1>3, <1>4, <1>6
  <2>2. m_pendingEventCount' = m_pendingEventCount - n
    BY <1>6, <2>1, ModMinus, ModMinusTwo DEF Minus
  <2>3. QED
    BY <1>3, <1>4, <1>6, <2>2 DEF Counted, PendingExact
<1>7. ASSUME NEW e \in Event, E = {e}, Cardinality(E) = 1 PROVE Counted'
  <2>1. Registered' = Registered \ {<<fd, e>>}
    <3>1. \A u \in Fds \X Event : u = <<fd, e>> <=> u[1] = fd /\ u[2] \in E
      BY <1>7
    <3>2. QED
      BY <1>1, <1>5, <3>1
  <2>2. <<fd, e>> \in Registered
    BY <1>2, <1>7
  <2>3. /\ IsFiniteSet(Registered')
        /\ Cardinality(Registered') = Cardinality(Registered) - 1
    BY <1>3, <2>1, <2>2, FS_RemoveElement
  <2>4. Cardinality(Registered) # 0
    BY <1>3, <2>2, FS_EmptySet
  <2>5. QED
    BY <1>4, <1>6, <1>7, <2>3, <2>4
<1>8. ASSUME E = {READ, WRITE}, Cardinality(E) = 2 PROVE Counted'
  <2> DEFINE M == Registered \ {<<fd, READ>>}
  <2>0. READ \in Event /\ WRITE \in Event /\ READ # WRITE
    BY DEF Event, READ, WRITE
  <2>1. Registered' = M \ {<<fd, WRITE>>}
    <3>1. \A u \in Fds \X Event : u \in {<<fd, READ>>, <<fd, WRITE>>}
                                    <=> u[1] = fd /\ u[2] \in E
      BY <1>8, <2>0
    <3>2. QED
      BY <1>1, <1>5, <3>1
  <2>2. <<fd, READ>> \in Registered /\ <<fd, WRITE>> \in M
    BY <1>2, <1>8, <2>0
  <2>3. IsFiniteSet(M) /\ Cardinality(M) = Cardinality(Registered) - 1
    BY <1>3, <2>2, FS_RemoveElement
  <2>4. Cardinality(M) \in Nat /\ Cardinality(M) # 0
    BY <2>2, <2>3, FS_EmptySet, FS_CardinalityType
  <2> HIDE DEF M
  <2>5. IsFiniteSet(Registered') /\ Cardinality(Registered') = Cardinality(M) - 1
    BY <2>1, <2>2, <2>3, FS_RemoveElement
  <2>6. QED
    BY <1>4, <1>6, <1>8, <2>3, <2>4, <2>5
<1>9. Registered' \subseteq Registered
  BY <1>1, <1>5
<1>10. QED
  BY <1>7, <1>8, <1>9, EventSets

(* An event is put in: the counter goes up without a wrap.                 *)
LEMMA CountIn ==
  ASSUME TypeOK, TypeOK', MaxAdds < CountMod, Counted,
         NEW fd \in Fds, NEW e \in Event, PutsIn(fd, e),
         m_pendingEventCount' = (m_pendingEventCount + 1) % CountMod
  PROVE  Registered' = Registered \cup {<<fd, e>>} /\ Counted'
<1> USE IOEventsAssumption
<1>1. Registered' = Registered \cup {<<fd, e>>}
  <2>1. ASSUME NEW g \in Fds, NEW f \in Event
        PROVE  f \in events'[g] <=> f \in events[g] \/ (g = fd /\ f = e)
    <3>1. events'[g] = IF g = fd THEN events[g] \cup {e} ELSE events[g]
      BY DEF PutsIn
    <3>2. QED
      BY <3>1
  <2>2. ASSUME NEW u \in Fds \X Event
        PROVE  u[2] \in events'[u[1]] <=> u[2] \in events[u[1]] \/ u = <<fd, e>>
    <3>1. u[1] \in Fds /\ u[2] \in Event /\ u = <<u[1], u[2]>>
      OBVIOUS
    <3>2. u = <<fd, e>> <=> u[1] = fd /\ u[2] = e
      BY <3>1
    <3>3. QED
      BY <2>1, <3>1, <3>2
  <2>3. Registered' = {u \in Fds \X Event : u[2] \in events'[u[1]]}
    BY DEF Registered
  <2>4. <<fd, e>> \in Fds \X Event
    OBVIOUS
  <2>5. QED
    BY <2>2, <2>3, <2>4 DEF Registered
<1>2. <<fd, e>> \notin Registered
  BY DEF Registered, PutsIn
<1>3. /\ IsFiniteSet(Registered) /\ Cardinality(Registered) <= adds
      /\ m_pendingEventCount = Cardinality(Registered)
  BY DEF Counted, PendingExact
<1>4. /\ Cardinality(Registered) \in Nat /\ adds \in Nat /\ adds' = adds + 1
      /\ adds' \in 0..MaxAdds
  BY <1>3, FS_CardinalityType DEF TypeOK, PutsIn
<1> HIDE DEF Registered
<1>5. /\ IsFiniteSet(Registered')
      /\ Cardinality(Registered') = Cardinality(Registered) + 1
  BY <1>1, <1>2, <1>3, FS_AddElement
<1>6. m_pendingEventCount' = m_pendingEventCount + 1
  <2>1. m_pendingEventCount \in Nat /\ m_pendingEventCount + 1 < CountMod
    BY <1>3, <1>4
  <2>2. QED
    BY <2>1, ModPlus
<1>7. QED
  BY <1>1, <1>3, <1>4, <1>5, <1>6 DEF Counted, PendingExact

-----------------------------------------------------------------------------
(* One event per descriptor.                                               *)

(* The only event a descriptor can have.                                   *)
LEMMA SingleEvent ==
  ASSUME TypeOK, SingleUse, SingleInv, NEW fd \in Fds, NEW e \in Event,
         <<fd, e>> \in Uses
  PROVE  /\ events[fd] \subseteq {e}
         /\ \A p \in Pollers : \A b \in batch[p] : b[1] = fd => b[2] \subseteq {e, HUP}
<1>1. ASSUME NEW f, <<fd, f>> \in Uses PROVE f = e
  <2>1. <<fd, f>> = <<fd, e>>
    BY <1>1 DEF SingleUse
  <2>2. QED
    BY <2>1
<1>2. ASSUME NEW f \in events[fd] PROVE f = e
  <2>1. f \in Event
    BY DEF TypeOK
  <2>2. <<fd, f>> \in Uses
    BY <2>1 DEF SingleInv, Registered
  <2>3. QED
    BY <1>1, <2>2
<1>3. ASSUME NEW p \in Pollers, NEW b \in batch[p], b[1] = fd, NEW f \in b[2], f # HUP
      PROVE  f = e
  BY <1>1, <1>3 DEF SingleInv
<1>4. QED
  BY <1>2, <1>3

(* A descriptor used for one event: every step keeps the counter exact and *)
(* the asserts true.                                                       *)
LEMMA SingleStep ==
  ASSUME SingleUse, TypeOK, TypeOK', TableOK, SingleInv, [Next]_vars
  PROVE  SingleInv'
<1> USE DEF tableVars, epollVars, envVars, boundVars, histVars
<1> DEFINE Asked == \A p \in Pollers : \A b \in batch[p] : \A e \in b[2] \ {HUP} :
                      <<b[1], e>> \in Uses
<1>0. /\ Registered \subseteq Uses /\ Asked /\ ~aborted
      /\ \A fd \in Fds : \A e \in events[fd] : e \in Event /\ <<fd, e>> \in Uses
  BY DEF SingleInv, NoAssertFails, Registered, TypeOK
<1>1. CASE UNCHANGED <<events, m_pendingEventCount, adds, aborted>> /\ Asked'
  <2>1. Registered' = Registered
    BY <1>1 DEF Registered
  <2>2. QED
    BY <1>1, <2>1 DEF SingleInv, PendingExact, NoAssertFails
<1>2. ASSUME NEW fd \in Fds, NEW e \in Event, events[fd] = {e}, TakesOut(fd, {e}),
             m_pendingEventCount' = Minus(1), ~aborted', Asked'
      PROVE  SingleInv'
  <2>1. Cardinality({e}) = 1 /\ {e} \in SUBSET Event
    BY FS_Singleton
  <2>2. Registered' \subseteq Registered /\ Counted'
    BY <1>2, <2>1, CountOut DEF SingleUse, SingleInv, Counted
  <2>3. QED
    BY <1>0, <1>2, <2>2 DEF SingleInv, Counted, NoAssertFails
<1>3. UNCHANGED batch => Asked'
  BY <1>0
<1>4. ASSUME NEW c \in Clients, NEW fd \in Fds, NEW e \in Event, AddEvent(c, fd, e)
      PROVE  SingleInv'
  <2>1. PutsIn(fd, e) /\ <<fd, e>> \in Uses /\ Asked'
    BY <1>3, <1>4, AddPutsIn DEF AddEvent
  <2>2. ~aborted'
    BY <1>4 DEF AddEvent, TableOK, Filled
  <2>3. m_pendingEventCount' = (m_pendingEventCount + 1) % CountMod
    BY <1>4 DEF AddEvent
  <2>4. Registered' = Registered \cup {<<fd, e>>} /\ Counted'
    BY <2>1, <2>3, CountIn DEF SingleUse, SingleInv, Counted
  <2>5. QED
    BY <1>0, <2>1, <2>2, <2>4 DEF SingleInv, Counted, NoAssertFails
<1>5. ASSUME NEW c \in Clients, NEW fd \in Fds, NEW e \in Event, Removable(c, fd, e)
      PROVE  events[fd] = {e}
  <2>1. events[fd] # {} /\ <<fd, e>> \in Uses
    BY <1>5 DEF Removable, TableOK
  <2>2. events[fd] \subseteq {e}
    BY <2>1, SingleEvent
  <2>3. QED
    BY <2>1, <2>2
<1>6. ASSUME NEW c \in Clients, NEW fd \in Fds, NEW e \in Event, DelEvent(c, fd, e)
      PROVE  SingleInv'
  <2>1. events[fd] = {e} /\ TakesOut(fd, {e}) /\ Asked'
    BY <1>3, <1>5, <1>6, DelTakesOut DEF DelEvent
  <2>2. m_pendingEventCount' = Minus(1) /\ ~aborted'
    BY <1>0, <1>6 DEF DelEvent
  <2>3. QED
    BY <1>2, <2>1, <2>2
<1>7. ASSUME NEW c \in Clients, NEW fd \in Fds, NEW e \in Event, CancelEvent(c, fd, e)
      PROVE  SingleInv'
  <2>1. events[fd] = {e} /\ TakesOut(fd, {e}) /\ Asked'
    BY <1>3, <1>5, <1>7, CancelTakesOut DEF CancelEvent
  <2>2. m_pendingEventCount' = Minus(1) /\ ~aborted'
    BY <1>7, <2>1 DEF CancelEvent, TriggerEvents
  <2>3. QED
    BY <1>2, <2>1, <2>2
<1>8. ASSUME NEW c \in Clients, NEW fd \in Fds, CancelAll(c, fd) PROVE SingleInv'
  <2>1. PICK e \in events[fd] : TRUE
    BY <1>8 DEF CancelAll
  <2>2. e \in Event /\ events[fd] = {e}
    <3>1. e \in Event /\ <<fd, e>> \in Uses
      BY <1>0
    <3>2. events[fd] \subseteq {e}
      BY <3>1, SingleEvent
    <3>3. QED
      BY <3>1, <3>2
  <2>3. TakesOut(fd, {e}) /\ Asked' /\ ~aborted'
    BY <1>3, <1>8, <2>2, CancelAllTakesOut DEF CancelAll, TriggerEvents
  <2>4. Cardinality({e}) = 1
    BY FS_Singleton
  <2>5. m_pendingEventCount' = Minus(1)
    BY <1>8, <2>2, <2>4 DEF CancelAll
  <2>6. QED
    BY <1>2, <2>2, <2>3, <2>5
<1>9. ASSUME NEW p \in Pollers, EpollWait(p) PROVE SingleInv'
  <2>1. PICK S \in SUBSET readyList :
          batch' = [batch EXCEPT ![p] =
               {b \in {<<fd, Reported(fd, interest[fd], io[fd])>> : fd \in S} :
                  b[2] # {}}]
    BY <1>9 DEF EpollWait
  <2>2. ASSUME NEW q \in Pollers, NEW b \in batch'[q], NEW e \in b[2] \ {HUP}
        PROVE  <<b[1], e>> \in Uses
    <3>1. CASE q = p
      <4>1. PICK fd \in S : b = <<fd, Reported(fd, interest[fd], io[fd])>>
        BY <2>1, <3>1 DEF TypeOK
      <4>2. fd \in Fds /\ b[1] = fd /\ e \in events[fd]
        BY <4>1 DEF TypeOK, TableOK, Reported
      <4>3. QED
        BY <1>0, <4>2
    <3>2. CASE q # p
      BY <1>0, <2>1, <3>2 DEF TypeOK
    <3>3. QED
      BY <3>1, <3>2
  <2>3. Asked'
    BY <2>2
  <2>4. QED
    BY <1>1, <1>9, <2>3 DEF EpollWait
<1>10. ASSUME NEW p \in Pollers, NEW b \in batch[p], IdleEvent(p, b) PROVE SingleInv'
  <2> DEFINE fd == b[1]
             real == RealEvents(b[1], b[2])
  <2>1. fd \in Fds /\ real \in SUBSET Event
    BY BatchFacts
  <2>2. \A q \in Pollers : batch'[q] \subseteq batch[q]
    BY <1>10 DEF TypeOK, IdleEvent
  <2>3. Asked'
    BY <1>0, <2>2
  <2>4. CASE IdleSkip(fd, real)
    BY <1>1, <1>10, <2>3, <2>4 DEF IdleEvent
  <2>5. CASE ~IdleSkip(fd, real)
    <3>1. PICK e \in events[fd] : e \in real
      BY <2>5 DEF IdleSkip
    <3>2. e \in Event /\ <<fd, e>> \in Uses
      BY <1>0, <2>1
    <3>3. events[fd] = {e} /\ b[2] \subseteq {e, HUP}
      BY <2>1, <3>2, SingleEvent
    <3>4. real = {e}
      BY <3>1, <3>3, EventFacts DEF RealEvents
    <3>5. TakesOut(fd, {e})
      BY <1>10, <2>5, <3>4, IdleTakesOut
    <3>6. Cardinality({e}) = 1
      BY FS_Singleton
    <3>7. m_pendingEventCount' = Minus(1) /\ ~aborted'
      BY <1>10, <2>5, <3>3, <3>4, <3>6 DEF IdleEvent, TriggerEvents
    <3>8. QED
      BY <1>2, <2>1, <2>3, <3>2, <3>3, <3>5, <3>7
  <2>6. QED
    BY <2>4, <2>5
<1>11. QED
  BY <1>1, <1>3, <1>4, <1>6, <1>7, <1>8, <1>9, <1>10 DEF Next, Step, ClientStep,
     PollerStep, AddEventGrow, Arrive, Drain, vars

(* At first nothing is registered.                                         *)
LEMMA SingleInit == Init => SingleInv
<1> SUFFICES ASSUME Init PROVE SingleInv
  OBVIOUS
<1>1. Registered = {}
  BY DEF Init, Registered
<1>2. QED
  BY <1>1, FS_EmptySet DEF Init, SingleInv, PendingExact, NoAssertFails

(* With one event per descriptor and no wrap of the counter, the invariant *)
(* about the counter and the asserts is inductive.                         *)
THEOREM SingleInvariance == SingleUse => (Spec => []SingleInv)
<1> SUFFICES ASSUME SingleUse PROVE Spec => []SingleInv
  OBVIOUS
<1>1. IInv /\ IInv' /\ SingleInv /\ [Next]_vars => SingleInv'
  BY SingleStep DEF IInv
<1>2. QED
  BY <1>1, SingleInit, Invariance, PTL DEF Spec

(* m_pendingEventCount is then the number of registered events, whatever   *)
(* the order of addEvent(), delEvent(), cancelEvent(), cancelAll() and the *)
(* pollers' decrements.                                                    *)
THEOREM PendingCountExact == SingleUse => (Spec => []PendingExact)
<1> SUFFICES ASSUME SingleUse PROVE Spec => []PendingExact
  OBVIOUS
<1>1. SingleInv => PendingExact
  BY DEF SingleInv
<1>2. QED
  BY <1>1, SingleInvariance, PTL

(* Nor does an assert of addEvent(), triggerEvent() or cancelAll() fail.   *)
THEOREM AssertsHold == SingleUse => (Spec => []NoAssertFails)
<1> SUFFICES ASSUME SingleUse PROVE Spec => []NoAssertFails
  OBVIOUS
<1>1. SingleInv => NoAssertFails
  BY DEF SingleInv
<1>2. QED
  BY <1>1, SingleInvariance, PTL

-----------------------------------------------------------------------------
(* Both events on a descriptor, in an IOManager with one thread.           *)

(* One thread executes idle(), and the counter does not wrap.              *)
OnePoller == (\A p, q \in Pollers : p = q) /\ MaxAdds < CountMod

(* No report about fd is in hand.                                          *)
Quiet(fd) == \A p \in Pollers : \A b \in batch[p] : b[1] # fd

(* Clients remove only events that are registered, which delEvent() and    *)
(* cancelEvent() do not find out themselves, and not between epoll_wait()  *)
(* and the use of its report; a body on the thread of idle() cannot.       *)
Orderly ==
  \A c \in Clients, fd \in Fds :
    /\ CancelAll(c, fd) => Quiet(fd)
    /\ \A e \in Event : DelEvent(c, fd, e) \/ CancelEvent(c, fd, e)
                          => e \in events[fd] /\ Quiet(fd)

(* A report in hand is about events that are still registered, and the     *)
(* only one about its descriptor.                                          *)
ReportsFresh ==
  \A p \in Pollers : \A b, d \in batch[p] :
    b[2] \ {HUP} \subseteq events[b[1]] /\ (b[1] = d[1] => b = d)

OnePollerInv == Counted /\ ReportsFresh /\ NoAssertFails

(* Events of fd are taken out while no report about it is in hand.         *)
LEMMA QuietOut ==
  ASSUME TypeOK, OnePoller, OnePollerInv, NEW fd \in Fds, NEW E \in SUBSET Event,
         E # {}, E \subseteq events[fd], TakesOut(fd, E),
         m_pendingEventCount' = Minus(Cardinality(E)), ~aborted',
         \A p \in Pollers : batch'[p] \subseteq batch[p],
         \A p \in Pollers : \A b \in batch'[p] : b[1] # fd
  PROVE  OnePollerInv'
<1>1. Counted'
  BY CountOut DEF OnePoller, OnePollerInv
<1>2. ASSUME NEW p \in Pollers, NEW b \in batch'[p]
      PROVE  b[2] \ {HUP} \subseteq events'[b[1]]
  <2>1. b \in batch[p] /\ b[1] # fd
    OBVIOUS
  <2>2. b[1] \in Fds
    BY <2>1, BatchFacts
  <2>3. events'[b[1]] = events[b[1]]
    BY <2>1, <2>2 DEF TakesOut
  <2>4. QED
    BY <2>1, <2>3 DEF OnePollerInv, ReportsFresh
<1>3. ReportsFresh'
  BY <1>2 DEF OnePollerInv, ReportsFresh
<1>4. QED
  BY <1>1, <1>3 DEF OnePollerInv, NoAssertFails

(* Every orderly step keeps the counter exact and the asserts true.        *)
LEMMA OnePollerStep ==
  ASSUME OnePoller, TypeOK, TypeOK', TableOK, OnePollerInv, [Next]_vars, [Orderly]_vars
  PROVE  OnePollerInv'
<1> USE DEF tableVars, epollVars, envVars, boundVars, histVars
<1>0. /\ Counted /\ ReportsFresh /\ ~aborted
      /\ events \in [Fds -> SUBSET Event] /\ removes \in Nat
  BY DEF OnePollerInv, NoAssertFails, TypeOK
<1>1. ASSUME UNCHANGED <<events, m_pendingEventCount, adds, aborted>>, ReportsFresh'
      PROVE  OnePollerInv'
  <2>1. Registered' = Registered
    BY <1>1 DEF Registered
  <2>2. QED
    BY <1>1, <2>1 DEF OnePollerInv, Counted, PendingExact, NoAssertFails
<1>2. ASSUME UNCHANGED <<events, m_pendingEventCount, adds, aborted, batch>>
      PROVE  OnePollerInv'
  <2>1. ReportsFresh'
    BY <1>0, <1>2 DEF ReportsFresh
  <2>2. QED
    BY <1>1, <1>2, <2>1
<1>3. ASSUME removes' = removes + 1 PROVE Orderly
  BY <1>0, <1>3 DEF vars
<1>4. ASSUME NEW c \in Clients, NEW fd \in Fds, NEW e \in Event, AddEvent(c, fd, e)
      PROVE  OnePollerInv'
  <2>1. PutsIn(fd, e) /\ UNCHANGED batch
    BY <1>4, AddPutsIn DEF AddEvent
  <2>2. ~aborted'
    BY <1>4 DEF AddEvent, TableOK, Filled
  <2>3. m_pendingEventCount' = (m_pendingEventCount + 1) % CountMod
    BY <1>4 DEF AddEvent
  <2>4. Counted'
    BY <1>0, <2>1, <2>3, CountIn DEF OnePoller
  <2>5. \A p \in Pollers : \A b \in batch[p] : events[b[1]] \subseteq events'[b[1]]
    BY <2>1, BatchFacts DEF PutsIn
  <2>6. ReportsFresh'
    BY <1>0, <2>1, <2>5 DEF ReportsFresh
  <2>7. QED
    BY <2>2, <2>4, <2>6 DEF OnePollerInv, NoAssertFails
<1>5. ASSUME NEW c \in Clients, NEW fd \in Fds, NEW e \in Event,
             DelEvent(c, fd, e) \/ CancelEvent(c, fd, e)
      PROVE  OnePollerInv'
  <2>1. Orderly
    BY <1>3, <1>5 DEF DelEvent, CancelEvent, Removable
  <2>2. e \in events[fd] /\ Quiet(fd)
    BY <1>5, <2>1 DEF Orderly
  <2>3. TakesOut(fd, {e}) /\ m_pendingEventCount' = Minus(1) /\ UNCHANGED batch
    BY <1>5, DelTakesOut, CancelTakesOut DEF DelEvent, CancelEvent
  <2>4. ~aborted'
    BY <1>0, <1>5, <2>2 DEF DelEvent, CancelEvent, TriggerEvents
  <2>5. Cardinality({e}) = 1 /\ {e} \in SUBSET Event
    BY FS_Singleton
  <2>6. QED
    BY <2>2, <2>3, <2>4, <2>5, QuietOut DEF Quiet
<1>6. ASSUME NEW c \in Clients, NEW fd \in Fds, CancelAll(c, fd) PROVE OnePollerInv'
  <2>1. Quiet(fd)
    BY <1>3, <1>6 DEF CancelAll, Orderly
  <2>2. /\ m_pendingEventCount' = Minus(Cardinality(events[fd])) /\ UNCHANGED batch
        /\ events[fd] # {} /\ events[fd] \in SUBSET Event
    BY <1>0, <1>6 DEF CancelAll
  <2>3. ~aborted'
    BY <1>6 DEF CancelAll, TriggerEvents
  <2>4. QED
    BY <1>6, <2>1, <2>2, <2>3, CancelAllTakesOut, QuietOut DEF Quiet
<1>7. ASSUME NEW p \in Pollers, EpollWait(p) PROVE OnePollerInv'
  <2>1. PICK S \in SUBSET readyList :
          batch' = [batch EXCEPT ![p] =
               {b \in {<<fd, Reported(fd, interest[fd], io[fd])>> : fd \in S} :
                  b[2] # {}}]
    BY <1>7 DEF EpollWait
  <2>2. ASSUME NEW q \in Pollers, NEW b \in batch'[q]
        PROVE  b = <<b[1], Reported(b[1], events[b[1]], io[b[1]])>>
    <3>1. q = p
      BY DEF OnePoller
    <3>2. PICK fd \in S : b = <<fd, Reported(fd, interest[fd], io[fd])>>
      BY <2>1, <3>1 DEF TypeOK
    <3>3. QED
      BY <3>2 DEF TableOK
  <2>3. ReportsFresh'
    <3>1. ASSUME NEW q \in Pollers, NEW b \in batch'[q], NEW d \in batch'[q]
          PROVE  b[2] \ {HUP} \subseteq events'[b[1]] /\ (b[1] = d[1] => b = d)
      <4>1. b[2] = Reported(b[1], events[b[1]], io[b[1]]) /\ events' = events
        BY <1>7, <2>2 DEF EpollWait
      <4>2. b[2] \ {HUP} \subseteq events'[b[1]]
        BY <4>1 DEF Reported
      <4>3. QED
        BY <2>2, <4>2
    <3>2. QED
      BY <3>1 DEF ReportsFresh
  <2>4. QED
    BY <1>1, <1>7, <2>3 DEF EpollWait
<1>8. ASSUME NEW p \in Pollers, NEW b \in batch[p], IdleEvent(p, b) PROVE OnePollerInv'
  <2> DEFINE fd == b[1]
             real == RealEvents(b[1], b[2])
  <2>1. fd \in Fds /\ real \in SUBSET Event
    BY BatchFacts
  <2>2. /\ \A q \in Pollers : batch'[q] \subseteq batch[q]
        /\ batch'[p] = batch[p] \ {b}
    BY <1>8 DEF TypeOK, IdleEvent
  <2>3. \A q \in Pollers : \A d \in batch'[q] : d[1] # fd
    BY <1>0, <2>2 DEF ReportsFresh, OnePoller
  <2>4. CASE IdleSkip(fd, real)
    <3>1. UNCHANGED <<events, m_pendingEventCount, adds, aborted>>
      BY <1>8, <2>4 DEF IdleEvent
    <3>2. ReportsFresh'
      BY <1>0, <2>2, <3>1 DEF ReportsFresh
    <3>3. QED
      BY <1>1, <3>1, <3>2
  <2>5. CASE ~IdleSkip(fd, real)
    <3>1. real # {} /\ real \subseteq events[fd]
      <4>1. b[2] \ {HUP} \subseteq events[fd]
        BY <1>0 DEF ReportsFresh
      <4>2. QED
        BY <2>5, <4>1, EventFacts DEF RealEvents, IdleSkip
    <3>2. TakesOut(fd, real)
      BY <1>8, <2>5, IdleTakesOut
    <3>3. m_pendingEventCount' = Minus(Cardinality(real)) /\ ~aborted'
      BY <1>8, <2>5, <3>1 DEF IdleEvent, TriggerEvents
    <3> HIDE DEF fd, real
    <3>4. QED
      BY <2>1, <2>2, <2>3, <3>1, <3>2, <3>3, QuietOut
  <2>6. QED
    BY <2>4, <2>5
<1>9. QED
  BY <1>2, <1>4, <1>5, <1>6, <1>7, <1>8 DEF Next, Step, ClientStep, PollerStep,
     AddEventGrow, Arrive, Drain, vars

(* The invariant of an IOManager with one thread, for descriptors with     *)
(* both events: what epoll_wait() has reported is still registered when    *)
(* idle() comes to it.                                                     *)
LEMMA OnePollerInvariance ==
  OnePoller => (Spec /\ [][Orderly]_vars => []OnePollerInv)
<1> SUFFICES ASSUME OnePoller PROVE Spec /\ [][Orderly]_vars => []OnePollerInv
  OBVIOUS
<1>1. Init => OnePollerInv
  <2> SUFFICES ASSUME Init PROVE OnePollerInv
    OBVIOUS
  <2>1. Counted
    BY SingleInit DEF SingleInv, Counted
  <2>2. QED
    BY <2>1 DEF Init, OnePollerInv, ReportsFresh, NoAssertFails
<1>2. IInv /\ IInv' /\ OnePollerInv /\ [Next]_vars /\ [Orderly]_vars => OnePollerInv'
  BY OnePollerStep DEF IInv
<1>3. QED
  BY <1>1, <1>2, Invariance, PTL DEF Spec

(* In an IOManager with one thread m_pendingEventCount stays exact with    *)
(* both events of a descriptor in use, HUP and late edges included, as     *)
(* long as clients remove only what is registered, and not while idle()    *)
(* has a report about it in hand: the race that IOIdleRace shows takes a   *)
(* second thread in idle().                                                *)
THEOREM OnePollerCountExact ==
  OnePoller => (Spec /\ [][Orderly]_vars => []PendingExact)
<1>1. OnePollerInv => PendingExact
  BY DEF OnePollerInv, Counted
<1>2. QED
  BY <1>1, OnePollerInvariance, PTL

(* Under the same conditions assert(events & event) of triggerEvent() and  *)
(* the asserts of addEvent() and cancelAll() hold.                         *)
THEOREM OnePollerAssertsHold ==
  OnePoller => (Spec /\ [][Orderly]_vars => []NoAssertFails)
<1>1. OnePollerInv => NoAssertFails
  BY DEF OnePollerInv
<1>2. QED
  BY <1>1, OnePollerInvariance, PTL
=============================================================================
