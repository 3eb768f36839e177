---------------------------- MODULE WorkerProofs ----------------------------
(***************************************************************************)
(* Proofs about Worker, for every number of threads, connections and       *)
(* descriptors.  IInv is inductive; each lemma below shows that one of its *)
(* conjuncts survives every step, the theorems draw the conclusions.       *)
(***************************************************************************)
EXTENDS Worker, FiniteSetTheorems, TLAPS

\* What a worker still has to step or to call back is a live connection of
\* its own: the fact behind every action of thread_main on a connection.
LEMMA WorkIsOwn ==
  ASSUME IInv, NEW t \in Threads, NEW c \in Conns
  PROVE  /\ c \in todo[t] => /\ c \in active[t] /\ thread[c] = t
                             /\ life[c] = "live" /\ fd[c] # NoFd
                             /\ IO[c] \notin EvModes
         /\ c \in pendIO[t] => /\ c \in polling[t] /\ thread[c] = t
                               /\ life[c] = "live"
BY DEF IInv, TypeOK, OneHome, InList, NoStaleWork, DescriptorsOwned,
       WatchedIffPolling, Threads, EvModes, NoFd

\* Every step keeps the types: in particular a connection is only moved to the
\* lists of a thread that exists.
LEMMA TypeStep == IInv /\ [Next]_vars => TypeOK'
<1> SUFFICES ASSUME IInv, [Next]_vars PROVE TypeOK'
  OBVIOUS
<1>1. ASSUME NEW c \in Conns, NEW f \in Fds, Accept(c, f)
      PROVE  TypeOK'
  BY <1>1, NThreadsAssumption, FdsAssumption, ConnsAssumption DEF IInv,
     TypeOK, ControlOK, Accept, AcceptFd, SetSockaddr, NextThread, connVars,
     listVars, workerVars,
     bindVars, Threads, EvModes, NoFd
<1>2. ASSUME NEW c \in Conns, AcceptFails(c)
      PROVE  TypeOK'
  BY <1>2, NThreadsAssumption, FdsAssumption, ConnsAssumption DEF IInv,
     TypeOK, ControlOK, AcceptFails, connVars, listVars, workerVars,
     bindVars, Threads, EvModes, NoFd
<1>3. ASSUME NEW c \in Conns, EventArrives(c)
      PROVE  TypeOK'
  BY <1>3, NThreadsAssumption, FdsAssumption, ConnsAssumption DEF IInv,
     TypeOK, ControlOK, EventArrives, connVars, listVars, workerVars,
     bindVars, Threads, EvModes, NoFd
<1>4. CASE AddConnLocked
  BY <1>4, NThreadsAssumption, FdsAssumption, ConnsAssumption DEF IInv,
     TypeOK, ControlOK, AddConnLocked, Del, DelAdd, connVars, listVars,
     workerVars, bindVars, Threads, EvModes, NoFd
<1>5. CASE AddConnUnlock
  BY <1>5, NThreadsAssumption, FdsAssumption, ConnsAssumption DEF IInv,
     TypeOK, ControlOK, AddConnUnlock, connVars, listVars, workerVars,
     bindVars, Threads, EvModes, NoFd
<1>6. CASE AddConnSignal
  BY <1>6, NThreadsAssumption, FdsAssumption, ConnsAssumption DEF IInv,
     TypeOK, ControlOK, AddConnSignal, connVars, listVars, workerVars,
     bindVars, Threads, EvModes, NoFd
<1>7. ASSUME NEW t \in Threads, NEW c \in Conns, StepStays(t, c)
      PROVE  TypeOK'
  BY <1>7, NThreadsAssumption, FdsAssumption, ConnsAssumption DEF IInv,
     TypeOK, ControlOK, StepStays, connVars, listVars, workerVars, bindVars,
     Threads, EvModes, NoFd
<1>8. ASSUME NEW t \in Threads, NEW c \in Conns, NEW mode \in EvModes,
             StepPolls(t, c, mode)
      PROVE  TypeOK'
  BY <1>8, NThreadsAssumption, FdsAssumption, ConnsAssumption DEF IInv,
     TypeOK, ControlOK, OneHome, InList, NoStaleWork, StepPolls,
     MoveToPolling, Del, DelAdd, connVars, listVars, workerVars, bindVars,
     Threads, EvModes, NoFd
<1>9. ASSUME NEW t \in Threads, NEW c \in Conns, StepRecycles(t, c)
      PROVE  TypeOK'
  BY <1>9, NThreadsAssumption, FdsAssumption, ConnsAssumption DEF IInv,
     TypeOK, ControlOK, StepRecycles, RecycleConn, FreeConn, CloseSocket, Del,
     connVars,
     listVars, workerVars, bindVars, Threads, EvModes, NoFd
<1>10. ASSUME NEW t \in Threads, NEW c \in Conns, IoCb(t, c)
      PROVE  TypeOK'
  BY <1>10, NThreadsAssumption, FdsAssumption, ConnsAssumption DEF IInv,
     TypeOK, ControlOK, OneHome, InList, NoStaleWork, IoCb, MoveToActive,
     Del, DelAdd, connVars, listVars, workerVars, bindVars, Threads, EvModes,
     NoFd
<1>11. ASSUME NEW t \in Threads, PassDone(t)
      PROVE  TypeOK'
  BY <1>11, NThreadsAssumption, FdsAssumption, ConnsAssumption DEF IInv,
     TypeOK, ControlOK, PassDone, connVars, listVars, workerVars, bindVars,
     Threads, EvModes, NoFd
<1>12. ASSUME NEW t \in Threads, EvRun(t)
      PROVE  TypeOK'
  BY <1>12, NThreadsAssumption, FdsAssumption, ConnsAssumption DEF IInv,
     TypeOK, ControlOK, EvRun, EvRunReturns, Watched, connVars, listVars,
     workerVars, bindVars, Threads, EvModes, NoFd
<1>13. ASSUME NEW t \in Threads, EvRunDone(t)
      PROVE  TypeOK'
  BY <1>13, NThreadsAssumption, FdsAssumption, ConnsAssumption DEF IInv,
     TypeOK, ControlOK, EvRunDone, connVars, listVars, workerVars, bindVars,
     Threads, EvModes, NoFd
<1>14. ASSUME NEW t \in Threads, NewConnCbLock(t)
      PROVE  TypeOK'
  BY <1>14, NThreadsAssumption, FdsAssumption, ConnsAssumption DEF IInv,
     TypeOK, ControlOK, NewConnCbLock, connVars, listVars, workerVars,
     bindVars, Threads, EvModes, NoFd
<1>15. ASSUME NEW t \in Threads, NewConnCb(t)
      PROVE  TypeOK'
  BY <1>15, NThreadsAssumption, FdsAssumption, ConnsAssumption DEF IInv,
     TypeOK, ControlOK, NewConnCb, NewConnCbDone, connVars, listVars,
     workerVars, bindVars,
     Threads, EvModes, NoFd
<1>16. CASE UNCHANGED vars
  BY <1>16 DEF IInv, TypeOK, ControlOK, vars, connVars, listVars, workerVars,
     bindVars
<1> QED
  BY <1>1, <1>2, <1>3, <1>4, <1>5, <1>6, <1>7, <1>8, <1>9, <1>10, <1>11,
     <1>12, <1>13, <1>14, <1>15, <1>16 DEF Next, AddConn, ThreadMain

\* Every step keeps the mutex and program-counter discipline.
LEMMA ControlStep == IInv /\ [Next]_vars => ControlOK'
<1> SUFFICES ASSUME IInv, [Next]_vars PROVE ControlOK'
  OBVIOUS
<1>1. ASSUME NEW c \in Conns, NEW f \in Fds, Accept(c, f)
      PROVE  ControlOK'
  BY <1>1, NThreadsAssumption, FdsAssumption, ConnsAssumption DEF IInv,
     TypeOK, ControlOK, OneHome, InList, NoStaleWork, Accept, AcceptFd,
     SetSockaddr, NextThread,
     connVars, listVars, workerVars, bindVars, Threads, EvModes, NoFd
<1>2. ASSUME NEW c \in Conns, AcceptFails(c)
      PROVE  ControlOK'
  BY <1>2, NThreadsAssumption, FdsAssumption, ConnsAssumption DEF IInv,
     TypeOK, ControlOK, OneHome, InList, NoStaleWork, AcceptFails, connVars,
     listVars, workerVars, bindVars, Threads, EvModes, NoFd
<1>3. ASSUME NEW c \in Conns, EventArrives(c)
      PROVE  ControlOK'
  BY <1>3, NThreadsAssumption, FdsAssumption, ConnsAssumption DEF IInv,
     TypeOK, ControlOK, OneHome, InList, NoStaleWork, EventArrives, connVars,
     listVars, workerVars, bindVars, Threads, EvModes, NoFd
<1>4. CASE AddConnLocked
  BY <1>4, NThreadsAssumption, FdsAssumption, ConnsAssumption DEF IInv,
     TypeOK, ControlOK, OneHome, InList, NoStaleWork, AddConnLocked, Del,
     DelAdd, connVars, listVars, workerVars, bindVars, Threads, EvModes, NoFd
<1>5. CASE AddConnUnlock
  BY <1>5, NThreadsAssumption, FdsAssumption, ConnsAssumption DEF IInv,
     TypeOK, ControlOK, OneHome, InList, NoStaleWork, AddConnUnlock,
     connVars, listVars, workerVars, bindVars, Threads, EvModes, NoFd
<1>6. CASE AddConnSignal
  BY <1>6, NThreadsAssumption, FdsAssumption, ConnsAssumption DEF IInv,
     TypeOK, ControlOK, OneHome, InList, NoStaleWork, AddConnSignal,
     connVars, listVars, workerVars, bindVars, Threads, EvModes, NoFd
<1>7. ASSUME NEW t \in Threads, NEW c \in Conns, StepStays(t, c)
      PROVE  ControlOK'
  BY <1>7, NThreadsAssumption, FdsAssumption, ConnsAssumption DEF IInv,
     TypeOK, ControlOK, OneHome, InList, NoStaleWork, StepStays, connVars,
     listVars, workerVars, bindVars, Threads, EvModes, NoFd
<1>8. ASSUME NEW t \in Threads, NEW c \in Conns, NEW mode \in EvModes,
             StepPolls(t, c, mode)
      PROVE  ControlOK'
  BY <1>8, NThreadsAssumption, FdsAssumption, ConnsAssumption DEF IInv,
     TypeOK, ControlOK, OneHome, InList, NoStaleWork, StepPolls,
     MoveToPolling, Del, DelAdd, connVars, listVars, workerVars, bindVars,
     Threads, EvModes, NoFd
<1>9. ASSUME NEW t \in Threads, NEW c \in Conns, StepRecycles(t, c)
      PROVE  ControlOK'
  BY <1>9, NThreadsAssumption, FdsAssumption, ConnsAssumption DEF IInv,
     TypeOK, ControlOK, OneHome, InList, NoStaleWork, StepRecycles,
     RecycleConn, FreeConn, CloseSocket, Del, connVars, listVars, workerVars,
     bindVars,
     Threads, EvModes, NoFd
<1>10. ASSUME NEW t \in Threads, NEW c \in Conns, IoCb(t, c)
      PROVE  ControlOK'
  BY <1>10, NThreadsAssumption, FdsAssumption, ConnsAssumption DEF IInv,
     TypeOK, ControlOK, OneHome, InList, NoStaleWork, IoCb, MoveToActive,
     Del, DelAdd, connVars, listVars, workerVars, bindVars, Threads, EvModes,
     NoFd
<1>11. ASSUME NEW t \in Threads, PassDone(t)
      PROVE  ControlOK'
  BY <1>11, NThreadsAssumption, FdsAssumption, ConnsAssumption DEF IInv,
     TypeOK, ControlOK, OneHome, InList, NoStaleWork, PassDone, connVars,
     listVars, workerVars, bindVars, Threads, EvModes, NoFd
<1>12. ASSUME NEW t \in Threads, EvRun(t)
      PROVE  ControlOK'
  BY <1>12, NThreadsAssumption, FdsAssumption, ConnsAssumption DEF IInv,
     TypeOK, ControlOK, OneHome, InList, NoStaleWork, EvRun, EvRunReturns,
     Watched, connVars, listVars, workerVars, bindVars, Threads, EvModes,
     NoFd
<1>13. ASSUME NEW t \in Threads, EvRunDone(t)
      PROVE  ControlOK'
  BY <1>13, NThreadsAssumption, FdsAssumption, ConnsAssumption DEF IInv,
     TypeOK, ControlOK, OneHome, InList, NoStaleWork, EvRunDone, connVars,
     listVars, workerVars, bindVars, Threads, EvModes, NoFd
<1>14. ASSUME NEW t \in Threads, NewConnCbLock(t)
      PROVE  ControlOK'
  BY <1>14, NThreadsAssumption, FdsAssumption, ConnsAssumption DEF IInv,
     TypeOK, ControlOK, OneHome, InList, NoStaleWork, NewConnCbLock,
     connVars, listVars, workerVars, bindVars, Threads, EvModes, NoFd
<1>15. ASSUME NEW t \in Threads, NewConnCb(t)
      PROVE  ControlOK'
  BY <1>15, NThreadsAssumption, FdsAssumption, ConnsAssumption DEF IInv,
     TypeOK, ControlOK, OneHome, InList, NoStaleWork, NewConnCb,
     NewConnCbDone, connVars,
     listVars, workerVars, bindVars, Threads, EvModes, NoFd
<1>16. CASE UNCHANGED vars
  BY <1>16 DEF IInv, TypeOK, ControlOK, OneHome, InList, NoStaleWork, vars,
     connVars, listVars, workerVars, bindVars
<1> QED
  BY <1>1, <1>2, <1>3, <1>4, <1>5, <1>6, <1>7, <1>8, <1>9, <1>10, <1>11,
     <1>12, <1>13, <1>14, <1>15, <1>16 DEF Next, AddConn, ThreadMain

\* Every step keeps each live connection in exactly one list.
LEMMA OneHomeStep == IInv /\ [Next]_vars => OneHome'
<1> SUFFICES ASSUME IInv, [Next]_vars PROVE OneHome'
  OBVIOUS
<1>1. ASSUME NEW c \in Conns, NEW f \in Fds, Accept(c, f)
      PROVE  OneHome'
  BY <1>1, NThreadsAssumption, FdsAssumption, ConnsAssumption DEF IInv,
     TypeOK, ControlOK, OneHome, InList, NoStaleWork, Accept, AcceptFd,
     SetSockaddr, NextThread,
     connVars, listVars, workerVars, bindVars, Threads, EvModes, NoFd
<1>2. ASSUME NEW c \in Conns, AcceptFails(c)
      PROVE  OneHome'
  BY <1>2, NThreadsAssumption, FdsAssumption, ConnsAssumption DEF IInv,
     TypeOK, ControlOK, OneHome, InList, NoStaleWork, AcceptFails, connVars,
     listVars, workerVars, bindVars, Threads, EvModes, NoFd
<1>3. ASSUME NEW c \in Conns, EventArrives(c)
      PROVE  OneHome'
  BY <1>3, NThreadsAssumption, FdsAssumption, ConnsAssumption DEF IInv,
     TypeOK, ControlOK, OneHome, InList, NoStaleWork, EventArrives, connVars,
     listVars, workerVars, bindVars, Threads, EvModes, NoFd
<1>4. CASE AddConnLocked
  BY <1>4, NThreadsAssumption, FdsAssumption, ConnsAssumption DEF IInv,
     TypeOK, ControlOK, OneHome, InList, NoStaleWork, AddConnLocked, Del,
     DelAdd, connVars, listVars, workerVars, bindVars, Threads, EvModes, NoFd
<1>5. CASE AddConnUnlock
  BY <1>5, NThreadsAssumption, FdsAssumption, ConnsAssumption DEF IInv,
     TypeOK, ControlOK, OneHome, InList, NoStaleWork, AddConnUnlock,
     connVars, listVars, workerVars, bindVars, Threads, EvModes, NoFd
<1>6. CASE AddConnSignal
  BY <1>6, NThreadsAssumption, FdsAssumption, ConnsAssumption DEF IInv,
     TypeOK, ControlOK, OneHome, InList, NoStaleWork, AddConnSignal,
     connVars, listVars, workerVars, bindVars, Threads, EvModes, NoFd
<1>7. ASSUME NEW t \in Threads, NEW c \in Conns, StepStays(t, c)
      PROVE  OneHome'
  BY <1>7, NThreadsAssumption, FdsAssumption, ConnsAssumption DEF IInv,
     TypeOK, ControlOK, OneHome, InList, NoStaleWork, StepStays, connVars,
     listVars, workerVars, bindVars, Threads, EvModes, NoFd
<1>8. ASSUME NEW t \in Threads, NEW c \in Conns, NEW mode \in EvModes,
             StepPolls(t, c, mode)
      PROVE  OneHome'
  BY <1>8, NThreadsAssumption, FdsAssumption, ConnsAssumption DEF IInv,
     TypeOK, ControlOK, OneHome, InList, NoStaleWork, StepPolls,
     MoveToPolling, Del, DelAdd, connVars, listVars, workerVars, bindVars,
     Threads, EvModes, NoFd
<1>9. ASSUME NEW t \in Threads, NEW c \in Conns, StepRecycles(t, c)
      PROVE  OneHome'
  BY <1>9, NThreadsAssumption, FdsAssumption, ConnsAssumption DEF IInv,
     TypeOK, ControlOK, OneHome, InList, NoStaleWork, StepRecycles,
     RecycleConn, FreeConn, CloseSocket, Del, connVars, listVars, workerVars,
     bindVars,
     Threads, EvModes, NoFd
<1>10. ASSUME NEW t \in Threads, NEW c \in Conns, IoCb(t, c)
      PROVE  OneHome'
  BY <1>10, NThreadsAssumption, FdsAssumption, ConnsAssumption DEF IInv,
     TypeOK, ControlOK, OneHome, InList, NoStaleWork, IoCb, MoveToActive,
     Del, DelAdd, connVars, listVars, workerVars, bindVars, Threads, EvModes,
     NoFd
<1>11. ASSUME NEW t \in Threads, PassDone(t)
      PROVE  OneHome'
  BY <1>11, NThreadsAssumption, FdsAssumption, ConnsAssumption DEF IInv,
     TypeOK, ControlOK, OneHome, InList, NoStaleWork, PassDone, connVars,
     listVars, workerVars, bindVars, Threads, EvModes, NoFd
<1>12. ASSUME NEW t \in Threads, EvRun(t)
      PROVE  OneHome'
  BY <1>12, NThreadsAssumption, FdsAssumption, ConnsAssumption DEF IInv,
     TypeOK, ControlOK, OneHome, InList, NoStaleWork, EvRun, EvRunReturns,
     Watched, connVars, listVars, workerVars, bindVars, Threads, EvModes,
     NoFd
<1>13. ASSUME NEW t \in Threads, EvRunDone(t)
      PROVE  OneHome'
  BY <1>13, NThreadsAssumption, FdsAssumption, ConnsAssumption DEF IInv,
     TypeOK, ControlOK, OneHome, InList, NoStaleWork, EvRunDone, connVars,
     listVars, workerVars, bindVars, Threads, EvModes, NoFd
<1>14. ASSUME NEW t \in Threads, NewConnCbLock(t)
      PROVE  OneHome'
  BY <1>14, NThreadsAssumption, FdsAssumption, ConnsAssumption DEF IInv,
     TypeOK, ControlOK, OneHome, InList, NoStaleWork, NewConnCbLock,
     connVars, listVars, workerVars, bindVars, Threads, EvModes, NoFd
<1>15. ASSUME NEW t \in Threads, NewConnCb(t)
      PROVE  OneHome'
  BY <1>15, NThreadsAssumption, FdsAssumption, ConnsAssumption DEF IInv,
     TypeOK, ControlOK, OneHome, InList, NoStaleWork, NewConnCb,
     NewConnCbDone, connVars,
     listVars, workerVars, bindVars, Threads, EvModes, NoFd
<1>16. CASE UNCHANGED vars
  BY <1>16 DEF IInv, TypeOK, ControlOK, OneHome, InList, NoStaleWork, vars,
     connVars, listVars, workerVars, bindVars
<1> QED
  BY <1>1, <1>2, <1>3, <1>4, <1>5, <1>6, <1>7, <1>8, <1>9, <1>10, <1>11,
     <1>12, <1>13, <1>14, <1>15, <1>16 DEF Next, AddConn, ThreadMain

\* Every step keeps watchers and polling lists together.
LEMMA WatchStep == IInv /\ [Next]_vars => WatchedIffPolling'
<1> SUFFICES ASSUME IInv, [Next]_vars PROVE WatchedIffPolling'
  OBVIOUS
<1>1. ASSUME NEW c \in Conns, NEW f \in Fds, Accept(c, f)
      PROVE  WatchedIffPolling'
  BY <1>1, NThreadsAssumption, FdsAssumption, ConnsAssumption DEF IInv,
     TypeOK, ControlOK, OneHome, InList, NoStaleWork, WatchedIffPolling,
     Accept, AcceptFd, SetSockaddr, NextThread, connVars, listVars,
     workerVars, bindVars, Threads,
     EvModes, NoFd
<1>2. ASSUME NEW c \in Conns, AcceptFails(c)
      PROVE  WatchedIffPolling'
  BY <1>2, NThreadsAssumption, FdsAssumption, ConnsAssumption DEF IInv,
     TypeOK, ControlOK, OneHome, InList, NoStaleWork, WatchedIffPolling,
     AcceptFails, connVars, listVars, workerVars, bindVars, Threads, EvModes,
     NoFd
<1>3. ASSUME NEW c \in Conns, EventArrives(c)
      PROVE  WatchedIffPolling'
  BY <1>3, NThreadsAssumption, FdsAssumption, ConnsAssumption DEF IInv,
     TypeOK, ControlOK, OneHome, InList, NoStaleWork, WatchedIffPolling,
     EventArrives, connVars, listVars, workerVars, bindVars, Threads,
     EvModes, NoFd
<1>4. CASE AddConnLocked
  BY <1>4, NThreadsAssumption, FdsAssumption, ConnsAssumption DEF IInv,
     TypeOK, ControlOK, OneHome, InList, NoStaleWork, WatchedIffPolling,
     AddConnLocked, Del, DelAdd, connVars, listVars, workerVars, bindVars,
     Threads, EvModes, NoFd
<1>5. CASE AddConnUnlock
  BY <1>5, NThreadsAssumption, FdsAssumption, ConnsAssumption DEF IInv,
     TypeOK, ControlOK, OneHome, InList, NoStaleWork, WatchedIffPolling,
     AddConnUnlock, connVars, listVars, workerVars, bindVars, Threads,
     EvModes, NoFd
<1>6. CASE AddConnSignal
  BY <1>6, NThreadsAssumption, FdsAssumption, ConnsAssumption DEF IInv,
     TypeOK, ControlOK, OneHome, InList, NoStaleWork, WatchedIffPolling,
     AddConnSignal, connVars, listVars, workerVars, bindVars, Threads,
     EvModes, NoFd
<1>7. ASSUME NEW t \in Threads, NEW c \in Conns, StepStays(t, c)
      PROVE  WatchedIffPolling'
  BY <1>7, NThreadsAssumption, FdsAssumption, ConnsAssumption DEF IInv,
     TypeOK, ControlOK, OneHome, InList, NoStaleWork, WatchedIffPolling,
     StepStays, connVars, listVars, workerVars, bindVars, Threads, EvModes,
     NoFd
<1>8. ASSUME NEW t \in Threads, NEW c \in Conns, NEW mode \in EvModes,
             StepPolls(t, c, mode)
      PROVE  WatchedIffPolling'
  <2>1. c \in active[t] /\ thread[c] = t
    BY <1>8, WorkIsOwn DEF StepPolls
  <2>2. \A d \in Conns : (IO[d] \in EvModes)' <=> d = c \/ IO[d] \in EvModes
    BY <1>8 DEF StepPolls, MoveToPolling, IInv, TypeOK
  <2>3. \A d \in Conns : (\E u \in Threads : d \in polling[u])'
                         <=> d = c \/ \E u \in Threads : d \in polling[u]
    BY <1>8, <2>1 DEF StepPolls, MoveToPolling, Del, DelAdd, IInv, TypeOK
  <2> QED
    BY <2>2, <2>3 DEF WatchedIffPolling, IInv
<1>9. ASSUME NEW t \in Threads, NEW c \in Conns, StepRecycles(t, c)
      PROVE  WatchedIffPolling'
  BY <1>9, NThreadsAssumption, FdsAssumption, ConnsAssumption DEF IInv,
     TypeOK, ControlOK, OneHome, InList, NoStaleWork, WatchedIffPolling,
     StepRecycles, RecycleConn, FreeConn, CloseSocket, Del, connVars, listVars,
     workerVars, bindVars, Threads, EvModes, NoFd
<1>10. ASSUME NEW t \in Threads, NEW c \in Conns, IoCb(t, c)
      PROVE  WatchedIffPolling'
  BY <1>10, NThreadsAssumption, FdsAssumption, ConnsAssumption DEF IInv,
     TypeOK, ControlOK, OneHome, InList, NoStaleWork, WatchedIffPolling,
     IoCb, MoveToActive, Del, DelAdd, connVars, listVars, workerVars,
     bindVars, Threads, EvModes, NoFd
<1>11. ASSUME NEW t \in Threads, PassDone(t)
      PROVE  WatchedIffPolling'
  BY <1>11, NThreadsAssumption, FdsAssumption, ConnsAssumption DEF IInv,
     TypeOK, ControlOK, OneHome, InList, NoStaleWork, WatchedIffPolling,
     PassDone, connVars, listVars, workerVars, bindVars, Threads, EvModes,
     NoFd
<1>12. ASSUME NEW t \in Threads, EvRun(t)
      PROVE  WatchedIffPolling'
  BY <1>12, NThreadsAssumption, FdsAssumption, ConnsAssumption DEF IInv,
     TypeOK, ControlOK, OneHome, InList, NoStaleWork, WatchedIffPolling,
     EvRun, EvRunReturns, Watched, connVars, listVars, workerVars, bindVars,
     Threads, EvModes, NoFd
<1>13. ASSUME NEW t \in Threads, EvRunDone(t)
      PROVE  WatchedIffPolling'
  BY <1>13, NThreadsAssumption, FdsAssumption, ConnsAssumption DEF IInv,
     TypeOK, ControlOK, OneHome, InList, NoStaleWork, WatchedIffPolling,
     EvRunDone, connVars, listVars, workerVars, bindVars, Threads, EvModes,
     NoFd
<1>14. ASSUME NEW t \in Threads, NewConnCbLock(t)
      PROVE  WatchedIffPolling'
  BY <1>14, NThreadsAssumption, FdsAssumption, ConnsAssumption DEF IInv,
     TypeOK, ControlOK, OneHome, InList, NoStaleWork, WatchedIffPolling,
     NewConnCbLock, connVars, listVars, workerVars, bindVars, Threads,
     EvModes, NoFd
<1>15. ASSUME NEW t \in Threads, NewConnCb(t)
      PROVE  WatchedIffPolling'
  BY <1>15, NThreadsAssumption, FdsAssumption, ConnsAssumption DEF IInv,
     TypeOK, ControlOK, OneHome, InList, NoStaleWork, WatchedIffPolling,
     NewConnCb, NewConnCbDone, connVars, listVars, workerVars, bindVars,
     Threads, EvModes,
     NoFd
<1>16. CASE UNCHANGED vars
  BY <1>16 DEF IInv, TypeOK, ControlOK, OneHome, InList, NoStaleWork,
     WatchedIffPolling, vars, connVars, listVars, workerVars, bindVars
<1> QED
  BY <1>1, <1>2, <1>3, <1>4, <1>5, <1>6, <1>7, <1>8, <1>9, <1>10, <1>11,
     <1>12, <1>13, <1>14, <1>15, <1>16 DEF Next, AddConn, ThreadMain

\* No step makes collected events or the rest of a pass stale.
LEMMA StaleStep == IInv /\ [Next]_vars => NoStaleWork'
<1> SUFFICES ASSUME IInv, [Next]_vars PROVE NoStaleWork'
  OBVIOUS
<1>1. ASSUME NEW c \in Conns, NEW f \in Fds, Accept(c, f)
      PROVE  NoStaleWork'
  BY <1>1, NThreadsAssumption, FdsAssumption, ConnsAssumption DEF IInv,
     TypeOK, ControlOK, OneHome, InList, NoStaleWork, WatchedIffPolling,
     Accept, AcceptFd, SetSockaddr, NextThread, connVars, listVars,
     workerVars, bindVars, Threads,
     EvModes, NoFd
<1>2. ASSUME NEW c \in Conns, AcceptFails(c)
      PROVE  NoStaleWork'
  BY <1>2, NThreadsAssumption, FdsAssumption, ConnsAssumption DEF IInv,
     TypeOK, ControlOK, OneHome, InList, NoStaleWork, WatchedIffPolling,
     AcceptFails, connVars, listVars, workerVars, bindVars, Threads, EvModes,
     NoFd
<1>3. ASSUME NEW c \in Conns, EventArrives(c)
      PROVE  NoStaleWork'
  BY <1>3, NThreadsAssumption, FdsAssumption, ConnsAssumption DEF IInv,
     TypeOK, ControlOK, OneHome, InList, NoStaleWork, WatchedIffPolling,
     EventArrives, connVars, listVars, workerVars, bindVars, Threads,
     EvModes, NoFd
<1>4. CASE AddConnLocked
  BY <1>4, NThreadsAssumption, FdsAssumption, ConnsAssumption DEF IInv,
     TypeOK, ControlOK, OneHome, InList, NoStaleWork, WatchedIffPolling,
     AddConnLocked, Del, DelAdd, connVars, listVars, workerVars, bindVars,
     Threads, EvModes, NoFd
<1>5. CASE AddConnUnlock
  BY <1>5, NThreadsAssumption, FdsAssumption, ConnsAssumption DEF IInv,
     TypeOK, ControlOK, OneHome, InList, NoStaleWork, WatchedIffPolling,
     AddConnUnlock, connVars, listVars, workerVars, bindVars, Threads,
     EvModes, NoFd
<1>6. CASE AddConnSignal
  BY <1>6, NThreadsAssumption, FdsAssumption, ConnsAssumption DEF IInv,
     TypeOK, ControlOK, OneHome, InList, NoStaleWork, WatchedIffPolling,
     AddConnSignal, connVars, listVars, workerVars, bindVars, Threads,
     EvModes, NoFd
<1>7. ASSUME NEW t \in Threads, NEW c \in Conns, StepStays(t, c)
      PROVE  NoStaleWork'
  BY <1>7, NThreadsAssumption, FdsAssumption, ConnsAssumption DEF IInv,
     TypeOK, ControlOK, OneHome, InList, NoStaleWork, WatchedIffPolling,
     StepStays, connVars, listVars, workerVars, bindVars, Threads, EvModes,
     NoFd
<1>8. ASSUME NEW t \in Threads, NEW c \in Conns, NEW mode \in EvModes,
             StepPolls(t, c, mode)
      PROVE  NoStaleWork'
  BY <1>8, NThreadsAssumption, FdsAssumption, ConnsAssumption DEF IInv,
     TypeOK, ControlOK, OneHome, InList, NoStaleWork, WatchedIffPolling,
     StepPolls, MoveToPolling, Del, DelAdd, connVars, listVars, workerVars,
     bindVars, Threads, EvModes, NoFd
<1>9. ASSUME NEW t \in Threads, NEW c \in Conns, StepRecycles(t, c)
      PROVE  NoStaleWork'
  BY <1>9, NThreadsAssumption, FdsAssumption, ConnsAssumption DEF IInv,
     TypeOK, ControlOK, OneHome, InList, NoStaleWork, WatchedIffPolling,
     StepRecycles, RecycleConn, FreeConn, CloseSocket, Del, connVars, listVars,
     workerVars, bindVars, Threads, EvModes, NoFd
<1>10. ASSUME NEW t \in Threads, NEW c \in Conns, IoCb(t, c)
      PROVE  NoStaleWork'
  BY <1>10, NThreadsAssumption, FdsAssumption, ConnsAssumption DEF IInv,
     TypeOK, ControlOK, OneHome, InList, NoStaleWork, WatchedIffPolling,
     IoCb, MoveToActive, Del, DelAdd, connVars, listVars, workerVars,
     bindVars, Threads, EvModes, NoFd
<1>11. ASSUME NEW t \in Threads, PassDone(t)
      PROVE  NoStaleWork'
  BY <1>11, NThreadsAssumption, FdsAssumption, ConnsAssumption DEF IInv,
     TypeOK, ControlOK, OneHome, InList, NoStaleWork, WatchedIffPolling,
     PassDone, connVars, listVars, workerVars, bindVars, Threads, EvModes,
     NoFd
<1>12. ASSUME NEW t \in Threads, EvRun(t)
      PROVE  NoStaleWork'
  BY <1>12, NThreadsAssumption, FdsAssumption, ConnsAssumption DEF IInv,
     TypeOK, ControlOK, OneHome, InList, NoStaleWork, WatchedIffPolling,
     EvRun, EvRunReturns, Watched, connVars, listVars, workerVars, bindVars,
     Threads, EvModes, NoFd
<1>13. ASSUME NEW t \in Threads, EvRunDone(t)
      PROVE  NoStaleWork'
  BY <1>13, NThreadsAssumption, FdsAssumption, ConnsAssumption DEF IInv,
     TypeOK, ControlOK, OneHome, InList, NoStaleWork, WatchedIffPolling,
     EvRunDone, connVars, listVars, workerVars, bindVars, Threads, EvModes,
     NoFd
<1>14. ASSUME NEW t \in Threads, NewConnCbLock(t)
      PROVE  NoStaleWork'
  BY <1>14, NThreadsAssumption, FdsAssumption, ConnsAssumption DEF IInv,
     TypeOK, ControlOK, OneHome, InList, NoStaleWork, WatchedIffPolling,
     NewConnCbLock, connVars, listVars, workerVars, bindVars, Threads,
     EvModes, NoFd
<1>15. ASSUME NEW t \in Threads, NewConnCb(t)
      PROVE  NoStaleWork'
  BY <1>15, NThreadsAssumption, FdsAssumption, ConnsAssumption DEF IInv,
     TypeOK, ControlOK, OneHome, InList, NoStaleWork, WatchedIffPolling,
     NewConnCb, NewConnCbDone, connVars, listVars, workerVars, bindVars,
     Threads, EvModes,
     NoFd
<1>16. CASE UNCHANGED vars
  BY <1>16 DEF IInv, TypeOK, ControlOK, OneHome, InList, NoStaleWork,
     WatchedIffPolling, vars, connVars, listVars, workerVars, bindVars
<1> QED
  BY <1>1, <1>2, <1>3, <1>4, <1>5, <1>6, <1>7, <1>8, <1>9, <1>10, <1>11,
     <1>12, <1>13, <1>14, <1>15, <1>16 DEF Next, AddConn, ThreadMain

\* No step leaves a queued connection without a wake-up.
LEMMA WakeupStep == IInv /\ [Next]_vars => NoLostWakeup'
<1> SUFFICES ASSUME IInv, [Next]_vars PROVE NoLostWakeup'
  OBVIOUS
<1>1. ASSUME NEW c \in Conns, NEW f \in Fds, Accept(c, f)
      PROVE  NoLostWakeup'
  BY <1>1, NThreadsAssumption, FdsAssumption, ConnsAssumption DEF IInv,
     TypeOK, ControlOK, NoLostWakeup, Accept, AcceptFd, SetSockaddr,
     NextThread, connVars, listVars,
     workerVars, bindVars, Threads, EvModes, NoFd
<1>2. ASSUME NEW c \in Conns, AcceptFails(c)
      PROVE  NoLostWakeup'
  BY <1>2, NThreadsAssumption, FdsAssumption, ConnsAssumption DEF IInv,
     TypeOK, ControlOK, NoLostWakeup, AcceptFails, connVars, listVars,
     workerVars, bindVars, Threads, EvModes, NoFd
<1>3. ASSUME NEW c \in Conns, EventArrives(c)
      PROVE  NoLostWakeup'
  BY <1>3, NThreadsAssumption, FdsAssumption, ConnsAssumption DEF IInv,
     TypeOK, ControlOK, NoLostWakeup, EventArrives, connVars, listVars,
     workerVars, bindVars, Threads, EvModes, NoFd
<1>4. CASE AddConnLocked
  <2>1. ASSUME NEW t \in Threads, newConns'[t] # {}
        PROVE  \/ signal'[t]
               \/ pendAsync'[t]
               \/ bindpc' \in {"unlock", "send"} /\ prev_thd' = t
    <3>1. CASE t = prev_thd
      BY <1>4, <3>1 DEF AddConnLocked
    <3>2. CASE t # prev_thd
      <4>1. newConns[t] # {}
        BY <1>4, <2>1, <3>2 DEF AddConnLocked, DelAdd, Del, IInv, TypeOK
      <4> QED
        BY <1>4, <4>1 DEF AddConnLocked, workerVars, IInv, NoLostWakeup
    <3> QED
      BY <3>1, <3>2
  <2> QED
    BY <2>1 DEF NoLostWakeup
<1>5. CASE AddConnUnlock
  BY <1>5, NThreadsAssumption, FdsAssumption, ConnsAssumption DEF IInv,
     TypeOK, ControlOK, NoLostWakeup, AddConnUnlock, connVars, listVars,
     workerVars, bindVars, Threads, EvModes, NoFd
<1>6. CASE AddConnSignal
  BY <1>6, NThreadsAssumption, FdsAssumption, ConnsAssumption DEF IInv,
     TypeOK, ControlOK, NoLostWakeup, AddConnSignal, connVars, listVars,
     workerVars, bindVars, Threads, EvModes, NoFd
<1>7. ASSUME NEW t \in Threads, NEW c \in Conns, StepStays(t, c)
      PROVE  NoLostWakeup'
  BY <1>7, NThreadsAssumption, FdsAssumption, ConnsAssumption DEF IInv,
     TypeOK, ControlOK, NoLostWakeup, StepStays, connVars, listVars,
     workerVars, bindVars, Threads, EvModes, NoFd
<1>8. ASSUME NEW t \in Threads, NEW c \in Conns, NEW mode \in EvModes,
             StepPolls(t, c, mode)
      PROVE  NoLostWakeup'
  BY <1>8, NThreadsAssumption, FdsAssumption, ConnsAssumption DEF IInv,
     TypeOK, ControlOK, NoLostWakeup, OneHome, InList, NoStaleWork,
     StepPolls, MoveToPolling, Del, DelAdd, connVars, listVars, workerVars,
     bindVars, Threads, EvModes, NoFd
<1>9. ASSUME NEW t \in Threads, NEW c \in Conns, StepRecycles(t, c)
      PROVE  NoLostWakeup'
  BY <1>9, NThreadsAssumption, FdsAssumption, ConnsAssumption DEF IInv,
     TypeOK, ControlOK, NoLostWakeup, OneHome, InList, NoStaleWork,
     StepRecycles, RecycleConn, FreeConn, CloseSocket, Del, connVars, listVars,
     workerVars, bindVars, Threads, EvModes, NoFd
<1>10. ASSUME NEW t \in Threads, NEW c \in Conns, IoCb(t, c)
      PROVE  NoLostWakeup'
  BY <1>10, NThreadsAssumption, FdsAssumption, ConnsAssumption DEF IInv,
     TypeOK, ControlOK, NoLostWakeup, OneHome, InList, NoStaleWork, IoCb,
     MoveToActive, Del, DelAdd, connVars, listVars, workerVars, bindVars,
     Threads, EvModes, NoFd
<1>11. ASSUME NEW t \in Threads, PassDone(t)
      PROVE  NoLostWakeup'
  BY <1>11, NThreadsAssumption, FdsAssumption, ConnsAssumption DEF IInv,
     TypeOK, ControlOK, NoLostWakeup, PassDone, connVars, listVars,
     workerVars, bindVars, Threads, EvModes, NoFd
<1>12. ASSUME NEW t \in Threads, EvRun(t)
      PROVE  NoLostWakeup'
  BY <1>12, NThreadsAssumption, FdsAssumption, ConnsAssumption DEF IInv,
     TypeOK, ControlOK, NoLostWakeup, EvRun, EvRunReturns, Watched, connVars,
     listVars, workerVars, bindVars, Threads, EvModes, NoFd
<1>13. ASSUME NEW t \in Threads, EvRunDone(t)
      PROVE  NoLostWakeup'
  BY <1>13, NThreadsAssumption, FdsAssumption, ConnsAssumption DEF IInv,
     TypeOK, ControlOK, NoLostWakeup, EvRunDone, connVars, listVars,
     workerVars, bindVars, Threads, EvModes, NoFd
<1>14. ASSUME NEW t \in Threads, NewConnCbLock(t)
      PROVE  NoLostWakeup'
  BY <1>14, NThreadsAssumption, FdsAssumption, ConnsAssumption DEF IInv,
     TypeOK, ControlOK, NoLostWakeup, NewConnCbLock, connVars, listVars,
     workerVars, bindVars, Threads, EvModes, NoFd
<1>15. ASSUME NEW t \in Threads, NewConnCb(t)
      PROVE  NoLostWakeup'
  BY <1>15, NThreadsAssumption, FdsAssumption, ConnsAssumption DEF IInv,
     TypeOK, ControlOK, NoLostWakeup, NewConnCb, NewConnCbDone, connVars,
     listVars,
     workerVars, bindVars, Threads, EvModes, NoFd
<1>16. CASE UNCHANGED vars
  BY <1>16 DEF IInv, TypeOK, ControlOK, NoLostWakeup, vars, connVars,
     listVars, workerVars, bindVars
<1> QED
  BY <1>1, <1>2, <1>3, <1>4, <1>5, <1>6, <1>7, <1>8, <1>9, <1>10, <1>11,
     <1>12, <1>13, <1>14, <1>15, <1>16 DEF Next, AddConn, ThreadMain

\* Every step keeps descriptors and live connections in bijection.
LEMMA DescriptorStep == IInv /\ [Next]_vars => DescriptorsOwned'
<1> SUFFICES ASSUME IInv, [Next]_vars PROVE DescriptorsOwned'
  OBVIOUS
<1>1. ASSUME NEW c \in Conns, NEW f \in Fds, Accept(c, f)
      PROVE  DescriptorsOwned'
  BY <1>1, NThreadsAssumption, FdsAssumption, ConnsAssumption DEF IInv,
     TypeOK, ControlOK, OneHome, InList, NoStaleWork, DescriptorsOwned,
     Accept, AcceptFd, SetSockaddr, NextThread, connVars, listVars,
     workerVars, bindVars, Threads,
     EvModes, NoFd
<1>2. ASSUME NEW c \in Conns, AcceptFails(c)
      PROVE  DescriptorsOwned'
  BY <1>2, NThreadsAssumption, FdsAssumption, ConnsAssumption DEF IInv,
     TypeOK, ControlOK, OneHome, InList, NoStaleWork, DescriptorsOwned,
     AcceptFails, connVars, listVars, workerVars, bindVars, Threads, EvModes,
     NoFd
<1>3. ASSUME NEW c \in Conns, EventArrives(c)
      PROVE  DescriptorsOwned'
  BY <1>3, NThreadsAssumption, FdsAssumption, ConnsAssumption DEF IInv,
     TypeOK, ControlOK, OneHome, InList, NoStaleWork, DescriptorsOwned,
     EventArrives, connVars, listVars, workerVars, bindVars, Threads,
     EvModes, NoFd
<1>4. CASE AddConnLocked
  BY <1>4, NThreadsAssumption, FdsAssumption, ConnsAssumption DEF IInv,
     TypeOK, ControlOK, OneHome, InList, NoStaleWork, DescriptorsOwned,
     AddConnLocked, Del, DelAdd, connVars, listVars, workerVars, bindVars,
     Threads, EvModes, NoFd
<1>5. CASE AddConnUnlock
  BY <1>5, NThreadsAssumption, FdsAssumption, ConnsAssumption DEF IInv,
     TypeOK, ControlOK, OneHome, InList, NoStaleWork, DescriptorsOwned,
     AddConnUnlock, connVars, listVars, workerVars, bindVars, Threads,
     EvModes, NoFd
<1>6. CASE AddConnSignal
  BY <1>6, NThreadsAssumption, FdsAssumption, ConnsAssumption DEF IInv,
     TypeOK, ControlOK, OneHome, InList, NoStaleWork, DescriptorsOwned,
     AddConnSignal, connVars, listVars, workerVars, bindVars, Threads,
     EvModes, NoFd
<1>7. ASSUME NEW t \in Threads, NEW c \in Conns, StepStays(t, c)
      PROVE  DescriptorsOwned'
  BY <1>7, NThreadsAssumption, FdsAssumption, ConnsAssumption DEF IInv,
     TypeOK, ControlOK, OneHome, InList, NoStaleWork, DescriptorsOwned,
     StepStays, connVars, listVars, workerVars, bindVars, Threads, EvModes,
     NoFd
<1>8. ASSUME NEW t \in Threads, NEW c \in Conns, NEW mode \in EvModes,
             StepPolls(t, c, mode)
      PROVE  DescriptorsOwned'
  BY <1>8, NThreadsAssumption, FdsAssumption, ConnsAssumption DEF IInv,
     TypeOK, ControlOK, OneHome, InList, NoStaleWork, DescriptorsOwned,
     StepPolls, MoveToPolling, Del, DelAdd, connVars, listVars, workerVars,
     bindVars, Threads, EvModes, NoFd
<1>9. ASSUME NEW t \in Threads, NEW c \in Conns, StepRecycles(t, c)
      PROVE  DescriptorsOwned'
  BY <1>9, NThreadsAssumption, FdsAssumption, ConnsAssumption DEF IInv,
     TypeOK, ControlOK, OneHome, InList, NoStaleWork, DescriptorsOwned,
     StepRecycles, RecycleConn, FreeConn, CloseSocket, Del, connVars, listVars,
     workerVars, bindVars, Threads, EvModes, NoFd
<1>10. ASSUME NEW t \in Threads, NEW c \in Conns, IoCb(t, c)
      PROVE  DescriptorsOwned'
  BY <1>10, NThreadsAssumption, FdsAssumption, ConnsAssumption DEF IInv,
     TypeOK, ControlOK, OneHome, InList, NoStaleWork, DescriptorsOwned, IoCb,
     MoveToActive, Del, DelAdd, connVars, listVars, workerVars, bindVars,
     Threads, EvModes, NoFd
<1>11. ASSUME NEW t \in Threads, PassDone(t)
      PROVE  DescriptorsOwned'
  BY <1>11, NThreadsAssumption, FdsAssumption, ConnsAssumption DEF IInv,
     TypeOK, ControlOK, OneHome, InList, NoStaleWork, DescriptorsOwned,
     PassDone, connVars, listVars, workerVars, bindVars, Threads, EvModes,
     NoFd
<1>12. ASSUME NEW t \in Threads, EvRun(t)
      PROVE  DescriptorsOwned'
  BY <1>12, NThreadsAssumption, FdsAssumption, ConnsAssumption DEF IInv,
     TypeOK, ControlOK, OneHome, InList, NoStaleWork, DescriptorsOwned,
     EvRun, EvRunReturns, Watched, connVars, listVars, workerVars, bindVars,
     Threads, EvModes, NoFd
<1>13. ASSUME NEW t \in Threads, EvRunDone(t)
      PROVE  DescriptorsOwned'
  BY <1>13, NThreadsAssumption, FdsAssumption, ConnsAssumption DEF IInv,
     TypeOK, ControlOK, OneHome, InList, NoStaleWork, DescriptorsOwned,
     EvRunDone, connVars, listVars, workerVars, bindVars, Threads, EvModes,
     NoFd
<1>14. ASSUME NEW t \in Threads, NewConnCbLock(t)
      PROVE  DescriptorsOwned'
  BY <1>14, NThreadsAssumption, FdsAssumption, ConnsAssumption DEF IInv,
     TypeOK, ControlOK, OneHome, InList, NoStaleWork, DescriptorsOwned,
     NewConnCbLock, connVars, listVars, workerVars, bindVars, Threads,
     EvModes, NoFd
<1>15. ASSUME NEW t \in Threads, NewConnCb(t)
      PROVE  DescriptorsOwned'
  BY <1>15, NThreadsAssumption, FdsAssumption, ConnsAssumption DEF IInv,
     TypeOK, ControlOK, OneHome, InList, NoStaleWork, DescriptorsOwned,
     NewConnCb, NewConnCbDone, connVars, listVars, workerVars, bindVars,
     Threads, EvModes,
     NoFd
<1>16. CASE UNCHANGED vars
  BY <1>16 DEF IInv, TypeOK, ControlOK, OneHome, InList, NoStaleWork,
     DescriptorsOwned, vars, connVars, listVars, workerVars, bindVars
<1> QED
  BY <1>1, <1>2, <1>3, <1>4, <1>5, <1>6, <1>7, <1>8, <1>9, <1>10, <1>11,
     <1>12, <1>13, <1>14, <1>15, <1>16 DEF Next, AddConn, ThreadMain

\* The inductive invariant holds of every state.
THEOREM Invariance == SafetySpec => []IInv
<1>1. Init => IInv
  BY NThreadsAssumption, ConnsAssumption, FdsAssumption
  DEF Init, IInv, TypeOK, ControlOK, OneHome, InList, WatchedIffPolling,
      NoStaleWork, NoLostWakeup, DescriptorsOwned, Threads, EvModes, NoFd
<1>2. IInv /\ [Next]_vars => IInv'
  BY TypeStep, ControlStep, OneHomeStep, WatchStep, StaleStep, WakeupStep,
     DescriptorStep DEF IInv
<1> QED
  BY <1>1, <1>2, PTL DEF SafetySpec

\* Type correctness of the worker and accept state.
THEOREM TypeCorrect == SafetySpec => []TypeOK
<1>1. IInv => TypeOK
  BY DEF IInv
<1> QED
  BY <1>1, Invariance, PTL

\* A live connection that was handed over is in exactly one list, of its own
\* thread, and a freed one in none (conn->listed, thread.c and connection.c).
THEOREM OneHomeAlways == SafetySpec => []OneHome
<1>1. IInv => OneHome
  BY DEF IInv
<1> QED
  BY <1>1, Invariance, PTL

\* move_to_polling and move_to_active never let list and watcher part.
THEOREM WatchedIffPollingAlways == SafetySpec => []WatchedIffPolling
<1>1. IInv => WatchedIffPolling
  BY DEF IInv
<1> QED
  BY <1>1, Invariance, PTL

\* The mutex and the async signal of new_conns lose no wake-up.
THEOREM NoLostWakeupAlways == SafetySpec => []NoLostWakeup
<1>1. IInv => NoLostWakeup
  BY DEF IInv
<1> QED
  BY <1>1, Invariance, PTL

\* Neither libev's collected events nor the running pass ever refer to a
\* connection that has been freed or moved.
THEOREM NoStaleWorkAlways == SafetySpec => []NoStaleWork
<1>1. IInv => NoStaleWork
  BY DEF IInv
<1> QED
  BY <1>1, Invariance, PTL

\* Descriptors are owned by one live connection each and never leaked.
THEOREM DescriptorsOwnedAlways == SafetySpec => []DescriptorsOwned
<1>1. IInv => DescriptorsOwned
  BY DEF IInv
<1> QED
  BY <1>1, Invariance, PTL

-----------------------------------------------------------------------------
(* The round-robin of bind.c. *)

\* The connections handed to a worker so far, and the worker that was dealt
\* the last one: prev_thd, or the one before it while the main thread has a
\* connection for prev_thd and not yet its mutex.
Handed(t) == {c \in Conns : thread[c] = t}
Dealt == IF bindpc = "lock" THEN prev_thd - 1 ELSE prev_thd

\* The workers up to the last one have been dealt one more than the others.
RoundRobin ==
  \E m \in Nat : \A t \in Threads :
    /\ IsFiniteSet(Handed(t))
    /\ Cardinality(Handed(t)) = m + (IF t <= Dealt THEN 1 ELSE 0)

\* A step that deals nothing.
LEMMA NotDealt ==
  ASSUME RoundRobin, thread' = thread, Dealt' = Dealt
  PROVE  RoundRobin'
BY DEF RoundRobin, Handed, Threads

\* A step of the main thread or of a worker keeps the deal even.
LEMMA RoundRobinStep == IInv /\ RoundRobin /\ [Next]_vars => RoundRobin'
<1> SUFFICES ASSUME IInv, RoundRobin, [Next]_vars PROVE RoundRobin'
  OBVIOUS
<1>0. /\ NThreads \in Nat /\ NThreads >= 1
      /\ \A t \in Threads : t \in Int /\ 1 <= t /\ t <= NThreads
      /\ prev_thd \in Int /\ 0 <= prev_thd /\ prev_thd <= NThreads
      /\ thread \in [Conns -> 0..NThreads] /\ bindConn \in Conns \cup {NoConn}
  BY NThreadsAssumption DEF Threads, IInv, TypeOK
<1>1. CASE UNCHANGED vars
  BY <1>1, NotDealt DEF vars, connVars, bindVars, Dealt
<1>2. ASSUME NEW c \in Conns, NEW f \in Fds, Accept(c, f) PROVE RoundRobin'
  <2>1. thread' = thread /\ bindpc = "idle" /\ bindpc' = "lock"
        /\ prev_thd' = NextThread(prev_thd)
    BY <1>2 DEF Accept
  <2>2. PICK m \in Nat : \A t \in Threads :
          /\ IsFiniteSet(Handed(t))
          /\ Cardinality(Handed(t)) = m + (IF t <= Dealt THEN 1 ELSE 0)
    BY DEF RoundRobin
  <2>3. Dealt = prev_thd /\ Dealt' = NextThread(prev_thd) - 1
    BY <2>1 DEF Dealt
  <2>4. \A t \in Threads : Handed(t)' = Handed(t)
    BY <2>1 DEF Handed
  <2>5. CASE prev_thd = NThreads
    <3>1. Dealt' = 0
      BY <2>3, <2>5 DEF NextThread
    <3>2. \A t \in Threads : Cardinality(Handed(t)) = m + 1
      BY <1>0, <2>2, <2>3, <2>5
    <3>3. \A t \in Threads :
            /\ IsFiniteSet(Handed(t)')
            /\ Cardinality(Handed(t)') = m + 1 + (IF t <= Dealt' THEN 1 ELSE 0)
      BY <1>0, <2>2, <2>4, <3>1, <3>2
    <3>4. m + 1 \in Nat /\ Threads' = Threads
      BY DEF Threads
    <3> QED
      BY <3>3, <3>4 DEF RoundRobin
  <2>6. CASE prev_thd # NThreads
    <3>1. Dealt' = Dealt
      BY <1>0, <2>3, <2>6 DEF NextThread
    <3> QED
      BY <2>1, <3>1, NotDealt
  <2> QED
    BY <2>5, <2>6
<1>3. CASE AddConnLocked
  <2>1. /\ bindpc = "lock" /\ bindpc' = "unlock" /\ prev_thd' = prev_thd
        /\ thread' = [thread EXCEPT ![bindConn] = prev_thd]
    BY <1>3 DEF AddConnLocked
  <2>2. /\ bindConn \in Conns /\ thread[bindConn] = 0 /\ prev_thd \in Threads
    BY <1>0, <2>1 DEF IInv, ControlOK
  <2>3. PICK m \in Nat : \A t \in Threads :
          /\ IsFiniteSet(Handed(t))
          /\ Cardinality(Handed(t)) = m + (IF t <= Dealt THEN 1 ELSE 0)
    BY DEF RoundRobin
  <2>4. Dealt = prev_thd - 1 /\ Dealt' = prev_thd
    BY <2>1 DEF Dealt
  <2>5. ASSUME NEW t \in Threads
        PROVE  /\ IsFiniteSet(Handed(t)')
               /\ Cardinality(Handed(t)') = m + (IF t <= Dealt' THEN 1 ELSE 0)
    <3>1. CASE t = prev_thd
      <4>1. Handed(t)' = Handed(t) \cup {bindConn} /\ bindConn \notin Handed(t)
        BY <1>0, <2>1, <2>2, <3>1 DEF Handed
      <4>2. /\ IsFiniteSet(Handed(t)')
            /\ Cardinality(Handed(t)') = Cardinality(Handed(t)) + 1
        BY <2>3, <4>1, FS_AddElement
      <4>3. Cardinality(Handed(t)) = m
        BY <1>0, <2>2, <2>3, <2>4, <3>1
      <4> QED
        BY <1>0, <2>4, <3>1, <4>2, <4>3
    <3>2. CASE t # prev_thd
      <4>1. Handed(t)' = Handed(t)
        BY <1>0, <2>1, <2>2, <3>2 DEF Handed
      <4>2. t <= Dealt' <=> t <= Dealt
        BY <1>0, <2>2, <2>4, <3>2
      <4> QED
        BY <2>3, <4>1, <4>2
    <3> QED
      BY <3>1, <3>2
  <2>6. Threads' = Threads
    BY DEF Threads
  <2> QED
    BY <2>5, <2>6 DEF RoundRobin
<1>4. ASSUME thread' = thread, prev_thd' = prev_thd, bindpc # "lock", bindpc' # "lock"
      PROVE  RoundRobin'
  BY <1>4, NotDealt DEF Dealt
<1>5. ASSUME thread' = thread, prev_thd' = prev_thd, bindpc' = bindpc
      PROVE  RoundRobin'
  BY <1>5, NotDealt DEF Dealt
<1>6. CASE AddConnUnlock \/ AddConnSignal
  BY <1>4, <1>6 DEF AddConnUnlock, AddConnSignal, connVars
<1>7. ASSUME NEW c \in Conns, AcceptFails(c) \/ EventArrives(c) PROVE RoundRobin'
  BY <1>5, <1>7 DEF AcceptFails, EventArrives, connVars, bindVars
<1>8. ASSUME NEW t \in Threads, ThreadMain(t) PROVE RoundRobin'
  <2>1. thread' = thread
    BY <1>8 DEF ThreadMain, StepStays, StepPolls, StepRecycles, RecycleConn, FreeConn,
         IoCb, PassDone, EvRun, EvRunDone, NewConnCbLock, NewConnCb, NewConnCbDone,
         connVars
  <2>2. prev_thd' = prev_thd /\ bindpc' = bindpc
    BY <1>8 DEF ThreadMain, StepStays, StepPolls, StepRecycles, IoCb, PassDone, EvRun,
         EvRunDone, NewConnCbLock, NewConnCb, NewConnCbDone, bindVars
  <2> QED
    BY <1>5, <2>1, <2>2
<1> QED
  BY <1>1, <1>2, <1>3, <1>6, <1>7, <1>8 DEF Next, AddConn

\* Whatever the workers do meanwhile, and for any number of them, the accept
\* callback deals the connections out evenly.
THEOREM BalancedAlways == SafetySpec => []Balanced
<1>1. Init => RoundRobin
  <2> SUFFICES ASSUME Init PROVE RoundRobin
    OBVIOUS
  <2>1. Dealt = 0
    BY DEF Init, Dealt
  <2>2. ASSUME NEW t \in Threads
        PROVE  IsFiniteSet(Handed(t)) /\ Cardinality(Handed(t)) = 0 + (IF t <= Dealt THEN 1 ELSE 0)
    <3>1. Handed(t) = {}
      BY NThreadsAssumption DEF Init, Handed, Threads
    <3> QED
      BY <2>1, <3>1, FS_EmptySet, NThreadsAssumption DEF Threads
  <2> QED
    BY <2>2 DEF RoundRobin
<1>2. RoundRobin => Balanced
  <2> SUFFICES ASSUME RoundRobin, NEW t \in Threads, NEW u \in Threads
               PROVE  Assigned(t) - Assigned(u) \in -1..1
    BY DEF Balanced
  <2>1. PICK m \in Nat : \A v \in Threads :
          Cardinality(Handed(v)) = m + (IF v <= Dealt THEN 1 ELSE 0)
    BY DEF RoundRobin
  <2>2. \A v \in Threads : Assigned(v) = m \/ Assigned(v) = m + 1
    BY <2>1 DEF Assigned, Handed
  <2> QED
    BY <2>2
<1> QED
  BY <1>1, <1>2, RoundRobinStep, Invariance, PTL DEF SafetySpec

-----------------------------------------------------------------------------
(* The refinement of ConnLifecycle.                                        *)

\* The list a connection is in determines its stage.
StageFacts(c) ==
  /\ life[c] = "unborn" => Stage(c) = "unborn"
  /\ life[c] = "freed" => Stage(c) = "closed"
  /\ \A t \in Threads : /\ c \in newConns[t] => Stage(c) = "queued"
                        /\ c \in polling[t]  => Stage(c) = "polled"
                        /\ c \in active[t]   => Stage(c) = "served"
  /\ c = bindConn /\ bindpc = "lock" => Stage(c) = "accepted"

\* The invariant makes the refinement mapping what StageFacts says.
LEMMA StageOf == IInv => \A c \in Conns : StageFacts(c)
<1> SUFFICES ASSUME IInv, NEW c \in Conns PROVE StageFacts(c)
  OBVIOUS
<1>1. \A t \in Threads : InList(c, t) => thread[c] = t /\ life[c] = "live"
  BY DEF IInv, OneHome
<1>2. life[c] = "unborn" => Stage(c) = "unborn"
  BY DEF Stage
<1>3. life[c] = "freed" => Stage(c) = "closed"
  BY DEF Stage
<1>4. ASSUME NEW t \in Threads, c \in newConns[t] PROVE Stage(c) = "queued"
  BY <1>1, <1>4 DEF Stage, InList
<1>5. ASSUME NEW t \in Threads, c \in polling[t] PROVE Stage(c) = "polled"
  <2>1. life[c] = "live" /\ \A u \in Threads : c \notin newConns[u]
    BY <1>1, <1>5 DEF InList, IInv, OneHome
  <2> QED
    BY <1>5, <2>1 DEF Stage
<1>6. ASSUME NEW t \in Threads, c \in active[t] PROVE Stage(c) = "served"
  <2>1. /\ life[c] = "live"
        /\ \A u \in Threads : c \notin newConns[u] /\ c \notin polling[u]
    BY <1>1, <1>6 DEF InList, IInv, OneHome
  <2> QED
    BY <1>6, <2>1 DEF Stage
<1>7. c = bindConn /\ bindpc = "lock" => Stage(c) = "accepted"
  <2> SUFFICES ASSUME c = bindConn, bindpc = "lock" PROVE Stage(c) = "accepted"
    OBVIOUS
  <2>1. life[c] = "live" /\ \A u \in Threads : ~InList(c, u)
    BY <1>1, NThreadsAssumption DEF IInv, ControlOK, Threads
  <2> QED
    BY <2>1 DEF Stage, InList
<1> QED
  BY <1>2, <1>3, <1>4, <1>5, <1>6, <1>7 DEF StageFacts

\* The same of the state after a step.
LEMMA StageOfNext == IInv' => (\A c \in Conns : StageFacts(c))'
BY StageOf, PTL

\* Only the connection the main thread is handing over is "accepted".
LEMMA AcceptedOnlyInBind ==
  ASSUME IInv, NEW c \in Conns, Stage(c) = "accepted"
  PROVE  c = bindConn /\ bindpc = "lock"
<1>1. life[c] = "live"
  BY StageOf DEF StageFacts, IInv, TypeOK
<1>2. ~(thread[c] \in Threads /\ InList(c, thread[c]))
  BY StageOf DEF StageFacts, InList
<1> QED
  BY <1>1, <1>2 DEF IInv, OneHome

\* A step that leaves the lists and the life of a connection alone leaves its
\* stage alone.
LEMMA StageFrame ==
  ASSUME NEW c \in Conns, life'[c] = life[c],
         \A t \in Threads : /\ c \in newConns'[t] <=> c \in newConns[t]
                            /\ c \in polling'[t] <=> c \in polling[t]
                            /\ c \in active'[t] <=> c \in active[t]
  PROVE  Stage(c)' = Stage(c)
BY DEF Stage

\* Steps that touch neither lists nor lives are stutters of ConnLifecycle.
LEMMA Stutter ==
  ASSUME UNCHANGED <<life, thread, listVars>>
  PROVE  UNCHANGED Lifecycle!vars
BY StageFrame DEF Lifecycle!vars, listVars

\* A step that moves one connection from one stage to another.
LEMMA StageMove ==
  ASSUME NEW c \in Conns, NEW from, NEW to, Stage(c) = from, Stage(c)' = to,
         \A d \in Conns \ {c} : Stage(d)' = Stage(d), UNCHANGED thread
  PROVE  Lifecycle!Move(c, from, to)
BY DEF Lifecycle!Move

\* Every step of the threads is a step of ConnLifecycle or a stutter.
LEMMA RefinementStep ==
  IInv /\ IInv' /\ [Next]_vars => [Lifecycle!Next]_(Lifecycle!vars)
<1> SUFFICES ASSUME IInv, IInv', [Next]_vars
             PROVE  Lifecycle!Next \/ UNCHANGED Lifecycle!vars
  OBVIOUS
<1>1. ASSUME NEW c \in Conns, NEW f \in Fds, Accept(c, f)
      PROVE  Lifecycle!Accept(c)
  <2>1. \A d \in Conns : Stage(d) # "accepted"
    BY <1>1, AcceptedOnlyInBind DEF Accept, AcceptFd, SetSockaddr
  <2>2. Stage(c) = "unborn"
    BY <1>1, StageOf DEF StageFacts, Accept, AcceptFd, SetSockaddr
  <2>3. Stage(c)' = "accepted"
    BY <1>1, StageOfNext DEF StageFacts, Accept, AcceptFd, SetSockaddr
  <2>4. \A d \in Conns \ {c} : Stage(d)' = Stage(d)
    BY <1>1, StageFrame DEF Accept, AcceptFd, SetSockaddr, listVars, IInv,
     TypeOK
  <2> QED
    BY <1>1, <2>1, <2>2, <2>3, <2>4, StageMove DEF Accept, AcceptFd,
     SetSockaddr, Lifecycle!Accept
<1>2. ASSUME NEW c \in Conns, AcceptFails(c)
      PROVE  Lifecycle!Reject(c)
  <2>1. Stage(c) = "unborn" /\ Stage(c)' = "closed"
    BY <1>2, StageOf, StageOfNext DEF StageFacts, AcceptFails, IInv, TypeOK
  <2>2. \A d \in Conns \ {c} : Stage(d)' = Stage(d)
    BY <1>2, StageFrame DEF AcceptFails, listVars, IInv, TypeOK
  <2> QED
    BY <1>2, <2>1, <2>2, StageMove DEF AcceptFails, Lifecycle!Reject
<1>3. CASE AddConnLocked
  <2>1. bindConn \in Conns /\ prev_thd \in Threads
    BY <1>3 DEF AddConnLocked, IInv, TypeOK, ControlOK
  <2>2. Stage(bindConn) = "accepted"
    BY <1>3, <2>1, StageOf DEF StageFacts, AddConnLocked
  <2>3. Stage(bindConn)' = "queued"
    <3>1. newConns \in [Threads -> SUBSET Conns]
      BY DEF IInv, TypeOK
    <3>2. newConns' = [newConns EXCEPT ![prev_thd] = @ \cup {bindConn}]
      BY <1>3 DEF AddConnLocked
    <3>3. bindConn \in newConns'[prev_thd]
      BY <2>1, <3>1, <3>2
    <3> QED
      BY <1>3, <2>1, <3>3, StageOfNext DEF StageFacts, AddConnLocked
  <2>4. \A d \in Conns \ {bindConn} : Stage(d)' = Stage(d)
    BY <1>3, StageFrame DEF AddConnLocked, DelAdd, Del, IInv, TypeOK
  <2>5. Lifecycle!Enqueue(bindConn, prev_thd)
    BY <1>3, <2>1, <2>2, <2>3, <2>4 DEF AddConnLocked, Lifecycle!Enqueue
  <2> QED
    BY <2>1, <2>5 DEF Lifecycle!Next
<1>4. ASSUME NEW t \in Threads, NEW c \in Conns, NEW mode \in EvModes,
             StepPolls(t, c, mode)
      PROVE  Lifecycle!Wait(c)
  <2>1. c \in active[t] /\ thread[c] = t
    BY <1>4, WorkIsOwn DEF StepPolls
  <2>2. c \in polling'[t]
    BY <1>4, <2>1 DEF StepPolls, MoveToPolling, DelAdd, Del
  <2>3. Stage(c) = "served" /\ Stage(c)' = "polled"
    BY <2>1, <2>2, StageOf, StageOfNext DEF StageFacts
  <2>4. \A d \in Conns \ {c} : Stage(d)' = Stage(d)
    BY <1>4, <2>1, StageFrame
    DEF StepPolls, MoveToPolling, DelAdd, Del, IInv, TypeOK
  <2> QED
    BY <1>4, <2>3, <2>4, StageMove DEF StepPolls, Lifecycle!Wait
<1>5. ASSUME NEW t \in Threads, NEW c \in Conns, StepRecycles(t, c)
      PROVE  Lifecycle!Close(c)
  <2>1. c \in active[t] /\ thread[c] = t
    BY <1>5, WorkIsOwn DEF StepRecycles
  <2>2. life'[c] = "freed"
    BY <1>5 DEF StepRecycles, RecycleConn, FreeConn, CloseSocket, IInv, TypeOK
  <2>3. Stage(c) = "served" /\ Stage(c)' = "closed"
    BY <2>1, <2>2, StageOf, StageOfNext DEF StageFacts
  <2>4. \A d \in Conns \ {c} : Stage(d)' = Stage(d)
    BY <1>5, StageFrame
    DEF StepRecycles, RecycleConn, FreeConn, CloseSocket, Del, IInv, TypeOK
  <2> QED
    BY <1>5, <2>3, <2>4, StageMove
    DEF StepRecycles, RecycleConn, FreeConn, CloseSocket, Lifecycle!Close
<1>6. ASSUME NEW t \in Threads, NEW c \in Conns, IoCb(t, c)
      PROVE  Lifecycle!Serve(c)
  <2>1. c \in polling[t] /\ thread[c] = t
    BY <1>6, WorkIsOwn DEF IoCb
  <2>2. c \in active'[t]
    BY <1>6, <2>1 DEF IoCb, MoveToActive, DelAdd, Del
  <2>3. Stage(c) = "polled" /\ Stage(c)' = "served"
    BY <2>1, <2>2, StageOf, StageOfNext DEF StageFacts
  <2>4. \A d \in Conns \ {c} : Stage(d)' = Stage(d)
    BY <1>6, <2>1, StageFrame
    DEF IoCb, MoveToActive, DelAdd, Del, IInv, TypeOK
  <2> QED
    BY <1>6, <2>3, <2>4, StageMove DEF IoCb, Lifecycle!Serve
<1>7. ASSUME NEW t \in Threads, NewConnCb(t)
      PROVE  Lifecycle!TakeOver(t)
  <2>1. ASSUME NEW c \in newConns[t]
        PROVE  /\ c \in Conns /\ thread[c] = t
               /\ Stage(c) = "queued" /\ Stage(c)' = "polled"
    <3>1. c \in Conns /\ thread[c] = t
      BY <2>1 DEF IInv, TypeOK, OneHome, InList
    <3>2. c \in polling'[t]
      BY <1>7, <2>1, <3>1 DEF NewConnCb, NewConnCbDone
    <3> QED
      BY <3>1, <3>2, StageOf, StageOfNext DEF StageFacts
  <2>2. ASSUME NEW c \in Conns \ newConns[t]
        PROVE  /\ Stage(c)' = Stage(c)
               /\ ~(Stage(c) = "queued" /\ thread[c] = t)
    <3>1. Stage(c)' = Stage(c)
      BY <1>7, <2>2, StageFrame DEF NewConnCb, NewConnCbDone, IInv, TypeOK
    <3>2. ASSUME Stage(c) = "queued" PROVE thread[c] # t
      <4>1. PICK u \in Threads : c \in newConns[u]
        BY <3>2 DEF Stage
      <4> QED
        BY <4>1, <2>2 DEF IInv, OneHome, InList
    <3> QED
      BY <3>1, <3>2
  <2> QED
    BY <1>7, <2>1, <2>2 DEF NewConnCb, NewConnCbDone, Lifecycle!TakeOver
<1>8. ASSUME \/ \E c \in Conns : EventArrives(c)
             \/ AddConnUnlock \/ AddConnSignal
             \/ \E t \in Threads :
                  \/ \E c \in Conns : StepStays(t, c)
                  \/ PassDone(t) \/ EvRun(t) \/ EvRunDone(t)
                  \/ NewConnCbLock(t)
             \/ UNCHANGED vars
      PROVE  UNCHANGED Lifecycle!vars
  <2>1. UNCHANGED <<life, thread, listVars>>
    BY <1>8 DEF EventArrives, AddConnUnlock, AddConnSignal, StepStays,
     PassDone,
                EvRun, EvRunDone, NewConnCbLock, connVars, vars
  <2> QED
    BY <2>1, Stutter
<1> QED
  BY <1>1, <1>2, <1>3, <1>4, <1>5, <1>6, <1>7, <1>8
  DEF Next, AddConn, ThreadMain, Lifecycle!Next

\* The accept callback and the worker threads implement ConnLifecycle: one
\* owner for life, polled before served, closed only while served, never
\* reopened.
THEOREM Refinement == SafetySpec => LifecycleKept
<1>1. Init => Lifecycle!Init
  BY DEF Init, Lifecycle!Init, Stage
<1> QED
  BY <1>1, RefinementStep, Invariance, PTL
  DEF SafetySpec, LifecycleKept, Lifecycle!Spec
=============================================================================
