---------------------------- MODULE WorkerProofs ----------------------------
(***************************************************************************)
(* Proofs about Worker, for every debounce window, interval and number of  *)
(* gestures, and for accounts that may be unusable or "Manual only".       *)
(*                                                                         *)
(* PromptFlush rests on Armed: the age of an intent and what is left of    *)
(* the window never exceed the window together, or else the request that   *)
(* arms the window is still on its way and no time has passed.             *)
(* WifiOnlyKept and GoesByTheFile rest on Known: the last word on a        *)
(* setting that is on its way, or the worker's own copy when there is      *)
(* none, agrees with the account file.  That no spinner is orphaned is a   *)
(* fact about single steps; that none is ever dropped, with accounts that  *)
(* open, rests on Opened: an account comes before whatever needs it.       *)
(***************************************************************************)
EXTENDS Worker, SequenceTheorems, TLAPS

Commands == [do : Names, arg : BOOLEAN]
Publishing == {"publishing", "handingOver"}

\* A request for a flush is in the channel.
FlushAsked(q) == \E i \in 1..Len(q) : q[i].do = "FlushOutbox"

\* A command that ends with the flag lowered is in the channel.
EndAsked(q) == \E i \in 1..Len(q) : q[i].do \in {"Sync", "Shutdown"}

\* The setting n the worker will have when it has taken all of q, now having w, is b.
WillHear(n, q, w, b) ==
    \E k \in 0..Len(q) :
        /\ \A j \in 1..Len(q) : j > k => q[j].do # n
        /\ k = 0 => w = b
        /\ k > 0 => q[k].do = n /\ q[k].arg = b

InWindow ==
    /\ flushDue # None => flushDue <= Debounce
    /\ age # None => age <= Debounce

Armed ==
    age # None /\ HasAccount /\ pc # "stopped" =>
        \/ flushDue # None /\ age + flushDue <= Debounce
        \/ age = 0 /\ ui = "tapped"
        \/ age = 0 /\ FlushAsked(queue)

Known ==
    pc # "stopped" /\ ui \notin Publishing =>
        /\ WillHear("SetWifiOnly", queue, wifiOnly, account.wifiOnly)
        /\ WillHear("SetSyncInterval", queue, timed, account.timed)

Scheduled == timed <=> nextSync # None

Inv == TypeOK /\ InWindow /\ Armed /\ Known /\ Scheduled

\* With accounts that open: the worker has one, or takes one next.
Opened == HasAccount \/ pc = "stopped" \/ (queue # <<>> /\ Head(queue).do = "Configure")

\* A spinner on the screen comes down with the next poll that finds the flag lowered,
\* and somebody has the lowering of a raised one in hand.
Tethered == shown => told /\ Owned

-----------------------------------------------------------------------------

\* What the account sends is made of commands, and ends in its two settings.
LEMMA AccountCommandsType ==
    ASSUME NEW a \in [timed : BOOLEAN, wifiOnly : BOOLEAN]
    PROVE  /\ AccountCommands(a) \in Seq(Commands)
           /\ Tail(AccountCommands(a)) \in Seq(Commands)
           /\ Len(AccountCommands(a)) = 3
           /\ AccountCommands(a)[1].do = "Configure"
           /\ AccountCommands(a)[2].do = "SetSyncInterval"
           /\ AccountCommands(a)[2].arg = a.timed
           /\ AccountCommands(a)[3].do = "SetWifiOnly"
           /\ AccountCommands(a)[3].arg = a.wifiOnly
  BY DEF AccountCommands, Ask, Command, Commands, Names

\* Appending keeps what the channel asks for.
LEMMA AppendKeeps ==
    ASSUME NEW q \in Seq(Commands), NEW c \in Commands
    PROVE  /\ Append(q, c) \in Seq(Commands)
           /\ FlushAsked(q) \/ c.do = "FlushOutbox" => FlushAsked(Append(q, c))
           /\ EndAsked(q) \/ c.do \in {"Sync", "Shutdown"} => EndAsked(Append(q, c))
  BY DEF FlushAsked, EndAsked

\* ... and what the worker will hear, unless that is what is appended.
LEMMA AppendHears ==
    ASSUME NEW q \in Seq(Commands), NEW c \in Commands, NEW n, c.do # n, NEW w, NEW b,
           WillHear(n, q, w, b)
    PROVE  WillHear(n, Append(q, c), w, b)
  BY DEF WillHear

\* Taking a command keeps the others.
LEMMA TailKeeps ==
    ASSUME NEW q \in Seq(Commands), q # <<>>
    PROVE  /\ Tail(q) \in Seq(Commands)
           /\ Head(q) \in Commands
           /\ FlushAsked(q) /\ Head(q).do # "FlushOutbox" => FlushAsked(Tail(q))
           /\ EndAsked(q) /\ Head(q).do \notin {"Sync", "Shutdown"} => EndAsked(Tail(q))
  <1>1. Len(q) \in Nat /\ Len(q) > 0 /\ Head(q) = q[1] /\ Len(Tail(q)) = Len(q) - 1
    OBVIOUS
  <1>2. \A i \in 1..Len(Tail(q)) : Tail(q)[i] = q[i + 1]
    OBVIOUS
  <1>3. Tail(q) \in Seq(Commands) /\ Head(q) \in Commands
    OBVIOUS
  <1>4. ASSUME NEW i \in 1..Len(q), q[i].do # Head(q).do
        PROVE  i - 1 \in 1..Len(Tail(q)) /\ Tail(q)[i - 1] = q[i]
    BY <1>1, <1>2, <1>4
  <1>5. FlushAsked(q) /\ Head(q).do # "FlushOutbox" => FlushAsked(Tail(q))
    BY <1>4 DEF FlushAsked
  <1>6. EndAsked(q) /\ Head(q).do \notin {"Sync", "Shutdown"} => EndAsked(Tail(q))
    BY <1>4 DEF EndAsked
  <1> QED
    BY <1>3, <1>5, <1>6

\* The worker takes a command: if it is the setting, it has it now.
LEMMA TailHears ==
    ASSUME NEW q \in Seq(Commands), q # <<>>, NEW n, NEW w, NEW b, WillHear(n, q, w, b)
    PROVE  /\ Head(q).do # n => WillHear(n, Tail(q), w, b)
           /\ Head(q).do = n => WillHear(n, Tail(q), Head(q).arg, b)
  <1>1. Len(q) \in Nat /\ Len(q) > 0 /\ Head(q) = q[1] /\ Len(Tail(q)) = Len(q) - 1
    OBVIOUS
  <1>2. \A i \in 1..Len(Tail(q)) : Tail(q)[i] = q[i + 1]
    OBVIOUS
  <1>3. PICK k \in 0..Len(q) :
          /\ \A j \in 1..Len(q) : j > k => q[j].do # n
          /\ k = 0 => w = b
          /\ k > 0 => q[k].do = n /\ q[k].arg = b
    BY DEF WillHear
  <1>4. ASSUME NEW m \in 0..Len(Tail(q)), m + 1 >= k, NEW j \in 1..Len(Tail(q)), j > m
        PROVE  Tail(q)[j].do # n
    <2>1. j + 1 \in 1..Len(q) /\ j + 1 > k /\ Tail(q)[j] = q[j + 1]
      BY <1>1, <1>2, <1>4
    <2> QED
      BY <1>3, <2>1
  <1>5. CASE k \in {0, 1}
    <2>1. 0 \in 0..Len(Tail(q)) /\ 0 + 1 >= k
      BY <1>1, <1>5
    <2>2. \A j \in 1..Len(Tail(q)) : j > 0 => Tail(q)[j].do # n
      BY <1>4, <2>1
    <2>3. Head(q).do # n => w = b
      BY <1>1, <1>3, <1>5
    <2>4. Head(q).do = n => Head(q).arg = b
      BY <1>1, <1>3, <1>5
    <2>5. ASSUME NEW x, x = b
          PROVE  WillHear(n, Tail(q), x, b)
      BY <2>1, <2>2, <2>5 DEF WillHear
    <2> QED
      BY <2>3, <2>4, <2>5
  <1>6. CASE k > 1
    <2>1. k - 1 \in 0..Len(Tail(q)) /\ (k - 1) + 1 >= k /\ k - 1 > 0
      BY <1>1, <1>6
    <2>2. Tail(q)[k - 1] = q[k]
      BY <1>1, <1>2, <1>6
    <2>3. \A j \in 1..Len(Tail(q)) : j > k - 1 => Tail(q)[j].do # n
      BY <1>4, <2>1
    <2>4. \A x : WillHear(n, Tail(q), x, b)
      BY <1>3, <1>6, <2>1, <2>2, <2>3 DEF WillHear
    <2> QED
      BY <2>4
  <1> QED
    BY <1>5, <1>6

\* A setting that s settles is settled by whatever ends in s, ...
LEMMA ConcatHears ==
    ASSUME NEW q \in Seq(Commands), NEW s \in Seq(Commands), NEW n, NEW w, NEW b,
           \E k \in 1..Len(s) :
               s[k].do = n /\ s[k].arg = b /\ \A j \in 1..Len(s) : j > k => s[j].do # n
    PROVE  WillHear(n, q \o s, w, b)
  <1> PICK k \in 1..Len(s) :
          s[k].do = n /\ s[k].arg = b /\ \A j \in 1..Len(s) : j > k => s[j].do # n
    OBVIOUS
  <1>1. /\ Len(q) \in Nat /\ Len(s) \in Nat /\ Len(q \o s) = Len(q) + Len(s)
        /\ \A i \in 1..Len(s) : (q \o s)[Len(q) + i] = s[i]
    OBVIOUS
  <1>2. Len(q) + k \in 0..Len(q \o s) /\ Len(q) + k > 0
    BY <1>1
  <1>3. (q \o s)[Len(q) + k].do = n /\ (q \o s)[Len(q) + k].arg = b
    BY <1>1
  <1>4. ASSUME NEW j \in 1..Len(q \o s), j > Len(q) + k
        PROVE  (q \o s)[j].do # n
    <2>1. j - Len(q) \in 1..Len(s) /\ j - Len(q) > k /\ Len(q) + (j - Len(q)) = j
      BY <1>1, <1>4
    <2>2. (q \o s)[j] = s[j - Len(q)]
      BY <1>1, <2>1
    <2> QED
      BY <2>1, <2>2
  <1> QED
    BY <1>2, <1>3, <1>4 DEF WillHear

\* ... and appending s loses no request.
LEMMA ConcatKeeps ==
    ASSUME NEW q \in Seq(Commands), NEW s \in Seq(Commands)
    PROVE  /\ q \o s \in Seq(Commands)
           /\ FlushAsked(q) => FlushAsked(q \o s)
           /\ EndAsked(q) => EndAsked(q \o s)
  <1>1. /\ q \o s \in Seq(Commands)
        /\ Len(q) \in Nat /\ Len(s) \in Nat
        /\ Len(q \o s) = Len(q) + Len(s)
        /\ \A i \in 1..Len(q) : (q \o s)[i] = q[i]
    OBVIOUS
  <1> QED
    BY <1>1 DEF FlushAsked, EndAsked

\* What publishing settings appends, the account's commands or the settings alone,
\* is the last word on both.
LEMMA Published ==
    ASSUME NEW a \in [timed : BOOLEAN, wifiOnly : BOOLEAN],
           NEW q \in Seq(Commands), NEW w, NEW t, NEW s \in Seq(Commands),
           s = AccountCommands(a) \/ s = Tail(AccountCommands(a))
    PROVE  /\ q \o s \in Seq(Commands)
           /\ FlushAsked(q) => FlushAsked(q \o s)
           /\ EndAsked(q) => EndAsked(q \o s)
           /\ WillHear("SetWifiOnly", q \o s, w, a.wifiOnly)
           /\ WillHear("SetSyncInterval", q \o s, t, a.timed)
  <1>1. /\ Len(s) \in {2, 3}
        /\ s[Len(s)].do = "SetWifiOnly" /\ s[Len(s)].arg = a.wifiOnly
        /\ s[Len(s) - 1].do = "SetSyncInterval" /\ s[Len(s) - 1].arg = a.timed
    <2>1. CASE s = AccountCommands(a)
      <3>1. /\ Len(s) = 3
            /\ s[3] = [do |-> "SetWifiOnly", arg |-> a.wifiOnly]
            /\ s[2] = [do |-> "SetSyncInterval", arg |-> a.timed]
        BY <2>1 DEF AccountCommands, Ask, Command
      <3> QED
        BY <3>1
    <2>2. CASE s = Tail(AccountCommands(a))
      <3>1. /\ Len(s) = 2
            /\ s[2] = [do |-> "SetWifiOnly", arg |-> a.wifiOnly]
            /\ s[1] = [do |-> "SetSyncInterval", arg |-> a.timed]
        BY <2>2 DEF AccountCommands, Ask, Command
      <3> QED
        BY <3>1
    <2> QED
      BY <2>1, <2>2
  <1>2. /\ Len(s) \in 1..Len(s) /\ Len(s) - 1 \in 1..Len(s)
        /\ \A j \in 1..Len(s) : ~(j > Len(s))
        /\ \A j \in 1..Len(s) : j > Len(s) - 1 => j = Len(s)
    <2>1. \A m \in {2, 3} : /\ m \in 1..m /\ m - 1 \in 1..m
                            /\ \A j \in 1..m : ~(j > m)
                            /\ \A j \in 1..m : j > m - 1 => j = m
      OBVIOUS
    <2> QED
      BY <1>1, <2>1
  <1>3. WillHear("SetWifiOnly", q \o s, w, a.wifiOnly)
    <2>1. \E k \in 1..Len(s) : /\ s[k].do = "SetWifiOnly" /\ s[k].arg = a.wifiOnly
                               /\ \A j \in 1..Len(s) : j > k => s[j].do # "SetWifiOnly"
      BY <1>1, <1>2
    <2> QED
      BY <2>1, ConcatHears
  <1>4. \A j \in 1..Len(s) : j > Len(s) - 1 => s[j].do # "SetSyncInterval"
    BY <1>1, <1>2
  <1>5. WillHear("SetSyncInterval", q \o s, t, a.timed)
    <2>1. \E k \in 1..Len(s) : /\ s[k].do = "SetSyncInterval" /\ s[k].arg = a.timed
                               /\ \A j \in 1..Len(s) : j > k => s[j].do # "SetSyncInterval"
      BY <1>1, <1>2, <1>4
    <2> QED
      BY <2>1, ConcatHears
  <1> QED
    BY <1>3, <1>5, ConcatKeeps

\* A new process is told both settings.
LEMMA LaunchHears ==
    ASSUME NEW a \in [timed : BOOLEAN, wifiOnly : BOOLEAN], NEW w, NEW t
    PROVE  /\ WillHear("SetWifiOnly", AccountCommands(a), w, a.wifiOnly)
           /\ WillHear("SetSyncInterval", AccountCommands(a), t, a.timed)
  <1> DEFINE q == AccountCommands(a)
  <1>1. /\ Len(q) = 3 /\ q[2].do = "SetSyncInterval" /\ q[2].arg = a.timed
        /\ q[3].do = "SetWifiOnly" /\ q[3].arg = a.wifiOnly
    BY AccountCommandsType
  <1> HIDE DEF q
  <1>2. WillHear("SetWifiOnly", q, w, a.wifiOnly)
    <2>1. 3 \in 0..Len(q) /\ \A j \in 1..Len(q) : ~(j > 3)
      BY <1>1
    <2> QED
      BY <1>1, <2>1 DEF WillHear
  <1>3. WillHear("SetSyncInterval", q, t, a.timed)
    <2>1. 2 \in 0..Len(q) /\ \A j \in 1..Len(q) : j > 2 => j = 3
      BY <1>1
    <2> QED
      BY <1>1, <2>1 DEF WillHear
  <1> QED
    BY <1>2, <1>3 DEF q

\* A deadline that comes nearer stays a deadline.
LEMMA LessType ==
    ASSUME NEW d \in Nat \cup {None}
    PROVE  /\ Less(d) \in Nat \cup {None}
           /\ Less(d) = None <=> d = None
           /\ d # None => Less(d) <= d
           /\ d # None /\ d # 0 => Less(d) = d - 1
  <1> USE ConstantsAssumption
  <1>1. CASE d = None
    BY <1>1 DEF Less
  <1>2. CASE d \in Nat
    BY <1>2 DEF Less
  <1> QED
    BY <1>1, <1>2

-----------------------------------------------------------------------------

\* Every step keeps the flags flags.
LEMMA FlagsStep ==
    ASSUME TypeOK, [Next]_vars
    PROVE  FlagsOK'
  <1> USE ConstantsAssumption
  <1>q. queue \in Seq(Commands)
    BY DEF TypeOK, StateOK, Commands
  <1>f. FlagsOK
    BY DEF TypeOK
  <1> USE <1>f
  <1>1. CASE SendFlush
    BY <1>1 DEF SendFlush, Ask, Command, FlagsOK, screen, worker, opened, settings, deadlines, bounds
  <1>2. CASE SendSync
    BY <1>2 DEF SendSync, Ask, Command, FlagsOK, screen, worker, opened, settings, deadlines, bounds
  <1>3. CASE RecordSpinner
    BY <1>3 DEF RecordSpinner, FlagsOK, screen, worker, opened, settings, deadlines, bounds
  <1>4. CASE PublishSettings
    BY <1>4 DEF PublishSettings, FlagsOK, screen, worker, opened, settings, deadlines, bounds
  <1>5. CASE StopWatching
    BY <1>5 DEF StopWatching, FlagsOK, screen, worker, opened, settings, deadlines, bounds
  <1>6. CASE Joined
    BY <1>6 DEF Joined, FlagsOK, screen, worker, opened, settings, deadlines, bounds
  <1>7. CASE Tap
    BY <1>7 DEF Tap, Gesture, FlagsOK, screen, worker, opened, settings, deadlines, bounds
  <1>8. CASE \E name \in Served \ {"Sync"} : AskOther(name)
    BY <1>8 DEF AskOther, Gesture, Ask, Command, FlagsOK, screen, worker, opened, settings, deadlines, bounds
  <1>9. CASE RequestSync
    BY <1>9 DEF RequestSync, Gesture, FlagsOK, screen, worker, opened, settings, deadlines, bounds
  <1>10. CASE \E a \in [timed : Timings, wifiOnly : BOOLEAN], new \in BOOLEAN : SaveSettings(a, new)
    BY <1>10 DEF SaveSettings, Gesture, Timings, FlagsOK, screen, worker, opened, settings, deadlines, bounds
  <1>11. CASE Minimise
    BY <1>11 DEF Minimise, FlagsOK, screen, worker, opened, settings, deadlines, bounds
  <1>12. CASE Activate
    BY <1>12 DEF Activate, SeeSpinner, FlagsOK, screen, worker, opened, settings, deadlines, bounds
  <1>13. CASE Quit
    BY <1>13 DEF Quit, Ask, Command, FlagsOK, screen, worker, opened, settings, deadlines, bounds
  <1>14. CASE Kill
    BY <1>14 DEF Kill, FlagsOK, screen, worker, opened, settings, deadlines, bounds
  <1>15. CASE Launch
    BY <1>15 DEF Launch, FlagsOK, screen, worker, opened, settings, deadlines, bounds
  <1>16. CASE Poll
    BY <1>16 DEF Poll, Polling, SeeSpinner, FlagsOK, screen, worker, opened, settings, deadlines, bounds
  <1>17. CASE TakeFlush
    BY <1>17 DEF TakeFlush, Taking, ArmFlush, FlagsOK, screen, worker, opened, settings, deadlines, bounds
  <1>18. CASE TakeShutdown
    BY <1>18 DEF TakeShutdown, FlagsOK, screen, worker, opened, settings, deadlines, bounds
  <1>19. CASE TakeConfigure
    BY <1>19, TailKeeps, <1>q DEF TakeConfigure, Taking, Opens, Commands, FlagsOK, screen, worker, opened, settings, deadlines, bounds
  <1>20. CASE TakeInterval
    BY <1>20, TailKeeps, <1>q DEF TakeInterval, Taking, Commands, FlagsOK, screen, worker, opened, settings, deadlines, bounds
  <1>21. CASE TakeWifiOnly
    BY <1>21, TailKeeps, <1>q DEF TakeWifiOnly, Taking, Commands, FlagsOK, screen, worker, opened, settings, deadlines, bounds
  <1>22. CASE DropCommand
    BY <1>22 DEF DropCommand, Taking, FlagsOK, screen, worker, opened, settings, deadlines, bounds
  <1>23. CASE TakeServed
    BY <1>23 DEF TakeServed, Taking, Serve, ReadOutbox, FlagsOK, screen, worker, opened, settings, deadlines, bounds
  <1>24. CASE StartDueWork
    BY <1>24 DEF StartDueWork, FallingDue, Serve, ReadOutbox, DueWork, Due, FlagsOK, screen, worker, opened, settings, deadlines, bounds
  <1>32. CASE DropDueWork
    BY <1>32 DEF DropDueWork, DueWork, FlagsOK, screen, opened, settings, bounds
  <1>25. CASE PostponeDueWork
    BY <1>25 DEF PostponeDueWork, FallingDue, NextInterval, FlagsOK, screen, worker, opened, settings, deadlines, bounds
  <1>26. CASE SyncSubscribed
    BY <1>26 DEF SyncSubscribed, ReadOutbox, FlagsOK, screen, worker, opened, settings, deadlines, bounds
  <1>27. CASE EndCommand
    BY <1>27 DEF EndCommand, NextInterval, FlagsOK, screen, worker, opened, settings, deadlines, bounds
  <1>28. CASE ClearSpinner
    BY <1>28 DEF ClearSpinner, FlagsOK, screen, worker, opened, settings, deadlines, bounds
  <1>29. CASE Tick
    BY <1>29 DEF Tick, Less, FlagsOK, screen, worker, opened, settings, deadlines, bounds
  <1>30. CASE \E n \in {"wifi", "metered", "offline"} : Roam(n)
    BY <1>30 DEF Roam, FlagsOK, screen, worker, opened, settings, deadlines, bounds
  <1>31. CASE UNCHANGED vars
    BY <1>31 DEF vars, FlagsOK, screen, worker, opened, settings, deadlines, bounds
  <1> QED
    BY <1>1, <1>2, <1>3, <1>4, <1>5, <1>6, <1>7, <1>8, <1>9, <1>10, <1>11, <1>12, <1>13, <1>14, <1>15, <1>16, <1>17, <1>18, <1>19, <1>20, <1>21, <1>22, <1>23, <1>24, <1>25, <1>26, <1>27, <1>28, <1>29, <1>30, <1>31, <1>32
       DEF Next, Handler, User, Loop, Environment

\* Every step keeps the rest of the state in its types.
LEMMA StateStep ==
    ASSUME TypeOK, [Next]_vars
    PROVE  StateOK'
  <1> USE ConstantsAssumption
  <1>q. queue \in Seq(Commands)
    BY DEF TypeOK, StateOK, Commands
  <1>a. account \in [timed : BOOLEAN, wifiOnly : BOOLEAN]
    BY DEF TypeOK, FlagsOK
  <1>f. StateOK
    BY DEF TypeOK
  <1> USE <1>f
  <1>1. CASE SendFlush
    BY <1>1, AppendKeeps, <1>q DEF SendFlush, Ask, Command, StateOK, Commands, Names, Served, screen, worker, opened, settings, deadlines, bounds
  <1>2. CASE SendSync
    BY <1>2, AppendKeeps, <1>q DEF SendSync, Ask, Command, StateOK, Commands, Names, Served, screen, worker, opened, settings, deadlines, bounds
  <1>3. CASE RecordSpinner
    BY <1>3 DEF RecordSpinner, StateOK, screen, worker, opened, settings, deadlines, bounds
  <1>4. CASE PublishSettings
    <2>1. queue' \in Seq(Commands)
      BY <1>q, <1>a, <1>4, Published, AccountCommandsType DEF PublishSettings
    <2> QED
      BY <1>4, <2>1 DEF PublishSettings, StateOK, Commands, screen, worker, opened, settings, deadlines, bounds
  <1>5. CASE StopWatching
    BY <1>5 DEF StopWatching, StateOK, screen, worker, opened, settings, deadlines, bounds
  <1>6. CASE Joined
    BY <1>6 DEF Joined, StateOK, screen, worker, opened, settings, deadlines, bounds
  <1>7. CASE Tap
    BY <1>7 DEF Tap, Gesture, StateOK, screen, worker, opened, settings, deadlines, bounds
  <1>8. CASE \E name \in Served \ {"Sync"} : AskOther(name)
    BY <1>8, AppendKeeps, <1>q DEF AskOther, Gesture, Ask, Command, StateOK, Commands, Names, Served, screen, worker, opened, settings, deadlines, bounds
  <1>9. CASE RequestSync
    BY <1>9 DEF RequestSync, Gesture, StateOK, screen, worker, opened, settings, deadlines, bounds
  <1>10. CASE \E a \in [timed : Timings, wifiOnly : BOOLEAN], new \in BOOLEAN : SaveSettings(a, new)
    <2>1. /\ ui' \in {"publishing", "handingOver"}
          /\ gestures' = gestures + 1
          /\ UNCHANGED <<queue, outbox, pc, command, nextSync, flushDue, age, network, launches>>
      BY <1>10 DEF SaveSettings, Gesture, worker, deadlines
    <2> QED
      BY <2>1 DEF StateOK
  <1>11. CASE Minimise
    BY <1>11 DEF Minimise, StateOK, screen, worker, opened, settings, deadlines, bounds
  <1>12. CASE Activate
    BY <1>12 DEF Activate, SeeSpinner, StateOK, screen, worker, opened, settings, deadlines, bounds
  <1>13. CASE Quit
    BY <1>13, AppendKeeps, <1>q DEF Quit, Ask, Command, StateOK, Commands, Names, Served, screen, worker, opened, settings, deadlines, bounds
  <1>14. CASE Kill
    BY <1>14 DEF Kill, StateOK, screen, worker, opened, settings, deadlines, bounds
  <1>15. CASE Launch
    <2>1. queue' = AccountCommands(account)
      BY <1>15 DEF Launch
    <2>2. queue' \in Seq(Commands)
      BY <1>a, <2>1, AccountCommandsType
    <2> QED
      BY <1>15, <2>2 DEF Launch, StateOK, Commands
  <1>16. CASE Poll
    BY <1>16 DEF Poll, Polling, SeeSpinner, StateOK, screen, worker, opened, settings, deadlines, bounds
  <1>17. CASE TakeFlush
    BY <1>17, TailKeeps, <1>q DEF TakeFlush, Taking, ArmFlush, StateOK, Commands, Names, Served, screen, worker, opened, settings, deadlines, bounds
  <1>18. CASE TakeShutdown
    <2>1. queue' \in Seq(Commands)
      BY <1>18 DEF TakeShutdown
    <2> QED
      BY <1>18, <2>1 DEF TakeShutdown, StateOK, Commands, screen, opened, settings, deadlines, bounds
  <1>19. CASE TakeConfigure
    <2>1. queue' \in Seq(Commands)
      BY <1>19, <1>q, TailKeeps DEF TakeConfigure, Taking
    <2>2. nextSync' \in Nat \cup {None}
      BY <1>19 DEF TakeConfigure, NextSyncDelays
    <2>3. flushDue' \in Nat \cup {None} /\ age' \in Nat \cup {None}
      BY <1>19 DEF TakeConfigure
    <2> QED
      BY <1>19, <2>1, <2>2, <2>3 DEF TakeConfigure, Taking, StateOK, Commands, screen, opened, settings, deadlines, bounds
  <1>20. CASE TakeInterval
    <2>1. queue' \in Seq(Commands)
      BY <1>20, <1>q, TailKeeps DEF TakeInterval, Taking
    <2>2. nextSync' \in Nat \cup {None}
      BY <1>20 DEF TakeInterval, NextSyncDelays
    <2> QED
      BY <1>20, <2>1, <2>2 DEF TakeInterval, Taking, StateOK, Commands, screen, opened, settings, deadlines, bounds
  <1>21. CASE TakeWifiOnly
    BY <1>21, TailKeeps, <1>q DEF TakeWifiOnly, Taking, StateOK, Commands, Names, Served, screen, worker, opened, settings, deadlines, bounds
  <1>22. CASE DropCommand
    BY <1>22, TailKeeps, <1>q DEF DropCommand, Taking, StateOK, Commands, Names, Served, screen, worker, opened, settings, deadlines, bounds
  <1>23. CASE TakeServed
    BY <1>23, TailKeeps, <1>q DEF TakeServed, Taking, Serve, ReadOutbox, StateOK, Commands, Names, Served, screen, worker, opened, settings, deadlines, bounds
  <1>24. CASE StartDueWork
    <2>1. command' \in {"Sync", "FlushOutbox"} /\ pc' = "serving"
      BY <1>24 DEF StartDueWork, Serve, DueWork
    <2>2. outbox' \in {outbox, "tried"} /\ age' = None /\ flushDue' = None
      BY <1>24, <2>1 DEF StartDueWork, Serve, ReadOutbox, DueWork
    <2> QED
      BY <1>24, <2>1, <2>2 DEF StartDueWork, StateOK, Served, screen, opened, settings, bounds
  <1>32. CASE DropDueWork
    BY <1>32 DEF DropDueWork, StateOK, Commands, screen, opened, settings, bounds
  <1>25. CASE PostponeDueWork
    BY <1>25 DEF PostponeDueWork, FallingDue, NextInterval, StateOK, screen, worker, opened, settings, deadlines, bounds
  <1>26. CASE SyncSubscribed
    BY <1>26 DEF SyncSubscribed, ReadOutbox, StateOK, screen, worker, opened, settings, deadlines, bounds
  <1>27. CASE EndCommand
    BY <1>27 DEF EndCommand, NextInterval, StateOK, screen, worker, opened, settings, deadlines, bounds
  <1>28. CASE ClearSpinner
    BY <1>28 DEF ClearSpinner, StateOK, screen, worker, opened, settings, deadlines, bounds
  <1>29. CASE Tick
    <2>1. nextSync' \in Nat \cup {None} /\ flushDue' \in Nat \cup {None}
      BY <1>29, LessType DEF Tick, StateOK
    <2>2. age' \in Nat \cup {None}
      <3>1. CASE age = None
        BY <1>29, <3>1 DEF Tick
      <3>2. CASE age \in Nat
        BY <1>29, <3>2 DEF Tick
      <3> QED
        BY <3>1, <3>2 DEF StateOK
    <2> QED
      BY <1>29, <2>1, <2>2 DEF Tick, StateOK, screen, opened, settings, bounds
  <1>30. CASE \E n \in {"wifi", "metered", "offline"} : Roam(n)
    BY <1>30 DEF Roam, StateOK, screen, worker, opened, settings, deadlines, bounds
  <1>31. CASE UNCHANGED vars
    BY <1>31 DEF vars, StateOK, screen, worker, opened, settings, deadlines, bounds
  <1> QED
    BY <1>1, <1>2, <1>3, <1>4, <1>5, <1>6, <1>7, <1>8, <1>9, <1>10, <1>11, <1>12, <1>13, <1>14, <1>15, <1>16, <1>17, <1>18, <1>19, <1>20, <1>21, <1>22, <1>23, <1>24, <1>25, <1>26, <1>27, <1>28, <1>29, <1>30, <1>31, <1>32
       DEF Next, Handler, User, Loop, Environment

\* No step lets an intent wait beyond the window: the request that arms it, or the
\* window itself, is carried along by every action.
LEMMA WindowStep ==
    ASSUME TypeOK, InWindow, Armed, [Next]_vars
    PROVE  InWindow' /\ Armed'
  <1> USE ConstantsAssumption
  <1>q. queue \in Seq(Commands)
    BY DEF TypeOK, StateOK, Commands
  <1>t. flushDue \in Nat \cup {None} /\ age \in Nat \cup {None}
    BY DEF TypeOK, StateOK
  <1>a. account \in [timed : BOOLEAN, wifiOnly : BOOLEAN]
    BY DEF TypeOK, FlagsOK
  <1> USE <1>t
  <1>1. CASE SendFlush
    <2>1. Ask("FlushOutbox") \in Commands /\ Ask("FlushOutbox").do = "FlushOutbox"
      BY DEF Ask, Command, Commands, Names
    <2> QED
      BY <1>1, <1>q, <2>1, AppendKeeps DEF SendFlush, InWindow, Armed, HasAccount, worker, screen, opened, settings, deadlines
  <1>2. CASE SendSync
    <2>1. Ask("Sync") \in Commands /\ Ask("Sync").do = "Sync"
      BY DEF Ask, Command, Commands, Names, Served
    <2> QED
      BY <1>2, <1>q, <2>1, AppendKeeps DEF SendSync, InWindow, Armed, HasAccount, worker, screen, opened, settings, deadlines
  <1>3. CASE RecordSpinner
    BY <1>3 DEF RecordSpinner, InWindow, Armed, HasAccount, screen, worker, opened, settings, deadlines, bounds
  <1>4. CASE PublishSettings
    <2>1. FlushAsked(queue) => FlushAsked(queue')
      BY <1>q, <1>a, <1>4, Published, AccountCommandsType DEF PublishSettings
    <2> QED
      BY <1>4, <2>1 DEF PublishSettings, InWindow, Armed, HasAccount, worker, opened, deadlines
  <1>5. CASE StopWatching
    BY <1>5 DEF StopWatching, InWindow, Armed, HasAccount, screen, worker, opened, settings, deadlines, bounds
  <1>6. CASE Joined
    BY <1>6 DEF Joined, InWindow, Armed, HasAccount, screen, worker, opened, settings, deadlines, bounds
  <1>7. CASE Tap
    BY <1>7 DEF Tap, Gesture, InWindow, Armed, HasAccount, screen, worker, opened, settings, deadlines, bounds
  <1>8. CASE \E name \in Served \ {"Sync"} : AskOther(name)
    <2>1. PICK name \in Served \ {"Sync"} : AskOther(name)
      BY <1>8
    <2>2. Ask(name) \in Commands /\ Ask(name).do \notin {"SetWifiOnly", "FlushOutbox"}
      BY DEF Ask, Command, Commands, Names, Served
    <2> QED
      BY <1>q, <2>1, <2>2, AppendKeeps DEF AskOther, Gesture, InWindow, Armed, HasAccount, worker, screen, opened, settings, deadlines
  <1>9. CASE RequestSync
    BY <1>9 DEF RequestSync, Gesture, InWindow, Armed, HasAccount, screen, worker, opened, settings, deadlines, bounds
  <1>10. CASE \E a \in [timed : Timings, wifiOnly : BOOLEAN], new \in BOOLEAN : SaveSettings(a, new)
    BY <1>10 DEF SaveSettings, Gesture, Timings, InWindow, Armed, HasAccount, screen, worker, opened, settings, deadlines, bounds
  <1>11. CASE Minimise
    BY <1>11 DEF Minimise, InWindow, Armed, HasAccount, screen, worker, opened, settings, deadlines, bounds
  <1>12. CASE Activate
    BY <1>12 DEF Activate, InWindow, Armed, HasAccount, screen, worker, opened, settings, deadlines, bounds
  <1>13. CASE Quit
    <2>1. Ask("Shutdown") \in Commands /\ Ask("Shutdown").do = "Shutdown"
      BY DEF Ask, Command, Commands, Names
    <2> QED
      BY <1>13, <1>q, <2>1, AppendKeeps DEF Quit, InWindow, Armed, HasAccount, worker, screen, opened, settings, deadlines
  <1>14. CASE Kill
    BY <1>14 DEF Kill, InWindow, Armed, HasAccount, screen, worker, opened, settings, deadlines, bounds
  <1>15. CASE Launch
    BY <1>15 DEF Launch, InWindow, Armed, HasAccount, screen, worker, opened, settings, deadlines, bounds
  <1>16. CASE Poll
    BY <1>16 DEF Poll, InWindow, Armed, HasAccount, screen, worker, opened, settings, deadlines, bounds
  <1>17. CASE TakeFlush
    BY <1>17, <1>q, TailKeeps DEF TakeFlush, Taking, ArmFlush, InWindow, Armed, HasAccount, screen, worker, opened, settings, deadlines, bounds
  <1>18. CASE TakeShutdown
    BY <1>18 DEF TakeShutdown, InWindow, Armed, HasAccount, screen, worker, opened, settings, deadlines, bounds
  <1>19. CASE TakeConfigure
    BY <1>19, <1>q, TailKeeps DEF TakeConfigure, Taking, InWindow, Armed, HasAccount, screen, worker, opened, settings, deadlines, bounds
  <1>20. CASE TakeInterval
    BY <1>20, <1>q, TailKeeps DEF TakeInterval, Taking, InWindow, Armed, HasAccount, screen, worker, opened, settings, deadlines, bounds
  <1>21. CASE TakeWifiOnly
    BY <1>21, <1>q, TailKeeps DEF TakeWifiOnly, Taking, InWindow, Armed, HasAccount, screen, worker, opened, settings, deadlines, bounds
  <1>22. CASE DropCommand
    BY <1>22, <1>q, TailKeeps DEF DropCommand, Taking, InWindow, Armed, HasAccount, screen, worker, opened, settings, deadlines, bounds
  <1>23. CASE TakeServed
    BY <1>23, <1>q, TailKeeps DEF TakeServed, Taking, Serve, ReadOutbox, InWindow, Armed, HasAccount, screen, worker, opened, settings, deadlines, bounds
  <1>24. CASE StartDueWork
    BY <1>24 DEF StartDueWork, Serve, ReadOutbox, DueWork, InWindow, Armed, HasAccount, screen, worker, opened, settings, deadlines, bounds
  <1>32. CASE DropDueWork
    BY <1>32 DEF DropDueWork, InWindow, Armed, HasAccount, opened
  <1>25. CASE PostponeDueWork
    BY <1>25 DEF PostponeDueWork, InWindow, Armed, HasAccount, screen, worker, opened, settings, deadlines, bounds
  <1>26. CASE SyncSubscribed
    BY <1>26 DEF SyncSubscribed, ReadOutbox, InWindow, Armed, HasAccount, screen, worker, opened, settings, deadlines, bounds
  <1>27. CASE EndCommand
    BY <1>27 DEF EndCommand, InWindow, Armed, HasAccount, screen, worker, opened, settings, deadlines, bounds
  <1>28. CASE ClearSpinner
    BY <1>28 DEF ClearSpinner, InWindow, Armed, HasAccount, screen, worker, opened, settings, deadlines, bounds
  <1>29. CASE Tick
    <2>1. /\ flushDue' = Less(flushDue) /\ flushDue' \in Nat \cup {None}
          /\ flushDue' = None <=> flushDue = None
          /\ flushDue # None => flushDue' <= flushDue
          /\ flushDue # None /\ flushDue # 0 => flushDue' = flushDue - 1
      BY <1>29, LessType DEF Tick
    <2>2. CASE age # None /\ HasAccount /\ pc = "waiting"
      <3>1. queue = <<>> /\ flushDue # 0 /\ ui # "tapped" /\ age' = age + 1
        BY <1>29, <2>2 DEF Tick, Due, HasAccount
      <3>2. ~FlushAsked(queue)
        BY <3>1 DEF FlushAsked
      <3>3. flushDue # None /\ age + flushDue <= Debounce
        BY <2>2, <3>1, <3>2 DEF Armed
      <3> QED
        BY <2>1, <2>2, <3>1, <3>3 DEF InWindow, Armed, HasAccount
    <2>3. CASE ~(age # None /\ HasAccount /\ pc = "waiting")
      <3>1. UNCHANGED <<age, client, db, pc, ui, queue>>
        BY <1>29, <2>3 DEF Tick, opened
      <3> QED
        BY <2>1, <3>1 DEF InWindow, Armed, HasAccount
    <2> QED
      BY <2>2, <2>3
  <1>30. CASE \E n \in {"wifi", "metered", "offline"} : Roam(n)
    BY <1>30 DEF Roam, InWindow, Armed, HasAccount, screen, worker, opened, settings, deadlines, bounds
  <1>31. CASE UNCHANGED vars
    BY <1>31 DEF vars, InWindow, Armed, HasAccount, screen, worker, opened, settings, deadlines, bounds
  <1> QED
    BY <1>1, <1>2, <1>3, <1>4, <1>5, <1>6, <1>7, <1>8, <1>9, <1>10, <1>11, <1>12, <1>13, <1>14, <1>15, <1>16, <1>17, <1>18, <1>19, <1>20, <1>21, <1>22, <1>23, <1>24, <1>25, <1>26, <1>27, <1>28, <1>29, <1>30, <1>31, <1>32
       DEF Next, Handler, User, Loop, Environment

\* Every step keeps the worker, or what is on its way to it, in agreement with the
\* account file.
LEMMA KnownStep ==
    ASSUME TypeOK, Known, [Next]_vars
    PROVE  Known'
  <1> USE ConstantsAssumption
  <1>q. queue \in Seq(Commands)
    BY DEF TypeOK, StateOK, Commands
  <1>a. account \in [timed : BOOLEAN, wifiOnly : BOOLEAN]
    BY DEF TypeOK, FlagsOK
  <1>1. CASE SendFlush
    <2>1. Ask("FlushOutbox") \in Commands /\ Ask("FlushOutbox").do = "FlushOutbox"
      BY DEF Ask, Command, Commands, Names
    <2> QED
      BY <1>1, <1>q, <2>1, AppendKeeps, AppendHears DEF SendFlush, Known, Publishing, worker, screen, opened, settings, deadlines
  <1>2. CASE SendSync
    <2>1. Ask("Sync") \in Commands /\ Ask("Sync").do = "Sync"
      BY DEF Ask, Command, Commands, Names, Served
    <2> QED
      BY <1>2, <1>q, <2>1, AppendKeeps, AppendHears DEF SendSync, Known, Publishing, worker, screen, opened, settings, deadlines
  <1>3. CASE RecordSpinner
    BY <1>3 DEF RecordSpinner, Known, Publishing, screen, worker, opened, settings, deadlines, bounds
  <1>4. CASE PublishSettings
    <2>1. /\ WillHear("SetWifiOnly", queue', wifiOnly, account.wifiOnly)
          /\ WillHear("SetSyncInterval", queue', timed, account.timed)
      BY <1>q, <1>a, <1>4, Published, AccountCommandsType DEF PublishSettings
    <2> QED
      BY <1>4, <2>1 DEF PublishSettings, Known, worker, settings
  <1>5. CASE StopWatching
    BY <1>5 DEF StopWatching, Known, Publishing, screen, worker, opened, settings, deadlines, bounds
  <1>6. CASE Joined
    BY <1>6 DEF Joined, Known, Publishing, screen, worker, opened, settings, deadlines, bounds
  <1>7. CASE Tap
    BY <1>7 DEF Tap, Gesture, Known, Publishing, screen, worker, opened, settings, deadlines, bounds
  <1>8. CASE \E name \in Served \ {"Sync"} : AskOther(name)
    <2>1. PICK name \in Served \ {"Sync"} : AskOther(name)
      BY <1>8
    <2>2. Ask(name) \in Commands /\ Ask(name).do \notin {"SetWifiOnly", "SetSyncInterval"}
      BY DEF Ask, Command, Commands, Names, Served
    <2> QED
      BY <1>q, <2>1, <2>2, AppendKeeps, AppendHears DEF AskOther, Gesture, Known, Publishing, worker, screen, opened, settings, deadlines
  <1>9. CASE RequestSync
    BY <1>9 DEF RequestSync, Gesture, Known, Publishing, screen, worker, opened, settings, deadlines, bounds
  <1>10. CASE \E a \in [timed : Timings, wifiOnly : BOOLEAN], new \in BOOLEAN : SaveSettings(a, new)
    BY <1>10 DEF SaveSettings, Gesture, Timings, Known, Publishing, screen, worker, opened, settings, deadlines, bounds
  <1>11. CASE Minimise
    BY <1>11 DEF Minimise, Known, Publishing, screen, worker, opened, settings, deadlines, bounds
  <1>12. CASE Activate
    BY <1>12 DEF Activate, Known, Publishing, screen, worker, opened, settings, deadlines, bounds
  <1>13. CASE Quit
    <2>1. Ask("Shutdown") \in Commands /\ Ask("Shutdown").do = "Shutdown"
      BY DEF Ask, Command, Commands, Names
    <2> QED
      BY <1>13, <1>q, <2>1, AppendKeeps, AppendHears DEF Quit, Known, Publishing, worker, screen, opened, settings, deadlines
  <1>14. CASE Kill
    BY <1>14 DEF Kill, Known, Publishing, screen, worker, opened, settings, deadlines, bounds
  <1>15. CASE Launch
    <2>1. queue' = AccountCommands(account)
      BY <1>15 DEF Launch
    <2>2. /\ WillHear("SetWifiOnly", queue', wifiOnly', account.wifiOnly)
          /\ WillHear("SetSyncInterval", queue', timed', account.timed)
      BY <1>a, <2>1, LaunchHears
    <2> QED
      BY <1>15, <2>2 DEF Launch, Known
  <1>16. CASE Poll
    BY <1>16 DEF Poll, Known, Publishing, screen, worker, opened, settings, deadlines, bounds
  <1>17. CASE TakeFlush
    BY <1>17, <1>q, TailKeeps, TailHears DEF TakeFlush, Taking, ArmFlush, Known, Publishing, screen, worker, opened, settings, deadlines, bounds
  <1>18. CASE TakeShutdown
    BY <1>18 DEF TakeShutdown, Known, Publishing, screen, worker, opened, settings, deadlines, bounds
  <1>19. CASE TakeConfigure
    BY <1>19, <1>q, TailKeeps, TailHears DEF TakeConfigure, Taking, Known, Publishing, screen, worker, opened, settings, deadlines, bounds
  <1>20. CASE TakeInterval
    BY <1>20, <1>q, TailKeeps, TailHears DEF TakeInterval, Taking, Known, Publishing, screen, worker, opened, settings, deadlines, bounds
  <1>21. CASE TakeWifiOnly
    BY <1>21, <1>q, TailKeeps, TailHears DEF TakeWifiOnly, Taking, Known, Publishing, screen, worker, opened, settings, deadlines, bounds
  <1>22. CASE DropCommand
    <2>1. queue # <<>> /\ queue' = Tail(queue) /\ Head(queue).do \notin {"SetWifiOnly", "SetSyncInterval"}
      BY <1>22 DEF DropCommand, Taking, Served
    <2>2. UNCHANGED <<ui, pc, timed, wifiOnly, account>>
      BY <1>22 DEF DropCommand, worker, settings
    <2> QED
      BY <1>q, <2>1, <2>2, TailKeeps, TailHears DEF Known
  <1>23. CASE TakeServed
    BY <1>23, <1>q, TailKeeps, TailHears DEF TakeServed, Taking, Serve, ReadOutbox, Known, Publishing, screen, worker, opened, settings, deadlines, bounds
  <1>24. CASE StartDueWork
    <2>1. pc = "waiting" /\ UNCHANGED <<ui, queue, timed, wifiOnly, account>>
      BY <1>24 DEF StartDueWork, FallingDue, settings
    <2> QED
      BY <2>1 DEF Known
  <1>32. CASE DropDueWork
    BY <1>32 DEF DropDueWork, Known, Publishing, settings
  <1>25. CASE PostponeDueWork
    BY <1>25 DEF PostponeDueWork, Known, Publishing, screen, worker, opened, settings, deadlines, bounds
  <1>26. CASE SyncSubscribed
    BY <1>26 DEF SyncSubscribed, ReadOutbox, Known, Publishing, screen, worker, opened, settings, deadlines, bounds
  <1>27. CASE EndCommand
    BY <1>27 DEF EndCommand, Known, Publishing, screen, worker, opened, settings, deadlines, bounds
  <1>28. CASE ClearSpinner
    BY <1>28 DEF ClearSpinner, Known, Publishing, screen, worker, opened, settings, deadlines, bounds
  <1>29. CASE Tick
    BY <1>29 DEF Tick, Known, Publishing, screen, worker, opened, settings, deadlines, bounds
  <1>30. CASE \E n \in {"wifi", "metered", "offline"} : Roam(n)
    BY <1>30 DEF Roam, Known, Publishing, screen, worker, opened, settings, deadlines, bounds
  <1>31. CASE UNCHANGED vars
    BY <1>31 DEF vars, Known, Publishing, screen, worker, opened, settings, deadlines, bounds
  <1> QED
    BY <1>1, <1>2, <1>3, <1>4, <1>5, <1>6, <1>7, <1>8, <1>9, <1>10, <1>11, <1>12, <1>13, <1>14, <1>15, <1>16, <1>17, <1>18, <1>19, <1>20, <1>21, <1>22, <1>23, <1>24, <1>25, <1>26, <1>27, <1>28, <1>29, <1>30, <1>31, <1>32
       DEF Next, Handler, User, Loop, Environment

\* A sync lies ahead exactly when there is an interval, whatever ends, falls due or is
\* put off.
LEMMA ScheduledStep ==
    ASSUME TypeOK, Scheduled, [Next]_vars
    PROVE  Scheduled'
  <1> USE ConstantsAssumption
  <1>t. timed \in BOOLEAN /\ nextSync \in Nat \cup {None}
    BY DEF TypeOK, FlagsOK, StateOK
  <1>d. \A t \in BOOLEAN : \A d \in NextSyncDelays(t) : t <=> d # None
    BY DEF NextSyncDelays
  <1>1. CASE UNCHANGED <<timed, nextSync>>
    BY <1>1 DEF Scheduled
  <1>2. CASE TakeConfigure
    BY <1>2, <1>t, <1>d DEF TakeConfigure, settings, Scheduled
  <1>3. CASE TakeInterval
    <2>1. timed' \in BOOLEAN /\ nextSync' \in NextSyncDelays(timed')
      BY <1>3, FlagsStep DEF TakeInterval, FlagsOK
    <2> QED
      BY <2>1, <1>d DEF Scheduled
  <1>4. CASE PostponeDueWork \/ EndCommand
    <2>1. timed' = timed /\ nextSync' \in {nextSync, NextInterval}
      BY <1>4 DEF PostponeDueWork, EndCommand, settings
    <2> QED
      BY <2>1 DEF Scheduled, NextInterval
  <1>5. CASE Tick
    BY <1>5, <1>t, LessType DEF Tick, settings, Scheduled
  <1>6. CASE Launch
    BY <1>6 DEF Launch, Scheduled
  <1>7. Handler \/ Poll => UNCHANGED <<timed, nextSync>>
    BY DEF Handler, Poll, SendFlush, SendSync, RecordSpinner, PublishSettings, StopWatching, Joined,
           worker, opened, settings, deadlines
  <1>8. User => Launch \/ UNCHANGED <<timed, nextSync>>
    BY DEF User, Tap, AskOther, RequestSync, SaveSettings, Minimise, Activate, Quit, Kill,
           worker, opened, settings, deadlines
  <1>9. Loop => \/ TakeConfigure \/ TakeInterval \/ PostponeDueWork \/ EndCommand
                \/ UNCHANGED <<timed, nextSync>>
    BY DEF Loop, TakeFlush, TakeShutdown, TakeWifiOnly, DropCommand, TakeServed, StartDueWork,
           DropDueWork, SyncSubscribed, ClearSpinner, worker, opened, settings, deadlines
  <1>10. Environment => Tick \/ UNCHANGED <<timed, nextSync>>
    BY DEF Environment, Roam, worker, opened, settings, deadlines
  <1>11. UNCHANGED vars => UNCHANGED <<timed, nextSync>>
    BY DEF vars, worker, opened, settings, deadlines
  <1> QED
    BY <1>1, <1>2, <1>3, <1>4, <1>5, <1>6, <1>7, <1>8, <1>9, <1>10, <1>11 DEF Next

-----------------------------------------------------------------------------

\* The app starts in the invariant.
LEMMA InitInv == Init => Inv
  <1> SUFFICES ASSUME Init PROVE Inv
    OBVIOUS
  <1> USE ConstantsAssumption
  <1>1. account \in [timed : BOOLEAN, wifiOnly : BOOLEAN]
    BY DEF Init, Timings
  <1>2. queue = AccountCommands(account)
    BY DEF Init
  <1>3. /\ queue \in Seq(Commands) /\ Len(queue) = 3
    BY <1>1, <1>2, AccountCommandsType
  <1>4. FlagsOK
    BY <1>1 DEF Init, FlagsOK
  <1>5. StateOK
    BY <1>3 DEF Init, StateOK, Commands
  <1>6. Known
    BY <1>1, <1>2, LaunchHears DEF Known
  <1>7. InWindow /\ Armed /\ Scheduled
    BY DEF Init, InWindow, Armed, HasAccount, Scheduled
  <1> QED
    BY <1>4, <1>5, <1>6, <1>7 DEF Inv, TypeOK

\* The inductive invariant: types, the window, and what is on its way to the worker
\* (the loop of worker.rs, Settings::store, requestSync).
THEOREM Invariant == Spec => []Inv
  <1>1. Init => Inv
    BY InitInv
  <1>2. Inv /\ [Next]_vars => Inv'
    <2>1. SUFFICES ASSUME Inv, [Next]_vars PROVE Inv'
      OBVIOUS
    <2>2. TypeOK /\ InWindow /\ Armed /\ Known /\ Scheduled
      BY <2>1 DEF Inv
    <2>3. TypeOK'
      BY <2>1, <2>2, FlagsStep, StateStep DEF TypeOK
    <2>4. InWindow' /\ Armed'
      BY <2>1, <2>2, WindowStep
    <2>5. Known' /\ Scheduled'
      BY <2>1, <2>2, KnownStep, ScheduledStep
    <2> QED
      BY <2>3, <2>4, <2>5 DEF Inv
  <1> QED
    BY <1>1, <1>2, PTL DEF Spec

\* The worker's and the Qt thread's state keep their types, and no deadline falls
\* behind the clock.
THEOREM TypeCorrect == Spec => []TypeOK
  <1>1. Inv => TypeOK
    BY DEF Inv
  <1> QED
    BY <1>1, Invariant, PTL

\* An idle worker lets no intent wait longer than FLUSH_DEBOUNCE, whatever that is
\* and however often the reader taps, saves or refreshes (arm_flush, the loop).
THEOREM FlushesPromptly == Spec => []PromptFlush
  <1>1. Inv => PromptFlush
    BY DEF Inv, InWindow, PromptFlush
  <1> QED
    BY <1>1, Invariant, PTL

\* The worker goes by the account file once it has taken what was published, and it
\* has a sync ahead of it exactly when it has an interval (Settings::store,
\* next_interval_after, next_sync_delay).
THEOREM GoesByAccountFile == Spec => []GoesByTheFile
  <1>1. Inv => GoesByTheFile
    <2>1. SUFFICES ASSUME Inv, queue = <<>>, pc # "stopped", ui \notin Publishing
                   PROVE  timed = account.timed /\ wifiOnly = account.wifiOnly
      BY DEF Inv, Scheduled, GoesByTheFile, Publishing
    <2>2. /\ WillHear("SetWifiOnly", queue, wifiOnly, account.wifiOnly)
          /\ WillHear("SetSyncInterval", queue, timed, account.timed)
      BY <2>1 DEF Inv, Known
    <2> QED
      BY <2>1, <2>2 DEF WillHear
  <1> QED
    BY <1>1, Invariant, PTL

\* Nothing automatic starts off Wi-Fi once "Only sync on Wi-Fi" has been published
\* (Network::allows, Settings::store, Command::SetWifiOnly).
THEOREM WifiOnlyHolds == Spec => WifiOnlyKept
  <1> DEFINE Starts ==
          pc = "waiting" /\ pc' = "serving" /\ queue' = queue /\ account.wifiOnly
              /\ ui \notin {"publishing", "handingOver", "gone"}
          => network = "wifi"
  <1>1. Inv /\ [Next]_vars => [Starts]_vars
    <2>1. SUFFICES ASSUME Inv, Next, pc = "waiting", pc' = "serving", queue' = queue, account.wifiOnly,
                          ui \notin Publishing
                   PROVE  network = "wifi"
      BY DEF Publishing
    <2>2. queue \in Seq(Commands)
      BY <2>1 DEF Inv, TypeOK, StateOK, Commands
    <2>a. Len(queue) \in Nat /\ (queue # <<>> => Len(Tail(queue)) = Len(queue) - 1)
      BY <2>2
    <2>3. ~TakeServed
      <3>1. SUFFICES ASSUME TakeServed PROVE FALSE
        OBVIOUS
      <3>2. queue # <<>> /\ queue = Tail(queue)
        BY <2>1, <3>1 DEF TakeServed, Taking
      <3> QED
        BY <2>a, <3>2
    <2>4. StartDueWork
      <3>1. ~(Handler \/ Poll)
        BY <2>1 DEF Handler, Poll, SendFlush, SendSync, RecordSpinner, PublishSettings, StopWatching, Joined, worker
      <3>2. ~User
        BY <2>1 DEF User, Tap, AskOther, RequestSync, SaveSettings, Minimise, Activate, Quit, Kill, Launch, worker
      <3>3. ~(Tick \/ \E n \in {"wifi", "metered", "offline"} : Roam(n))
        BY <2>1 DEF Tick, Roam, worker
      <3>4. ~(TakeFlush \/ TakeShutdown \/ TakeConfigure \/ TakeInterval \/ TakeWifiOnly \/ DropCommand)
        BY <2>1 DEF TakeFlush, TakeShutdown, TakeConfigure, TakeInterval, TakeWifiOnly, DropCommand, worker
      <3>5. ~(DropDueWork \/ PostponeDueWork \/ SyncSubscribed \/ EndCommand \/ ClearSpinner)
        BY <2>1 DEF DropDueWork, PostponeDueWork, SyncSubscribed, EndCommand, ClearSpinner
      <3> QED
        BY <2>1, <2>3, <3>1, <3>2, <3>3, <3>4, <3>5 DEF Next, Loop, Environment
    <2>5. queue = <<>> /\ Allows
      BY <2>4 DEF StartDueWork, FallingDue
    <2>6. WillHear("SetWifiOnly", queue, wifiOnly, account.wifiOnly)
      BY <2>1 DEF Inv, Known
    <2>7. wifiOnly = account.wifiOnly
      BY <2>5, <2>6 DEF WillHear
    <2> QED
      BY <2>1, <2>5, <2>7 DEF Allows
  <1>2. Spec => [][Next]_vars
    BY PTL DEF Spec
  <1> QED
    BY <1>1, <1>2, Invariant, PTL DEF WifiOnlyKept

-----------------------------------------------------------------------------

\* Every step hands the duty to lower the flag on, but a refresh that finds no
\* account, and a sync that falls due without a mirror.
LEMMA DutyStep ==
    ASSUME TypeOK, Owned, [Next]_vars
    PROVE  Owned' \/ DropsSync
  <1> DEFINE Duty == \/ ui = "raised"
                     \/ EndAsked(queue)
                     \/ pc = "serving" /\ command = "Sync"
                     \/ pc \in {"clearing", "stopped"}
  <1>o. (Owner <=> Duty) /\ (Owner' <=> Duty')
    BY DEF Owner, EndAsked
  <1> SUFFICES ASSUME running => Duty
               PROVE  (running' => Duty') \/ DropsSync
    BY <1>o DEF Owned
  <1>q. queue \in Seq(Commands)
    BY DEF TypeOK, StateOK, Commands
  <1>a. account \in [timed : BOOLEAN, wifiOnly : BOOLEAN]
    BY DEF TypeOK, FlagsOK
  <1>1. CASE UNCHANGED <<running, ui, queue, pc, command>>
    BY <1>1
  <1>2. CASE SendFlush
    <2>1. Ask("FlushOutbox") \in Commands
      BY DEF Ask, Command, Commands, Names
    <2> QED
      BY <1>2, <1>q, <2>1, AppendKeeps DEF SendFlush, worker
  <1>3. CASE SendSync
    <2>1. Ask("Sync") \in Commands /\ Ask("Sync").do = "Sync"
      BY DEF Ask, Command, Commands, Names, Served
    <2> QED
      BY <1>3, <1>q, <2>1, AppendKeeps DEF SendSync
  <1>4. CASE RecordSpinner \/ StopWatching \/ Joined
    BY <1>4 DEF RecordSpinner, StopWatching, Joined, worker
  <1>5. CASE PublishSettings
    <2>1. EndAsked(queue) => EndAsked(queue')
      BY <1>q, <1>a, <1>5, Published, AccountCommandsType DEF PublishSettings
    <2> QED
      BY <1>5, <2>1 DEF PublishSettings, worker
  <1>6. CASE Tap \/ \E a \in [timed : Timings, wifiOnly : BOOLEAN], new \in BOOLEAN : SaveSettings(a, new)
    BY <1>6 DEF Tap, SaveSettings, Gesture, worker
  <1>7. CASE \E name \in Served \ {"Sync"} : AskOther(name)
    <2>1. PICK name \in Served \ {"Sync"} : AskOther(name)
      BY <1>7
    <2>2. Ask(name) \in Commands
      BY DEF Ask, Command, Commands, Names, Served
    <2> QED
      BY <1>q, <2>1, <2>2, AppendKeeps DEF AskOther, worker
  <1>8. CASE RequestSync
    BY <1>8 DEF RequestSync
  <1>9. CASE Quit
    <2>1. Ask("Shutdown") \in Commands /\ Ask("Shutdown").do = "Shutdown"
      BY DEF Ask, Command, Commands, Names
    <2> QED
      BY <1>9, <1>q, <2>1, AppendKeeps DEF Quit
  <1>10. CASE Kill \/ Launch
    BY <1>10 DEF Kill, Launch
  <1>11. CASE Poll
    BY <1>11 DEF Poll, worker
  <1>12. CASE TakeFlush
    BY <1>12, <1>q, TailKeeps DEF TakeFlush, Taking
  <1>13. CASE TakeShutdown \/ ClearSpinner
    BY <1>13 DEF TakeShutdown, ClearSpinner
  <1>14. CASE TakeConfigure
    BY <1>14, <1>q, TailKeeps DEF TakeConfigure, Taking
  <1>15. CASE TakeInterval \/ TakeWifiOnly
    BY <1>15, <1>q, TailKeeps DEF TakeInterval, TakeWifiOnly, Taking
  <1>16. CASE DropCommand
    <2>1. CASE Head(queue).do = "Sync"
      BY <1>16, <2>1 DEF DropCommand, Taking, DropsSync
    <2>2. CASE Head(queue).do # "Sync"
      BY <1>16, <1>q, <2>2, TailKeeps DEF DropCommand, Taking, Served, worker
    <2> QED
      BY <2>1, <2>2
  <1>17. CASE TakeServed
    <2>1. CASE Head(queue).do = "Sync"
      BY <1>17, <2>1 DEF TakeServed, Serve
    <2>2. CASE Head(queue).do # "Sync"
      BY <1>17, <1>q, <2>2, TailKeeps DEF TakeServed, Taking, Served
    <2> QED
      BY <2>1, <2>2
  <1>18. CASE StartDueWork
    <2>1. pc = "waiting" /\ pc' = "serving" /\ command' = DueWork /\ UNCHANGED <<ui, queue>>
      BY <1>18 DEF StartDueWork, FallingDue, Serve
    <2>2. running' => running \/ command' = "Sync"
      BY <1>18, <2>1 DEF StartDueWork
    <2> QED
      BY <2>1, <2>2
  <1>23. CASE DropDueWork
    <2>1. CASE nextSync = 0
      BY <1>23, <2>1 DEF DropDueWork, FallingDue, Due, HasAccount, DropsSync
    <2>2. CASE nextSync # 0
      BY <1>23, <2>2 DEF DropDueWork, DueWork
    <2> QED
      BY <2>1, <2>2
  <1>19. CASE EndCommand
    BY <1>19 DEF EndCommand
  <1>20. CASE SyncSubscribed
    BY <1>20 DEF SyncSubscribed
  <1>21. Minimise \/ Activate \/ PostponeDueWork \/ Environment => UNCHANGED <<running, ui, queue, pc, command>>
    BY DEF Minimise, Activate, PostponeDueWork, Environment, Tick, Roam, worker
  <1>22. UNCHANGED vars => UNCHANGED <<running, ui, queue, pc, command>>
    BY DEF vars, worker
  <1> QED
    BY <1>1, <1>2, <1>3, <1>4, <1>5, <1>6, <1>7, <1>8, <1>9, <1>10, <1>11, <1>12, <1>13, <1>14,
       <1>15, <1>16, <1>17, <1>18, <1>19, <1>20, <1>21, <1>22, <1>23 DEF Next, Handler, User, Loop

\* Whoever has the flag in hand passes it on or lowers it: of all the steps of the
\* two threads, only a refresh that finds no account, and a sync that falls due for a
\* worker without its mirror, lose it (CommandGuard, requestSync, Worker::drop).
THEOREM SpinnerPassedOn == Spec => SpinnerHandedOn
  <1> DEFINE Handed == Owned => Owned' \/ DropsSync
  <1>1. TypeOK /\ [Next]_vars => [Handed]_vars
    BY DutyStep
  <1>2. Spec => [][Next]_vars
    BY PTL DEF Spec
  <1> QED
    BY <1>1, <1>2, TypeCorrect, PTL DEF SpinnerHandedOn

-----------------------------------------------------------------------------

\* Whatever is sent behind it, the head of the channel stays where it is until it is
\* taken.
LEMMA HeadStays ==
    ASSUME NEW q \in Seq(Commands), q # <<>>
    PROVE  /\ \A s \in Seq(Commands) : q \o s # <<>> /\ Head(q \o s) = Head(q)
           /\ \A c \in Commands : Append(q, c) # <<>> /\ Head(Append(q, c)) = Head(q)
  <1>1. ASSUME NEW s \in Seq(Commands) PROVE q \o s # <<>> /\ Head(q \o s) = Head(q)
    <2>1. Len(q) > 0 /\ Len(q \o s) = Len(q) + Len(s) /\ (q \o s)[1] = q[1]
      OBVIOUS
    <2> QED
      BY <2>1
  <1>2. ASSUME NEW c \in Commands PROVE Append(q, c) # <<>> /\ Head(Append(q, c)) = Head(q)
    <2>1. Append(q, c) # <<>> /\ Append(q, c)[1] = q[1]
      OBVIOUS
    <2> QED
      BY <2>1
  <1> QED
    BY <1>1, <1>2

\* With accounts that open, a worker that serves anything has one: its account comes
\* first in the channel, and every later one opens as well.
LEMMA OpenedStep ==
    ASSUME Unusable = FALSE, TypeOK, Opened, [Next]_vars
    PROVE  Opened'
  <1>q. queue \in Seq(Commands)
    BY DEF TypeOK, StateOK, Commands
  <1>a. account \in [timed : BOOLEAN, wifiOnly : BOOLEAN]
    BY DEF TypeOK, FlagsOK
  <1>1. CASE UNCHANGED <<queue, client, db, pc>>
    BY <1>1 DEF Opened, HasAccount
  <1>2. CASE SendFlush \/ SendSync \/ Quit \/ \E name \in Served \ {"Sync"} : AskOther(name)
    <2>1. PICK name \in Names \ {"Configure"} : queue' = Append(queue, Ask(name))
      BY <1>2 DEF SendFlush, SendSync, Quit, AskOther, Names, Served
    <2>2. Ask(name) \in Commands
      BY DEF Ask, Command, Commands
    <2>3. UNCHANGED <<client, db, pc>>
      BY <1>2 DEF SendFlush, SendSync, Quit, AskOther, worker, opened
    <2> QED
      BY <1>q, <2>1, <2>2, <2>3, HeadStays DEF Opened, HasAccount
  <1>3. CASE PublishSettings
    <2>1. PICK s \in {AccountCommands(account), Tail(AccountCommands(account))} : queue' = queue \o s
      BY <1>3 DEF PublishSettings
    <2>2. s \in Seq(Commands)
      BY <1>a, <2>1, AccountCommandsType
    <2>3. UNCHANGED <<client, db, pc>>
      BY <1>3 DEF PublishSettings, worker, opened
    <2> QED
      BY <1>q, <2>1, <2>2, <2>3, HeadStays DEF Opened, HasAccount
  <1>4. CASE Kill
    BY <1>4 DEF Kill, Opened
  <1>5. CASE Launch
    <2>1. queue' = AccountCommands(account)
      BY <1>5 DEF Launch
    <2>2. queue' # <<>> /\ Head(queue').do = "Configure"
      BY <2>1 DEF AccountCommands, Ask, Command
    <2> QED
      BY <2>2 DEF Opened
  <1>6. CASE TakeConfigure
    <2>1. client' = TRUE /\ db' = TRUE
      BY <1>6 DEF TakeConfigure, Opens
    <2> QED
      BY <2>1 DEF Opened, HasAccount
  <1>7. CASE TakeFlush \/ TakeInterval \/ TakeWifiOnly \/ DropCommand \/ TakeServed
    <2>1. /\ Head(queue).do # "Configure" /\ pc = "waiting"
          /\ UNCHANGED <<client, db>>
      BY <1>7 DEF TakeFlush, TakeInterval, TakeWifiOnly, DropCommand, TakeServed, Taking, Served, worker, opened
    <2> QED
      BY <2>1 DEF Opened, HasAccount
  <1>8. CASE TakeShutdown
    BY <1>8 DEF TakeShutdown, Opened
  <1>9. CASE StartDueWork \/ EndCommand \/ ClearSpinner
    <2>1. pc # "stopped" /\ UNCHANGED <<queue, client, db>>
      BY <1>9 DEF StartDueWork, FallingDue, EndCommand, ClearSpinner, opened
    <2> QED
      BY <2>1 DEF Opened, HasAccount
  <1>10. RecordSpinner \/ StopWatching \/ Joined \/ Poll => UNCHANGED <<queue, client, db, pc>>
    BY DEF RecordSpinner, StopWatching, Joined, Poll, worker, opened
  <1>11. Tap \/ RequestSync \/ Minimise \/ Activate => UNCHANGED <<queue, client, db, pc>>
    BY DEF Tap, RequestSync, Minimise, Activate, worker, opened
  <1>12. (\E a \in [timed : Timings, wifiOnly : BOOLEAN], new \in BOOLEAN : SaveSettings(a, new))
             => UNCHANGED <<queue, client, db, pc>>
    BY DEF SaveSettings, worker, opened
  <1>13. DropDueWork \/ PostponeDueWork \/ SyncSubscribed \/ Environment
             => UNCHANGED <<queue, client, db, pc>>
    BY DEF DropDueWork, PostponeDueWork, SyncSubscribed, Environment, Tick, Roam, worker, opened
  <1>14. UNCHANGED vars => UNCHANGED <<queue, client, db, pc>>
    BY DEF vars, worker, opened
  <1> QED
    BY <1>1, <1>2, <1>3, <1>4, <1>5, <1>6, <1>7, <1>8, <1>9, <1>10, <1>11, <1>12, <1>13, <1>14
       DEF Next, Handler, User, Loop

\* The screen and the transition test stay in step.
LEMMA ShownStep ==
    ASSUME shown = told, [Next]_vars
    PROVE  shown' = told'
  <1>1. CASE UNCHANGED <<shown, told>>
    BY <1>1
  <1>2. RecordSpinner \/ Launch => shown' = told'
    <2>1. RecordSpinner => shown' = told'
      BY DEF RecordSpinner
    <2>2. Launch => shown' = told'
      BY Zenon DEF Launch
    <2> QED
      BY <2>1, <2>2
  <1>3. Poll \/ Activate => shown' = told'
    BY DEF Poll, Activate, SeeSpinner
  <1>4. Handler => RecordSpinner \/ UNCHANGED <<shown, told>>
    BY DEF Handler, SendFlush, SendSync, PublishSettings, StopWatching, Joined, screen
  <1>5. User => Launch \/ Activate \/ UNCHANGED <<shown, told>>
    BY DEF User, Tap, AskOther, RequestSync, SaveSettings, Minimise, Quit, Kill, screen
  <1>6. Loop => UNCHANGED <<shown, told>>
    BY DEF Loop, TakeFlush, TakeShutdown, TakeConfigure, TakeInterval, TakeWifiOnly, DropCommand,
           TakeServed, StartDueWork, DropDueWork, PostponeDueWork, SyncSubscribed, EndCommand, ClearSpinner,
           screen
  <1>7. Environment => UNCHANGED <<shown, told>>
    BY DEF Environment, Tick, Roam, screen
  <1>8. UNCHANGED vars => UNCHANGED <<shown, told>>
    BY DEF vars, screen
  <1> QED
    BY <1>1, <1>2, <1>3, <1>4, <1>5, <1>6, <1>7, <1>8 DEF Next

\* Where every account opens, no spinner is left behind: whenever one is on the
\* screen the next poll that finds the flag lowered takes it down, and a raised flag
\* has somebody who will lower it (requestSync, pollSync, CommandGuard).
THEOREM NoSpinnerLeft ==
    ASSUME Unusable = FALSE
    PROVE  Spec => []Tethered
  <1> DEFINE I == Opened /\ Owned /\ shown = told
  <1>1. Init => I
    <2>1. SUFFICES ASSUME Init PROVE I
      OBVIOUS
    <2>2. queue = AccountCommands(account)
      BY <2>1 DEF Init
    <2>3. Opened
      BY <2>2 DEF Opened, AccountCommands, Ask, Command
    <2> QED
      BY <2>1, <2>3 DEF Init, Owned
  <1>2. TypeOK /\ I /\ [Next]_vars => I'
    <2>1. SUFFICES ASSUME TypeOK, I, [Next]_vars PROVE I'
      OBVIOUS
    <2>2. ~DropsSync
      BY <2>1 DEF Opened, DropsSync
    <2> QED
      BY <2>1, <2>2, OpenedStep, DutyStep, ShownStep
  <1>3. I => Tethered
    BY DEF Tethered
  <1> QED
    BY <1>1, <1>2, <1>3, TypeCorrect, PTL DEF Spec

=============================================================================
