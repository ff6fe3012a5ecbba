------------------------------- MODULE MCManager -------------------------------
(* Instances of Manager for TLC.                                           *)
EXTENDS Manager

CONSTANTS s1, s2, t1, t2, zero, noValue

TwoStreams == {s1, s2}
OneStream  == {s1}

(* No stream, one, two, or a name twice.                                   *)
ListsOfTwo == {<<>>, <<s1>>, <<s1, s2>>, <<s1, s2, s1>>}
ShortLists == {<<>>, <<s1, s2>>, <<s1, s1>>}
JustOne    == {<<s1>>}
BothOnly   == {<<s1, s2>>}

TwoTimes == {t1, t2}

Nobody == {}

-----------------------------------------------------------------------------
(* A partial-order reduction.  The master is the only sender to every      *)
(* actor but itself and go2rtc, and a message that an actor ignores,       *)
(* routes or merely stores commutes with the steps of all others: handling *)
(* it as soon as it is at the head of its mailbox changes neither what the *)
(* others see nor the truth of a property below.  Without it the mailbox   *)
(* of an actor that is never scheduled grows without bound.                *)
Prompt ==
  \/ MasterStep
  \/ ActionStep
  \/ RedisStep
  \/ CleanerIgnores /\ UNCHANGED <<count, redis>>
  \/ CountIgnores /\ UNCHANGED <<cleaner, redis>>

PromptIsDue ==
  \/ \E a \in {"master", "action", "redis"} : box[a] # <<>>
  \/ box["cleaner"] # <<>> /\ ~CleanerAccepts(Msg("cleaner"))
  \/ box["count"] # <<>> /\ ~CountAccepts(Msg("count"))

PromptNext == Prompt \/ (~PromptIsDue /\ Next)

-----------------------------------------------------------------------------
(* The same, with reports that wait at the master and updates that wait at *)
(* the Redis actor for any time; LineCap bounds the updates that wait when *)
(* a scheduler fires.                                                      *)
LineCap == 1

Lagging == {"CleanupCycleFinished", "AliveStreamCountCalculated"}

LaggingPromptIsDue ==
  \/ box["action"] # <<>>
  \/ box["master"] # <<>> /\ Msg("master").type \notin Lagging
  \/ box["cleaner"] # <<>> /\ ~CleanerAccepts(Msg("cleaner"))
  \/ box["count"] # <<>> /\ ~CountAccepts(Msg("count"))

LaggingPrompt ==
  \/ MasterStep /\ Msg("master").type \notin Lagging
  \/ ActionStep
  \/ CleanerIgnores /\ UNCHANGED <<count, redis>>
  \/ CountIgnores /\ UNCHANGED <<cleaner, redis>>

LaggingNext ==
  \/ LaggingPrompt
  \/ /\ ~LaggingPromptIsDue
     /\ Next
     /\ CronFires \/ TickFires => Len(box["redis"]) < LineCap

LaggingFairSpec == Init /\ [][LaggingNext]_vars /\ Fairness
===============================================================================
