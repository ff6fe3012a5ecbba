-------------------------- MODULE StreamPayloadProofs --------------------------
(***************************************************************************)
(* A check reads what go2rtc says of the stream, for any names.            *)
(***************************************************************************)
EXTENDS StreamPayload, TLAPS

(* What go2rtc says of one stream is a map with these two keys.            *)
LEMMA InfosAreMaps ==
  ASSUME NEW i \in Infos
  PROVE  /\ i.kind = "map" /\ DOMAIN i.at = {"producers", "consumers"}
         /\ i.at["producers"] \in Producers
BY DEF Infos, Map

(* Such a map reports producers unless it has none.                        *)
LEMMA InfoReports ==
  ASSUME NEW i \in Infos
  PROVE  payloadHasProducer(i) <=> i.at["producers"] \notin {Null, List(<<>>)}
<1>1. IsMap(i) /\ Has(i, "producers")
  BY InfosAreMaps DEF IsMap, Has
<1>2. Nested(i) = {}
  BY <1>1, InfosAreMaps DEF Nested, IsMap
<1>3. Below({i}) = {} /\ Below({}) = {}
  BY <1>2 DEF Below
<1>4. payloadHasProducer(i) <=> Reports(i)
  BY <1>3 DEF payloadHasProducer
<1> DEFINE p == i.at["producers"]
<1>5. p \in Producers
  BY InfosAreMaps
<1>6. Reports(i) <=> p \notin {Null, List(<<>>)}
  <2>1. Reports(i) <=> IF p.kind = "list" THEN p.items # <<>> ELSE p # Null
    BY <1>1 DEF Reports
  <2>2. CASE p = Null
    BY <2>1, <2>2 DEF Null
  <2>3. CASE p = List(<<>>)
    BY <2>1, <2>3 DEF List
  <2>4. CASE p = List(<<Source>>) \/ p = List(<<Source, Source>>)
    BY <2>1, <2>4 DEF List, Null
  <2>5. CASE p = Source
    BY <2>1, <2>5 DEF Source, Map, List, Null
  <2> QED
    BY <1>5, <2>2, <2>3, <2>4, <2>5 DEF Producers
<1> QED
  BY <1>4, <1>6

(* In all forms of an answer the part about the stream is found.           *)
LEMMA StreamIsFound ==
  ASSUME info \in Infos, name \notin Fields,
         \/ answer = info
         \/ \E others, rest : answer \in {Keyed(others, rest), Section(Keyed(others, rest))}
  PROVE  lookupStreamPayload(answer, name) = info
<1>1. CASE answer = info
  <2>1. answer.kind = "map" /\ DOMAIN answer.at = {"producers", "consumers"}
    BY <1>1, InfosAreMaps
  <2>2. ~Has(answer, name) /\ ~Has(answer, "streams")
    BY <2>1 DEF Has, Fields
  <2> QED
    BY <1>1, <2>2 DEF lookupStreamPayload
<1>2. ASSUME NEW others, NEW rest, answer \in {Keyed(others, rest), Section(Keyed(others, rest))}
      PROVE  lookupStreamPayload(answer, name) = info
  <2> DEFINE k == Keyed(others, rest)
  <2>1. IsMap(k) /\ Has(k, name) /\ k.at[name] = info
    BY DEF Keyed, Map, IsMap, Has
  <2>2. CASE answer = k
    BY <2>1, <2>2 DEF lookupStreamPayload
  <2>3. CASE answer = Section(k)
    <3>1. answer.kind = "map" /\ answer.at = [key \in {"streams"} |-> k]
      BY <2>3 DEF Section, Map
    <3> HIDE DEF k
    <3>2. DOMAIN answer.at = {"streams"} /\ answer.at["streams"] = k
      BY <3>1
    <3>3. ~Has(answer, name) /\ Has(answer, "streams")
      BY <3>1, <3>2 DEF Has, IsMap, Fields
    <3> QED
      BY <2>1, <3>2, <3>3 DEF lookupStreamPayload
  <2> QED
    BY <1>2, <2>2, <2>3
<1> QED
  BY <1>1, <1>2

(* For any names of the stream that is checked and of the others in the    *)
(* answer, a check finds a producer if and only if go2rtc reports one.     *)
THEOREM AnswersAreRead == Spec => []CheckReadsTheAnswer
<1>1. Init => CheckReadsTheAnswer
  <2> SUFFICES ASSUME Init, name \notin Fields
               PROVE  EveryStreamIsChecked
    BY DEF CheckReadsTheAnswer
  <2>1. info \in Infos
    BY DEF Init
  <2>2. lookupStreamPayload(answer, name) = info
    BY <2>1, StreamIsFound DEF Init
  <2> QED
    BY <2>1, <2>2, InfoReports DEF EveryStreamIsChecked, HasProducer, hasProducer
<1>2. CheckReadsTheAnswer /\ [Next]_<<name, info, answer>> => CheckReadsTheAnswer'
  BY DEF Next, CheckReadsTheAnswer, EveryStreamIsChecked, HasProducer
<1> QED
  BY <1>1, <1>2, PTL DEF Spec
===============================================================================
