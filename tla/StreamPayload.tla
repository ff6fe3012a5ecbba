---------------------------- MODULE StreamPayload ----------------------------
(***************************************************************************)
(* Go2RTCActor.hasProducer, the part that reads go2rtc's answer to         *)
(* GET /api/streams: which part of the JSON value is about the stream, and *)
(* whether it reports a producer.  Stated for all answers of the shapes    *)
(* that go2rtc may give, each the initial state of one behaviour.          *)
(***************************************************************************)
EXTENDS Naturals, Sequences

CONSTANTS
  Names,       \* the streams that are checked
  Others       \* the streams that may be in an answer besides

VARIABLES
  name,        \* the stream that is checked
  info,        \* what go2rtc knows of it
  answer       \* how it says so

-----------------------------------------------------------------------------
(* JSON values.                                                            *)
Null    == [kind |-> "null"]
Text    == [kind |-> "text"]
List(s) == [kind |-> "list", items |-> s]
Map(f)  == [kind |-> "map", at |-> f]

IsMap(v) == v.kind = "map"
Has(v, key) == IsMap(v) /\ key \in DOMAIN v.at

(* Mutant: the answer that wraps all streams is not looked into.           *)
lookupStreamPayload_TopOnly(payload, stream) ==
  IF Has(payload, stream) THEN payload.at[stream] ELSE payload

(* The part about the stream, or else the whole answer.                    *)
lookupStreamPayload(payload, stream) ==
  IF Has(payload, stream) THEN payload.at[stream]
  ELSE IF Has(payload, "streams") /\ Has(payload.at["streams"], stream)
    THEN payload.at["streams"].at[stream]
    ELSE payload

(* A value that has producers says so itself, ...                          *)
Reports(v) ==
  /\ Has(v, "producers")
  /\ LET p == v.at["producers"]
     IN IF p.kind = "list" THEN p.items # <<>> ELSE p # Null

(* ... and the values in any other one are looked into.                    *)
Nested(v) ==
  CASE IsMap(v) /\ ~Has(v, "producers") -> {v.at[key] : key \in DOMAIN v.at}
    [] v.kind = "list" -> {v.items[i] : i \in DOMAIN v.items}
    [] OTHER -> {}

Below(values) == UNION {Nested(v) : v \in values}

(* payloadHasProducer calls itself for every nested value.  A description  *)
(* is at most two levels below the answer it is a part of (the bound of    *)
(* this definition), and is never looked into itself.                      *)
payloadHasProducer(payload) ==
  \E v \in {payload} \cup Below({payload}) \cup Below(Below({payload})) : Reports(v)

hasProducer(payload, stream) == payloadHasProducer(lookupStreamPayload(payload, stream))

-----------------------------------------------------------------------------
(* External: go2rtc's description of one stream.  Each producer is an      *)
(* object, and so is each consumer, which may itself describe a source.    *)
Source == Map([key \in {"url"} |-> Text])
Producers == {Null, List(<<>>), List(<<Source>>), List(<<Source, Source>>), Source}
Consumers == {Null, List(<<>>), List(<<Map([key \in {"remote", "senders"} |-> Text])>>)}
Infos == {Map([key \in {"producers", "consumers"} |-> IF key = "producers" THEN p ELSE c]) :
            p \in Producers, c \in Consumers}

(* The description alone, one for each of several streams, or the latter   *)
(* as the section "streams".                                               *)
Keyed(others, rest) == Map([s \in {name} \cup others |-> IF s = name THEN info ELSE rest])
Section(v) == Map([key \in {"streams"} |-> v])

Init ==
  /\ name \in Names
  /\ info \in Infos
  /\ \/ answer = info
     \/ \E others \in SUBSET Others, rest \in Infos :
          answer \in {Keyed(others, rest), Section(Keyed(others, rest))}

Next == UNCHANGED <<name, info, answer>>
Spec == Init /\ [][Next]_<<name, info, answer>>

-----------------------------------------------------------------------------
(* The keys of an answer that are not names of streams.                    *)
Fields == {"producers", "consumers", "streams"}

HasProducer == info.at["producers"] \notin {Null, List(<<>>)}

(* README.md:239: every stream is checked for a producer.                  *)
EveryStreamIsChecked == hasProducer(answer, name) <=> HasProducer

(* README.md:241: only a stream without a producer is deleted.  A check    *)
(* of a stream that is not named like a key of the answer finds a producer *)
(* if and only if go2rtc has said so of this stream, in whichever form,    *)
(* and whatever it says of others, however they are named.                 *)
CheckReadsTheAnswer == name \notin Fields => EveryStreamIsChecked
===============================================================================
