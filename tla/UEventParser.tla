----------------------------- MODULE UEventParser -----------------------------
(***************************************************************************)
(* What UEventPollingOneShotSensor::readUEvent makes of one datagram: the  *)
(* two NULs it puts behind the bytes received, the constructor of UEvent,  *)
(* which walks over the buffer string by string, and the look-ups in what  *)
(* it found. Characters are NUL, "=" and some letters; positions in the    *)
(* buffer count from 1. UEventSensor knows only the answer.                *)
(***************************************************************************)
EXTENDS Sequences, FiniteSetsExt

CONSTANTS
  Letters,      \* the characters other than NUL and "="
  BufferSize,   \* UEVENT_BUFFER_SIZE
  Infos,        \* the UEventInfos of the sensors: [match, keys]
  True          \* the string "true"

NUL == "nul"
EQ  == "eq"
Bytes   == Letters \cup {NUL, EQ}
Strings == Seq(Letters \cup {EQ})

ASSUME ParserAssumption ==
  /\ NUL \notin Letters /\ EQ \notin Letters
  /\ BufferSize \in Nat \ {0}
  /\ Infos \subseteq [match : Strings, keys : SUBSET Strings]
  /\ True \in Strings \ {<<>>}

VARIABLES
  mInfo,   \* of the sensor
  phase,   \* how far readUEvent is
  buf,     \* the bytes received and the NULs behind them; <<>> if not parsed
  data,    \* the pointer into it
  msg,     \* UEvent::msg
  found    \* what readUEvent returns

vars == <<mInfo, phase, buf, data, msg, found>>

TypeOK ==
  /\ mInfo \in Infos
  /\ phase \in {"poll", "parse", "match", "returned"}
  /\ buf \in Seq(Bytes)
  /\ data \in Nat
  /\ found \in BOOLEAN

Start(p) ==
  /\ phase = p
  /\ buf = <<>>
  /\ data = 1
  /\ msg = <<>>
  /\ found = FALSE

Init == mInfo \in Infos /\ Start("poll")

-------------------------------------------------------------------------------
(* Strings *)

StringEnd(i) == Min({j \in i .. Len(buf) : buf[j] = NUL})

\* The C string at i.
CString(i) == SubSeq(buf, i, StringEnd(i) - 1)

EqPositions(kv) == {p \in 1 .. Len(kv) : kv[p] = EQ}

HasEq(kv) == EqPositions(kv) # {}

KeyOf(kv) == SubSeq(kv, 1, Min(EqPositions(kv)) - 1)

ValueOf(kv) == SubSeq(kv, Min(EqPositions(kv)) + 1, Len(kv))

\* TP_EVENT_PATH, the one match of the repository, has a value: contains("key=")
\* would be true of a datagram without the key.
ASSUME MatchAssumption ==
  \A info \in Infos : HasEq(info.match) => ValueOf(info.match) # <<>>

-------------------------------------------------------------------------------
(* readUEvent up to its UEvent *)

\* n bytes, which fit.
Datagrams == UNION {[1 .. n -> Bytes] : n \in 1 .. BufferSize - 1}

\* Mutant: one NUL behind the bytes.
ReceiveOneNul ==
  /\ phase = "poll"
  /\ \E payload \in Datagrams : buf' = payload \o <<NUL>>
  /\ phase' = "parse"
  /\ UNCHANGED <<mInfo, data, msg, found>>

Receive ==
  /\ phase = "poll"
  /\ \E payload \in Datagrams : buf' = payload \o <<NUL, NUL>>
  /\ phase' = "parse"
  /\ UNCHANGED <<mInfo, data, msg, found>>

\* Nothing, an error, or a datagram that fills the buffer, which counts as found.
ReceiveNoUEvent ==
  /\ phase = "poll"
  /\ found' \in BOOLEAN
  /\ phase' = "returned"
  /\ UNCHANGED <<mInfo, buf, data, msg>>

-------------------------------------------------------------------------------
(* UEvent::UEvent: one iteration a step *)

ParsePlain ==
  /\ phase = "parse"
  /\ buf[data] # NUL
  /\ ~HasEq(CString(data))
  /\ data' = StringEnd(data) + 1
  /\ UNCHANGED <<mInfo, phase, buf, msg, found>>

\* Mutant: msg[key] = value.
Assign(key, value) ==
  msg' = [k \in DOMAIN msg \cup {key} |-> IF k = key THEN value ELSE msg[k]]

\* It leaves a key that is there alone.
Insert(key, value) ==
  msg' = [k \in DOMAIN msg \cup {key} |-> IF k \in DOMAIN msg THEN msg[k] ELSE value]

ParsePair ==
  /\ phase = "parse"
  /\ buf[data] # NUL
  /\ HasEq(CString(data))
  /\ data' = StringEnd(data) + 1
  /\ Insert(KeyOf(CString(data)), ValueOf(CString(data)))
  /\ UNCHANGED <<mInfo, phase, buf, found>>

ParseEnd ==
  /\ phase = "parse"
  /\ buf[data] = NUL
  /\ phase' = "match"
  /\ UNCHANGED <<mInfo, buf, data, msg, found>>

-------------------------------------------------------------------------------
(* The look-ups *)

Get(key, default) == IF key \in DOMAIN msg THEN msg[key] ELSE default

ContainsPair(match) == HasEq(match) /\ Get(KeyOf(match), <<>>) = ValueOf(match)

ContainsKey(match) ==
  ~HasEq(match) /\ (match = <<>> \/ Get(match, <<>>) # <<>>)

Contains(match) == ContainsPair(match) \/ ContainsKey(match)

\* Mutant: only the gestures are looked up.
MatchKeysOnly ==
  /\ phase = "match"
  /\ found' = (\E key \in mInfo.keys : Get(key, <<>>) = True)
  /\ phase' = "returned"
  /\ UNCHANGED <<mInfo, buf, data, msg>>

\* The answer of readUEvent. "false", which get() answers for a key that is not
\* there, is another string than "true", and so is <<>>.
Match ==
  /\ phase = "match"
  /\ found' = /\ Contains(mInfo.match)
              /\ \E key \in mInfo.keys : Get(key, <<>>) = True
  /\ phase' = "returned"
  /\ UNCHANGED <<mInfo, buf, data, msg>>

\* run() polls for the next uevent; buf and event were locals.
PollAgain ==
  /\ phase = "returned"
  /\ phase' = "poll"
  /\ buf' = <<>> /\ data' = 1 /\ msg' = <<>> /\ found' = FALSE
  /\ UNCHANGED mInfo

-------------------------------------------------------------------------------
Parse == ParsePlain \/ ParsePair \/ ParseEnd

Next ==
  \/ Receive \/ ReceiveNoUEvent
  \/ Parse \/ Match \/ PollAgain

Spec == Init /\ [][Next]_vars

-------------------------------------------------------------------------------
(* Properties *)

\* data points into the bytes received and the NULs behind them, and a NUL comes
\* at or after it: neither *data nor std::string(data) reads the rest of the
\* buffer, which is uninitialised. (UEvent::UEvent, readUEvent)
InBounds ==
  phase = "parse" =>
    /\ data \in 1 .. Len(buf)
    /\ \E j \in data .. Len(buf) : buf[j] = NUL

\* The strings of the datagram, by where they start: up to the first empty one.
Lines ==
  {i \in 1 .. Len(buf) :
     /\ i > 1 => buf[i - 1] = NUL
     /\ \A j \in 1 .. i : (j > 1 => buf[j - 1] = NUL) => buf[j] # NUL}

Pair(key, value) == key \o <<EQ>> \o value

\* The line at i is key=value.
Binds(i, key, value) == ~HasEq(key) /\ CString(i) = Pair(key, value)

\* The datagram says that key is value: its first line for the key does.
Says(key, value) ==
  \E i \in Lines :
    /\ Binds(i, key, value)
    /\ \A j \in Lines : j < i /\ HasEq(CString(j)) => KeyOf(CString(j)) # key

\* msg is what the datagram says: for every key of a line the value its first line
\* has. (UEvent::UEvent)
ParsedExact ==
  phase = "match" =>
    /\ \A key \in DOMAIN msg : Says(key, msg[key])
    /\ \A i \in Lines : HasEq(CString(i)) => KeyOf(CString(i)) \in DOMAIN msg

\* The datagram has a non-empty value for the key.
SaysSomething(key) ==
  \E i \in Lines : /\ HasEq(CString(i))
                  /\ ValueOf(CString(i)) # <<>>
                  /\ Says(key, ValueOf(CString(i)))

MatchSaid(match) ==
  \/ HasEq(match) /\ Says(KeyOf(match), ValueOf(match))
  \/ ~HasEq(match) /\ (match = <<>> \/ SaysSomething(match))

\* A datagram is reported if and only if it says what the sensor's match asks for
\* and that one of its gestures is true. (readUEvent, contains, get)
DecisionExact ==
  phase = "returned" /\ buf # <<>> =>
    (found <=> /\ MatchSaid(mInfo.match)
               /\ \E key \in mInfo.keys : Says(key, True))

-------------------------------------------------------------------------------
(* The inductive invariant *)

\* data is at the start of a string behind a NUL, with no empty one before it.
BufferInv ==
  phase \in {"parse", "match"} =>
    /\ Len(buf) >= 2 /\ buf[Len(buf)] = NUL /\ buf[Len(buf) - 1] = NUL
    /\ data \in 1 .. Len(buf)
    /\ data > 1 => buf[data - 1] = NUL
    /\ \A j \in 1 .. data - 1 : (j > 1 => buf[j - 1] = NUL) => buf[j] # NUL
    /\ phase = "match" => buf[data] = NUL

\* The lines the walk has passed that have a "=".
Seen == {i \in Lines : i < data /\ HasEq(CString(i))}

First(i) == \A j \in Seen : j < i => KeyOf(CString(j)) # KeyOf(CString(i))

MsgInv ==
  phase \in {"parse", "match"} =>
    /\ DOMAIN msg = {KeyOf(CString(i)) : i \in Seen}
    /\ \A i \in Seen : First(i) => msg[KeyOf(CString(i))] = ValueOf(CString(i))

ParserInv == TypeOK /\ BufferInv /\ MsgInv /\ (phase = "poll" => Start("poll"))
===============================================================================
