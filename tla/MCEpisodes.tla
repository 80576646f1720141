----------------------------- MODULE MCEpisodes -----------------------------
(* Episodes with, beside the commands, everything small that may be in a   *)
(* dataset, a recording, a chat call and an episode.                       *)
EXTENDS Episodes, Splits, SftData, ModelCalls, EpisodeRecords,
        ReasoningStore, ChatReplies, TLC

MCTasksOf == [shop |-> 2, bank |-> 1, mail |-> 1]

(* Every order of the scenarios, some of the tasks; 9 stands for a count   *)
(* that is missing or larger than what there is.                           *)
Orders(set)  == {q \in [1 .. Cardinality(set) -> set] : IsInjective(q)}
SomeMixed    == LET q == SetToSeq(SplitTasks) IN {q, Reverse(q), Tail(q) \o <<Head(q)>>}
SomeSizes    == {[train |-> a, val |-> b, test |-> 1, train_extra |-> 2, inject |-> 9] :
                   a \in {1, 9}, b \in {0, 1}}
SplitsHold ==
  \A verifiers \in SUBSET SplitTasks : \A order \in Orders(Eligible(verifiers)) :
    \A mixed \in SomeMixed, sizes \in SomeSizes, test, val \in 0 .. 2 :
      SplitIsSound(order, verifiers, mixed, [test |-> test, val |-> val], sizes, {"shop"})

Said == LET m == {<<"x", 0>>, <<"x", 1>>, <<"y", 0>>}
        IN (m \X m) \cup {<<a>> : a \in m} \cup {<<a, <<"y", 0>>, a>> : a \in m}
SomeCall(said) == [messages |-> Front(said), reply |-> Last(said)]
SamplesHold == \A a, b, c \in Said : SamplesAreMaximal(<<SomeCall(a), SomeCall(b), SomeCall(c)>>)

GoodRow  == [task |-> 1, status |-> "ok", success |-> TRUE, recorded |-> TRUE]
SomeRows == {GoodRow, [GoodRow EXCEPT !.task = 2], [GoodRow EXCEPT !.success = FALSE],
             [GoodRow EXCEPT !.recorded = FALSE], [GoodRow EXCEPT !.status = "env_error"]}
ChoicesHold ==
  \A n \in 0 .. 4 : \A rows \in [1 .. n -> SomeRows] :
    \A failed \in BOOLEAN, cap \in {1, 2}, exclude \in {{}, {2}} :
      ChosenAreFit(rows, [failed |-> failed, cap |-> cap, exclude |-> exclude], cap)

SomeAnswers == {"reply", Garbled, "ConnectError", "CloseError", "HTTP 500", "HTTP 429", "HTTP 400"}
CallsHold ==
  \A answers \in [1 .. 3 -> SomeAnswers], maxRetries \in 0 .. 2, inTime \in 0 .. 3 :
    OutagesAreTold(answers, maxRetries, inTime)

GoodRead   == [tool |-> "list", risk |-> "read", status |-> "ok", decision |-> "allowed"]
GoodDrop   == [GoodRead EXCEPT !.tool = "drop", !.risk = "destructive"]
SomeEvents == {GoodRead, [GoodRead EXCEPT !.status = "error"], GoodDrop,
               [GoodRead EXCEPT !.status = "denied", !.decision = "rate_limited"],
               [GoodDrop EXCEPT !.status = "denied", !.decision = "denied_by_user"],
               [GoodDrop EXCEPT !.status = "error"]}
RecordsHold ==
  \A n \in 0 .. 3 : \A events \in [1 .. n -> SomeEvents] :
    /\ \A sid \in {1, 2} : PlantedOnce(Arm(Quiet, 1, "drop"), sid, events)
    /\ \A status \in {"ok", "env_error"}, success \in BOOLEAN, reason \in {"final", "max_steps"},
          asked \in {{}, {"drop"}} :
         RecordsAreTold(Summary(status, success, reason, events, asked, "drop"))

ReasoningHolds ==
  \A n \in 0 .. 4, max \in 1 .. 3 : \A order \in [1 .. n -> {1, 2}] : ReasoningIsOwn(order, max)

SomeParts == [kind : {"word"}, thought : BOOLEAN] \cup
             [kind : {"block"}, thought : BOOLEAN, id : {<<>>}, name : {<<>>, <<"list">>}, args : {Whole}]
SomeNative(x) == [id : {<<>>, <<"given", x>>}, name : {<<"list">>}, args : {<<>>, <<1>>, Whole}]
RepliesHold ==
  \A n \in 0 .. 2 : \A content \in [1 .. n -> SomeParts] :
    \A a \in SomeNative(1), b \in SomeNative(2), finish \in {"stop", "length"} :
      RepliesAreRead(content, a, b, finish)

-----------------------------------------------------------------------------
LabLaws ==
  SplitsHold /\ SamplesHold /\ ChoicesHold /\ CallsHold /\ RepliesHold /\ RecordsHold /\
  ReasoningHolds

(* What a command works on and what is made of its results can be trusted: *)
(* splits share no scenario, samples lose and repeat nothing, an outage of *)
(* the model is told from its failures, a reply is read the same however   *)
(* it comes, a turn's reasoning is its own, the injected instruction is    *)
(* planted once, and a line says what happened (Splits, SftData,           *)
(* ModelCalls, ChatReplies, ReasoningStore and EpisodeRecords state each). *)
LabDataIsSound == [][Scan => LabLaws]_phase
=============================================================================
