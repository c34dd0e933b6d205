---------------------------- MODULE ContentProofs ----------------------------
(***************************************************************************)
(* What deleting keeps its word about, for any number of categories,       *)
(* channels, messages and requests in flight.                              *)
(*                                                                         *)
(* Both deletions that can be undercut are two queries: an edit finds its  *)
(* message and writes, deleteCategory detaches and drops.  The invariant   *)
(* says of a request between its two queries that whatever came in between *)
(* is on record (EditsRaced, DropsRaced).                                  *)
(***************************************************************************)
EXTENDS Content, TLAPS

Ids == Categories \cup Channels \cup Messages \cup {Nothing}

Requests == [op : Ops \cup {"none"}, step : {"idle", "find", "write", "drop", "answer"},
             on : Ids, into : Ids]

(* Which rows each operation is about. *)
Subject(op) ==
    CASE op \in {"createCategory", "deleteCategory"} -> Categories
      [] op \in {"createChannel", "removeChannel"} -> Channels
      [] op \in {"createMessage", "updateMessage", "removeMessage"} -> Messages
      [] OTHER -> {Nothing}

JobsTyped ==
    /\ job \in [Slots -> Requests]
    /\ \A q \in Slots : job[q].on \in Subject(job[q].op)

(* An edit about to be written to a deleted message found it before. *)
EditsRaced ==
    \A q \in Slots : At(q, "updateMessage", "write") /\ isDeleted[job[q].on] =>
        job[q].on \in raced

(* A channel in a category about to be dropped came after the detaching. *)
DropsRaced ==
    \A q \in Slots : At(q, "deleteCategory", "drop") =>
        \A c \in Channels : categoryId[c] = job[q].on => job[q].on \in raced

IInv ==
    /\ TypeOK
    /\ JobsTyped
    /\ EditsRaced /\ DropsRaced
    /\ ErasedUnlessRaced
    /\ CategoryGoes

(* A free slot, and a request of any kind, are requests. *)
LEMMA IdleTyped == Idle \in Requests /\ Idle.on \in Subject(Idle.op)
                   /\ Idle.op = "none" /\ Idle.step = "idle"
BY DEF Idle, Requests, Ids, Subject

LEMMA Initially == Init => IInv
<1> SUFFICES ASSUME Init PROVE IInv
  OBVIOUS
<1>1. JobsTyped /\ \A q \in Slots : job[q].op = "none" /\ job[q].step = "idle"
  BY IdleTyped DEF Init, JobsTyped
<1>2. TypeOK
  BY <1>1, ContentAssumption DEF Init, TypeOK, Ops
<1>3. EditsRaced /\ DropsRaced /\ ErasedUnlessRaced /\ CategoryGoes
  BY <1>1 DEF Init, EditsRaced, DropsRaced, At, ErasedUnlessRaced, CategoryGoes
<1> QED BY <1>1, <1>2, <1>3 DEF IInv

(* A step of one request that leaves the rows alone: the request goes to   *)
(* another query, with nothing raced, or comes or ends.                    *)
LEMMA RequestStep ==
    ASSUME IInv, NEW q \in Slots, NEW j \in Requests, j.on \in Subject(j.op),
           job' = [job EXCEPT ![q] = j],
           UNCHANGED <<guild, rows, raced>>,
           ops' \in 0..MaxOps, refused' \in {refused, refused \cup {<<job[q].op, job[q].on>>}},
           job[q].op = "deleteCategory" /\ job[q].on \notin raced => refused' = refused,
           job[q].op = "none" => refused' = refused,
           j.op = "updateMessage" /\ j.step = "write" => ~isDeleted[j.on],
           j.op = "deleteCategory" => j.step # "drop"
    PROVE  IInv'
<1>1. UNCHANGED <<guild, categories, channels, categoryId, messages, channelId, isDeleted,
                  content, used, raced>>
  BY DEF rows
<1>2. job \in [Slots -> Requests] /\ TypeOK /\ JobsTyped
  BY DEF IInv, JobsTyped
<1>3. \A p \in Slots : job'[p] = IF p = q THEN j ELSE job[p]
  BY <1>2
<1>4. JobsTyped'
  BY <1>2, <1>3 DEF JobsTyped
<1>5. TypeOK'
  <2>1. refused' \subseteq Ops \X (Categories \cup Channels \cup Messages \cup {Nothing})
    BY <1>2 DEF TypeOK, Requests, Ids
  <2>2. \A p \in Slots : /\ job'[p].op \in Ops \cup {"none"}
                         /\ job'[p].step \in {"idle", "find", "write", "drop", "answer"}
    BY <1>4 DEF JobsTyped, Requests
  <2> QED BY <1>1, <1>2, <2>1, <2>2 DEF TypeOK
<1>6. EditsRaced' /\ DropsRaced'
  BY <1>1, <1>3 DEF IInv, EditsRaced, DropsRaced, At
<1>7. ErasedUnlessRaced'
  BY <1>1 DEF IInv, ErasedUnlessRaced
<1>8. CategoryGoes'
  <2> SUFFICES ASSUME NEW k \in Categories \ raced, <<"deleteCategory", k>> \in refused'
               PROVE  FALSE
    BY <1>1 DEF CategoryGoes
  <2>1. <<"deleteCategory", k>> \notin refused
    BY DEF IInv, CategoryGoes
  <2>2. <<"deleteCategory", k>> = <<job[q].op, job[q].on>>
    BY <2>1
  <2>3. job[q].op = "deleteCategory" /\ job[q].on = k
    BY <2>2
  <2> QED BY <2>1, <2>3
<1> QED BY <1>4, <1>5, <1>6, <1>7, <1>8 DEF IInv

(* The rows, apart from the requests. *)
RowsTyped ==
    /\ guild \in {"text", "voice", "channels", "open", "deleted"}
    /\ categories \subseteq Categories
    /\ channels \subseteq Channels
    /\ categoryId \in [Channels -> Categories \cup {Nothing}]
    /\ messages \subseteq Messages
    /\ channelId \in [Messages -> Channels \cup {Nothing}]
    /\ isDeleted \in [Messages -> BOOLEAN]
    /\ content \in [Messages -> {"written", "edited", "erased"}]
    /\ used \subseteq Categories \cup Channels \cup Messages
    /\ raced \subseteq Categories \cup Messages

(* A step that changes rows, with a request's step or without one. *)
LEMMA RowStep ==
    ASSUME IInv, RowsTyped', JobsTyped', UNCHANGED <<ops, refused>>, raced \subseteq raced',
           EditsRaced', DropsRaced', ErasedUnlessRaced'
    PROVE  IInv'
<1>1. TypeOK'
  <2>1. \A p \in Slots : /\ job'[p].op \in Ops \cup {"none"}
                         /\ job'[p].step \in {"idle", "find", "write", "drop", "answer"}
    BY DEF JobsTyped, Requests
  <2> QED BY <2>1 DEF IInv, TypeOK, RowsTyped
<1>2. CategoryGoes'
  BY DEF IInv, CategoryGoes
<1> QED BY <1>1, <1>2 DEF IInv

LEMMA TypedFacts ==
    ASSUME IInv
    PROVE  RowsTyped /\ JobsTyped /\ TypeOK /\ job \in [Slots -> Requests]
BY DEF IInv, TypeOK, RowsTyped, JobsTyped

(* A request whose slot becomes free, or which goes on to s. *)
LEMMA FinishTyped ==
    ASSUME IInv, NEW q \in Slots, Finish(q)
    PROVE  /\ job' = [job EXCEPT ![q] = Idle] /\ JobsTyped'
           /\ \A p \in Slots : job'[p] = IF p = q THEN Idle ELSE job[p]
<1>1. job' = [job EXCEPT ![q] = Idle] /\ job \in [Slots -> Requests]
  BY TypedFacts DEF Finish
<1>2. \A p \in Slots : job'[p] = IF p = q THEN Idle ELSE job[p]
  BY <1>1
<1> QED BY <1>1, <1>2, IdleTyped, TypedFacts DEF JobsTyped

LEMMA GotoTyped ==
    ASSUME IInv, NEW q \in Slots, NEW s \in {"find", "write", "drop", "answer"}, Goto(q, s)
    PROVE  /\ job' = [job EXCEPT ![q] = [job[q] EXCEPT !.step = s]] /\ JobsTyped'
           /\ [job[q] EXCEPT !.step = s] \in Requests
           /\ job'[q].op = job[q].op /\ job'[q].on = job[q].on /\ job'[q].step = s
           /\ \A p \in Slots : p # q => job'[p] = job[p]
<1> DEFINE old == job[q]
           j == [old EXCEPT !.step = s]
<1>1. job' = [job EXCEPT ![q] = j] /\ job \in [Slots -> Requests] /\ old \in Requests
      /\ old.on \in Subject(old.op)
  BY TypedFacts DEF Goto, JobsTyped
<1>2. j \in Requests /\ j.op = old.op /\ j.on = old.on /\ j.step = s
  <2> HIDE DEF old
  <2> QED BY <1>1 DEF Requests
<1> HIDE DEF j
<1>3. job'[q] = j /\ \A p \in Slots : p # q => job'[p] = job[p]
  BY <1>1
<1>4. JobsTyped'
  BY <1>1, <1>2, <1>3, TypedFacts DEF JobsTyped
<1> QED BY <1>1, <1>2, <1>3, <1>4 DEF j
-----------------------------------------------------------------------------
(* Requests come, look up and end. *)
LEMMA StartStep ==
    ASSUME IInv, NEW q \in Slots, StartAny(q)
    PROVE  IInv'
<1>1. PICK op \in Ops, on \in Ids, into \in Ids :
         Start(q, op, on, into) /\ on \in Subject(op)
  <2>1. /\ categories \subseteq Categories /\ channels \subseteq Channels
        /\ messages \subseteq Messages
    BY DEF IInv, TypeOK
  <2>2. /\ Fresh(Categories) \subseteq Categories /\ Fresh(Channels) \subseteq Channels
        /\ Fresh(Messages) \subseteq Messages
    BY DEF Fresh
  <2> QED BY <2>1, <2>2 DEF StartAny, Ops, Subject, Ids
<1> DEFINE j == [Idle EXCEPT !.op = op, !.on = on, !.into = into, !.step = FirstStep(op)]
<1>2. /\ job' = [job EXCEPT ![q] = j] /\ ops < MaxOps /\ ops' = ops + 1
      /\ UNCHANGED <<guild, rows, refused, raced>>
  BY <1>1 DEF Start
<1>3. /\ on \in Subject(op) /\ FirstStep(op) \in {"find", "write"}
      /\ op = "updateMessage" => FirstStep(op) = "find"
  BY <1>1 DEF FirstStep
<1>4. j \in Requests /\ j.op = op /\ j.on = on /\ j.step = FirstStep(op)
  BY <1>3, IdleTyped DEF Requests, Idle
<1> HIDE DEF j
<1>5. ops' \in 0..MaxOps
  BY <1>2, ContentAssumption DEF IInv, TypeOK
<1> QED BY <1>2, <1>3, <1>4, <1>5, RequestStep

LEMMA EndStep ==
    ASSUME IInv, NEW q \in Slots, Finish(q), UNCHANGED <<guild, rows, ops, refused, raced>>
    PROVE  IInv'
<1>1. job' = [job EXCEPT ![q] = Idle] /\ ops' \in 0..MaxOps
  BY DEF Finish, IInv, TypeOK
<1> QED BY <1>1, IdleTyped, RequestStep

LEMMA RefusedStep ==
    ASSUME IInv, NEW q \in Slots, Refused(q), job[q].op # "none",
           job[q].op = "deleteCategory" => job[q].on \in raced
    PROVE  IInv'
<1>1. job' = [job EXCEPT ![q] = Idle] /\ ops' \in 0..MaxOps
      /\ refused' = refused \cup {<<job[q].op, job[q].on>>} /\ UNCHANGED <<guild, rows, raced>>
  BY DEF Refused, Finish, IInv, TypeOK
<1> QED BY <1>1, IdleTyped, RequestStep

LEMMA LookupStep ==
    ASSUME IInv, NEW q \in Slots,
           FindCategory(q) \/ FindChannel(q) \/ FindMessage(q) \/ AdminStart(q)
    PROVE  IInv'
<1>1. /\ Goto(q, "write") /\ UNCHANGED <<guild, rows, ops, refused, raced>>
      /\ job[q].op # "deleteCategory"
      /\ job[q].op = "updateMessage" => ~isDeleted[job[q].on]
  BY DEF FindCategory, FindChannel, FindMessage, AdminStart, At
<1> DEFINE j == [job[q] EXCEPT !.step = "write"]
<1>2. /\ job' = [job EXCEPT ![q] = j] /\ j \in Requests /\ job'[q].op = job[q].op
      /\ job'[q].on = job[q].on /\ job'[q].step = "write"
  BY <1>1, GotoTyped
<1>3. job'[q] = j /\ ops' \in 0..MaxOps /\ job[q].on \in Subject(job[q].op)
  BY <1>1, <1>2, TypedFacts DEF IInv, TypeOK, JobsTyped
<1> HIDE DEF j
<1> QED BY <1>1, <1>2, <1>3, RequestStep

-----------------------------------------------------------------------------
(* The steps that touch neither a message's text nor a channel's category. *)
LEMMA PlainStep ==
    ASSUME IInv, RowsTyped', JobsTyped',
           UNCHANGED <<ops, refused, raced, categoryId, isDeleted, content>>,
           \A q \in Slots : job'[q] # job[q] => job'[q] = Idle
    PROVE  IInv'
<1>1. EditsRaced' /\ DropsRaced'
  BY IdleTyped DEF IInv, EditsRaced, DropsRaced, At
<1>2. ErasedUnlessRaced'
  BY DEF IInv, ErasedUnlessRaced
<1> QED BY <1>1, <1>2, RowStep

LEMMA CategorySteps ==
    ASSUME IInv, NEW q \in Slots, CreateCategory(q) \/ Detach(q) \/ DropCategory(q)
    PROVE  IInv'
<1> DEFINE k == job[q].on
<1>1. RowsTyped /\ JobsTyped /\ TypeOK /\ job \in [Slots -> Requests]
  BY TypedFacts
<1>2. job[q].op \in {"createCategory", "deleteCategory"} /\ k \in Categories /\ k # Nothing
  BY <1>1, ContentAssumption DEF CreateCategory, Detach, DropCategory, At, JobsTyped, Subject
<1>3. CASE CreateCategory(q)
  <2>1. /\ Finish(q) /\ categories' = categories \cup {k} /\ used' = used \cup {k}
        /\ UNCHANGED <<guild, channels, categoryId, messages, channelId, isDeleted,
                       content, ops, refused, raced>>
    BY <1>3 DEF CreateCategory
  <2>2. RowsTyped'
    BY <1>1, <1>2, <2>1 DEF RowsTyped
  <2> QED BY <2>1, <2>2, FinishTyped, PlainStep
<1>4. CASE Detach(q)
  <2>1. /\ Goto(q, "drop")
        /\ categoryId' = [c \in Channels |-> IF categoryId[c] = k THEN Nothing ELSE categoryId[c]]
        /\ UNCHANGED <<guild, categories, channels, messages, channelId, isDeleted,
                       content, used, ops, refused, raced>>
        /\ job[q].op = "deleteCategory"
    BY <1>4 DEF Detach, At
  <2>2. RowsTyped'
    BY <1>1, <2>1 DEF RowsTyped
  <2>3. /\ JobsTyped' /\ job'[q].op = "deleteCategory" /\ job'[q].on = k
        /\ \A p \in Slots : p # q => job'[p] = job[p]
    BY <2>1, GotoTyped
  <2>4. \A c \in Channels, l \in Categories : categoryId'[c] = l => categoryId[c] = l /\ l # k
    BY <1>1, <2>1, ContentAssumption DEF RowsTyped
  <2>5. DropsRaced'
    <3> SUFFICES ASSUME NEW p \in Slots, At(p, "deleteCategory", "drop")',
                        NEW c \in Channels, categoryId'[c] = job'[p].on
                 PROVE  job'[p].on \in raced'
      BY DEF DropsRaced
    <3>1. job'[p].on \in Categories
      BY <2>3 DEF JobsTyped, Subject, At
    <3>2. categoryId[c] = job'[p].on /\ job'[p].on # k
      BY <3>1, <2>4
    <3>3. p # q
      BY <3>2, <2>3
    <3> QED BY <3>2, <3>3, <2>1, <2>3 DEF IInv, DropsRaced, At
  <2>6. EditsRaced' /\ ErasedUnlessRaced'
    BY <2>1, <2>3 DEF IInv, EditsRaced, ErasedUnlessRaced, At
  <2> QED BY <2>1, <2>2, <2>3, <2>5, <2>6, RowStep
<1>5. CASE DropCategory(q) /\ In(k) # {}
  <2>1. PICK c \in channels : categoryId[c] = k
    BY <1>5 DEF In
  <2>2. k \in raced
    BY <1>1, <1>5, <2>1 DEF DropCategory, IInv, DropsRaced, RowsTyped
  <2> QED BY <1>2, <1>5, <2>2, RefusedStep DEF DropCategory
<1>6. CASE DropCategory(q) /\ In(k) = {}
  <2>1. /\ Finish(q) /\ categories' = categories \ {k}
        /\ UNCHANGED <<guild, channels, categoryId, messages, channelId, isDeleted,
                       content, used, ops, refused, raced>>
    BY <1>6 DEF DropCategory
  <2>2. RowsTyped'
    BY <1>1, <2>1 DEF RowsTyped
  <2> QED BY <2>1, <2>2, FinishTyped, PlainStep
<1> QED BY <1>3, <1>4, <1>5, <1>6

(* Two ways for a channel to come into a category: by a request, and with  *)
(* the default structure.  Both put the categories being deleted on        *)
(* record.                                                                 *)
LEMMA SaveChannelStep ==
    ASSUME IInv, NEW q \in Slots, SaveChannel(q)
    PROVE  IInv'
<1> DEFINE c == job[q].on
           k == job[q].into
<1>1. RowsTyped /\ JobsTyped /\ TypeOK /\ job \in [Slots -> Requests]
  BY TypedFacts
<1>2. job[q].op = "createChannel" /\ c \in Channels
  BY <1>1 DEF SaveChannel, At, JobsTyped, Subject
<1>3. CASE ~Exists \/ k \notin categories \cup {Nothing}
  <2>1. Refused(q)
    BY <1>3 DEF SaveChannel
  <2> QED BY <2>1, <1>2, RefusedStep
<1>4. CASE Exists /\ k \in categories \cup {Nothing}
  <2>1. /\ Finish(q) /\ channels' = channels \cup {c}
        /\ categoryId' = [categoryId EXCEPT ![c] = k]
        /\ used' = used \cup {c}
        /\ raced' = IF BeingDeleted(k) THEN raced \cup {k} ELSE raced
        /\ UNCHANGED <<guild, categories, messages, channelId, isDeleted, content, ops, refused>>
    BY <1>4 DEF SaveChannel
  <2>2. BeingDeleted(k) => k \in Categories
    BY <1>1 DEF BeingDeleted, At, JobsTyped, Subject
  <2>3. RowsTyped'
    <3>1. k \in Categories \cup {Nothing}
      BY <1>1, <1>4 DEF RowsTyped
    <3>2. categoryId' \in [Channels -> Categories \cup {Nothing}]
      BY <1>1, <2>1, <3>1 DEF RowsTyped
    <3> QED BY <1>1, <1>2, <2>1, <2>2, <3>2 DEF RowsTyped
  <2>4. JobsTyped' /\ \A p \in Slots : job'[p] = IF p = q THEN Idle ELSE job[p]
    BY <2>1, FinishTyped
  <2>5. raced \subseteq raced'
    BY <2>1
  <2>6. DropsRaced'
    <3> SUFFICES ASSUME NEW p \in Slots, At(p, "deleteCategory", "drop")',
                        NEW d \in Channels, categoryId'[d] = job'[p].on
                 PROVE  job'[p].on \in raced'
      BY DEF DropsRaced
    <3>1. job'[p] = job[p] /\ At(p, "deleteCategory", "drop")
      BY <2>4, IdleTyped DEF At
    <3>2. CASE d = c
      <4>1. job[p].on = k
        BY <3>1, <3>2, <1>1, <1>2, <2>1 DEF RowsTyped
      <4>2. BeingDeleted(k)
        BY <3>1, <4>1 DEF BeingDeleted
      <4> QED BY <3>1, <4>1, <4>2, <2>1
    <3>3. CASE d # c
      <4>1. categoryId[d] = job[p].on
        BY <3>1, <3>3, <1>1, <2>1 DEF RowsTyped
      <4> QED BY <3>1, <4>1, <2>5 DEF IInv, DropsRaced
    <3> QED BY <3>2, <3>3
  <2>7. EditsRaced'
    BY <2>1, <2>4, <2>5, IdleTyped DEF IInv, EditsRaced, At
  <2>8. ErasedUnlessRaced'
    BY <2>1, <2>5 DEF IInv, ErasedUnlessRaced
  <2> QED BY <2>1, <2>3, <2>4, <2>5, <2>6, <2>7, <2>8, RowStep
<1> QED BY <1>3, <1>4

LEMMA CreationStep ==
    ASSUME IInv, Creation
    PROVE  IInv'
<1>1. RowsTyped /\ JobsTyped /\ TypeOK /\ job \in [Slots -> Requests]
  BY TypedFacts
<1>2. ASSUME NEW k \in {TextCategory, VoiceCategory}, NEW from, NEW to \in {"voice", "channels"},
             DefaultCategory(from, k, to)
      PROVE  IInv'
  <2>1. /\ guild' = to /\ categories' = categories \cup {k} /\ used' = used \cup {k}
        /\ UNCHANGED <<channels, categoryId, messages, channelId, isDeleted,
                       content, job, ops, refused, raced>>
    BY <1>2 DEF DefaultCategory
  <2>2. RowsTyped' /\ JobsTyped'
    BY <1>1, <2>1, ContentAssumption DEF RowsTyped, JobsTyped
  <2> QED BY <2>1, <2>2, PlainStep
<1>3. CASE DefaultStructure
  <2> DEFINE new == {c \in Channels : DefaultChannels[c] # Nothing}
  <2>1. /\ guild' = "open" /\ channels' = channels \cup new /\ used' = used \cup new
        /\ categoryId' = [c \in Channels |-> IF c \in new THEN DefaultChannels[c]
                                                          ELSE categoryId[c]]
        /\ raced' = raced \cup {k \in Categories : BeingDeleted(k)}
        /\ UNCHANGED <<categories, messages, channelId, isDeleted, content, job, ops, refused>>
    BY <1>3 DEF DefaultStructure
  <2>2. \A c \in new : DefaultChannels[c] \in Categories
    BY ContentAssumption
  <2>3. RowsTyped' /\ JobsTyped'
    <3>1. categoryId' \in [Channels -> Categories \cup {Nothing}]
      BY <1>1, <2>1, <2>2 DEF RowsTyped
    <3> QED BY <1>1, <2>1, <3>1 DEF RowsTyped, JobsTyped
  <2>4. DropsRaced'
    <3> SUFFICES ASSUME NEW p \in Slots, At(p, "deleteCategory", "drop")
                 PROVE  job[p].on \in raced'
      BY <2>1 DEF DropsRaced, At
    <3>1. job[p].on \in Categories
      BY <1>1 DEF JobsTyped, Subject, At
    <3> QED BY <3>1, <2>1 DEF BeingDeleted
  <2>5. EditsRaced' /\ ErasedUnlessRaced'
    BY <2>1 DEF IInv, EditsRaced, ErasedUnlessRaced, At
  <2> QED BY <2>1, <2>3, <2>4, <2>5, RowStep
<1>4. CASE DefaultFails
  <2>1. guild' = "open" /\ UNCHANGED <<rows, job, ops, refused, raced>>
    BY <1>4 DEF DefaultFails
  <2>2. RowsTyped' /\ JobsTyped'
    BY <1>1, <2>1 DEF RowsTyped, JobsTyped, rows
  <2> QED BY <2>1, <2>2, PlainStep DEF rows
<1> QED BY <1>2, <1>3, <1>4 DEF Creation

LEMMA RemovalSteps ==
    ASSUME IInv, NEW q \in Slots, DeleteChannel(q) \/ DeleteGuild(q) \/ CreateMessage(q)
    PROVE  IInv'
<1>1. RowsTyped /\ JobsTyped /\ TypeOK /\ job \in [Slots -> Requests]
  BY TypedFacts
<1>2. job[q].op \in {"removeChannel", "deleteGuild", "createMessage"}
  BY DEF DeleteChannel, DeleteGuild, CreateMessage, At
<1>3. CASE Refused(q)
  BY <1>2, <1>3, RefusedStep
<1>4. CASE ~Refused(q)
  <2>1. /\ Finish(q)
        /\ UNCHANGED <<categoryId, isDeleted, content, ops, refused, raced>>
        /\ RowsTyped'
    <3>1. CASE DeleteChannel(q)
      BY <3>1, <1>1, <1>4 DEF DeleteChannel, RowsTyped
    <3>2. CASE DeleteGuild(q)
      BY <3>2, <1>1, <1>4 DEF DeleteGuild, RowsTyped
    <3>3. CASE CreateMessage(q)
      <4> DEFINE m == job[q].on
                 c == job[q].into
      <4>1. /\ Finish(q) /\ messages' = messages \cup {m} /\ c \in channels
            /\ channelId' = [channelId EXCEPT ![m] = c] /\ used' = used \cup {m}
            /\ UNCHANGED <<guild, categories, channels, categoryId, isDeleted,
                           content, ops, refused, raced>>
        BY <3>3, <1>4 DEF CreateMessage
      <4>2. m \in Messages
        BY <3>3, <1>1 DEF CreateMessage, At, JobsTyped, Subject
      <4>3. channelId' \in [Messages -> Channels \cup {Nothing}]
        BY <1>1, <4>1 DEF RowsTyped
      <4> QED BY <1>1, <4>1, <4>2, <4>3 DEF RowsTyped
    <3> QED BY <3>1, <3>2, <3>3
  <2> QED BY <2>1, FinishTyped, PlainStep
<1> QED BY <1>3, <1>4

(* The text of messages. *)
LEMMA MessageSteps ==
    ASSUME IInv, NEW q \in Slots, UpdateMessage(q) \/ RemoveMessage(q)
    PROVE  IInv'
<1> DEFINE m == job[q].on
<1>1. RowsTyped /\ JobsTyped /\ TypeOK /\ job \in [Slots -> Requests]
  BY TypedFacts
<1>2. m \in Messages
  BY <1>1 DEF UpdateMessage, RemoveMessage, At, JobsTyped, Subject
<1>3. CASE UpdateMessage(q)
  <2>1. /\ Goto(q, "answer") /\ content' = [content EXCEPT ![m] = "edited"]
        /\ job[q].op = "updateMessage"
        /\ UNCHANGED <<guild, categories, channels, categoryId, messages, channelId,
                       isDeleted, used, ops, refused, raced>>
    BY <1>3 DEF UpdateMessage, At
  <2>2. RowsTyped'
    BY <1>1, <2>1 DEF RowsTyped
  <2>3. /\ JobsTyped' /\ job'[q].op = "updateMessage" /\ job'[q].step = "answer"
        /\ \A p \in Slots : p # q => job'[p] = job[p]
    BY <2>1, GotoTyped
  <2>4. EditsRaced' /\ DropsRaced'
    BY <2>1, <2>3 DEF IInv, EditsRaced, DropsRaced, At
  <2>5. isDeleted[m] => m \in raced
    BY <1>3 DEF UpdateMessage, IInv, EditsRaced
  <2>6. ErasedUnlessRaced'
    BY <1>1, <2>1, <2>5 DEF IInv, ErasedUnlessRaced, RowsTyped
  <2> QED BY <2>1, <2>2, <2>3, <2>4, <2>6, RowStep
<1>4. CASE RemoveMessage(q)
  <2>1. /\ Finish(q)
        /\ isDeleted' = [isDeleted EXCEPT ![m] = TRUE]
        /\ content' = [content EXCEPT ![m] = "erased"]
        /\ raced' = IF BeingEdited(m) THEN raced \cup {m} ELSE raced
        /\ UNCHANGED <<guild, categories, channels, categoryId, messages, channelId,
                       used, ops, refused>>
    BY <1>4 DEF RemoveMessage
  <2>2. RowsTyped' /\ raced \subseteq raced'
    BY <1>1, <1>2, <2>1 DEF RowsTyped
  <2>3. JobsTyped' /\ \A p \in Slots : job'[p] = IF p = q THEN Idle ELSE job[p]
    BY <2>1, FinishTyped
  <2>4. EditsRaced'
    <3> SUFFICES ASSUME NEW p \in Slots, At(p, "updateMessage", "write")', isDeleted'[job'[p].on]
                 PROVE  job'[p].on \in raced'
      BY DEF EditsRaced
    <3>1. job'[p] = job[p] /\ At(p, "updateMessage", "write")
      BY <2>3, IdleTyped DEF At
    <3>2. CASE job[p].on = m
      BY <3>1, <3>2, <2>1 DEF BeingEdited
    <3>3. CASE job[p].on # m
      <4>1. isDeleted[job[p].on]
        BY <3>1, <3>3, <1>1, <2>1 DEF RowsTyped, JobsTyped, Subject, At
      <4> QED BY <3>1, <4>1, <2>2 DEF IInv, EditsRaced
    <3> QED BY <3>2, <3>3
  <2>5. DropsRaced'
    BY <2>1, <2>2, <2>3, IdleTyped DEF IInv, DropsRaced, At
  <2>6. ErasedUnlessRaced'
    <3> SUFFICES ASSUME NEW n \in Messages \ raced', isDeleted'[n] PROVE content'[n] = "erased"
      BY DEF ErasedUnlessRaced
    <3> QED BY <1>1, <2>1, <2>2 DEF IInv, ErasedUnlessRaced, RowsTyped
  <2> QED BY <2>1, <2>2, <2>3, <2>4, <2>5, <2>6, RowStep
<1> QED BY <1>3, <1>4
-----------------------------------------------------------------------------
(* Every step keeps the invariant. *)
LEMMA InvariantStep == IInv /\ [Next]_vars => IInv'
<1> SUFFICES ASSUME IInv, [Next]_vars PROVE IInv'
  OBVIOUS
<1>1. CASE Creation
  BY <1>1, CreationStep
<1>2. ASSUME NEW q \in Slots, Fail(q) \/ AnswerUpdate(q) PROVE IInv'
  BY <1>2, EndStep DEF Fail, AnswerUpdate
<1>3. ASSUME NEW q \in Slots, Step(q) PROVE IInv'
  BY <1>2, <1>3, StartStep, LookupStep, CategorySteps, SaveChannelStep, RemovalSteps,
     MessageSteps DEF Step
<1>4. CASE UNCHANGED vars
  <2>1. UNCHANGED <<guild, rows, job, ops, refused, raced>>
    BY <1>4 DEF vars
  <2>2. RowsTyped' /\ JobsTyped'
    BY <2>1, TypedFacts DEF RowsTyped, JobsTyped, rows
  <2> QED BY <2>1, <2>2, PlainStep DEF rows
<1> QED BY <1>1, <1>3, <1>4 DEF Next

THEOREM Inductive == Spec => []IInv
BY Initially, InvariantStep, PTL DEF Spec

(* The state has its type. *)
THEOREM TypeCorrect == Spec => []TypeOK
<1>1. IInv => TypeOK
  BY DEF IInv
<1> QED BY Inductive, <1>1, PTL

(* The text of a deleted message is gone for good, but for an edit that    *)
(* had found the message before: with any number of edits and deletions.   *)
THEOREM DeletedIsErased == Spec => []ErasedUnlessRaced
<1>1. IInv => ErasedUnlessRaced
  BY DEF IInv
<1> QED BY Inductive, <1>1, PTL

(* deleteCategory fails on a foreign key only when a channel came into the *)
(* category between its two queries.                                       *)
THEOREM CategoriesGo == Spec => []CategoryGoes
<1>1. IInv => CategoryGoes
  BY DEF IInv
<1> QED BY Inductive, <1>1, PTL

(* No request brings a deleted message back. *)
THEOREM DeletionIsFinal == Spec => DeletedStays
<1>1. IInv /\ [Next]_vars => [\A m \in Messages : isDeleted[m] => isDeleted'[m]]_vars
  <2> SUFFICES ASSUME IInv, Next, NEW m \in Messages, isDeleted[m] PROVE isDeleted'[m]
    BY DEF DeletedStays
  <2>1. isDeleted \in [Messages -> BOOLEAN]
    BY DEF IInv, TypeOK
  <2>2. CASE Creation
    BY <2>2 DEF Creation, DefaultCategory, DefaultStructure, DefaultFails, rows
  <2>3. ASSUME NEW q \in Slots, RemoveMessage(q) PROVE isDeleted'[m]
    BY <2>1, <2>3 DEF RemoveMessage
  <2>4. ASSUME NEW q \in Slots, Step(q), ~RemoveMessage(q) PROVE isDeleted'[m]
    <3>1. UNCHANGED isDeleted
      BY <2>4 DEF Step, StartAny, Start, Fail, AdminStart, CreateCategory, Detach, DropCategory,
         FindCategory, SaveChannel, FindChannel, DeleteChannel, DeleteGuild, CreateMessage,
         FindMessage, UpdateMessage, AnswerUpdate, Refused, rows
    <3> QED BY <3>1
  <2> QED BY <2>2, <2>3, <2>4 DEF Next
<1> QED BY Inductive, <1>1, PTL DEF Spec, DeletedStays
=============================================================================
