------------------------------- MODULE Content -------------------------------
(***************************************************************************)
(* What a guild holds: its categories, the channels in them, and the       *)
(* messages in the channels (guilds.service.ts, channels.service.ts,       *)
(* messages.service.ts, admin.service.ts and their entities).              *)
(*                                                                         *)
(* A request is a chain of queries without a transaction, as in Guilds,    *)
(* and is here from the moment it is permitted.  The database refuses a    *)
(* write that breaks a foreign key of the entities: categoryId, channelId  *)
(* and replyToId have no onDelete, guildId cascades.  A query may also     *)
(* fail by itself, which ends the request where it stands.                 *)
(***************************************************************************)
EXTENDS Naturals

CONSTANTS
    Categories, Channels, Messages,    \* identities of rows
    TextCategory, VoiceCategory,       \* the ones that create() makes
    DefaultChannels,                   \* the channels it puts into them
    Slots,                             \* requests in flight
    MaxOps,                            \* bound: requests in all
    Nothing                            \* null

ASSUME ContentAssumption ==
    /\ {TextCategory, VoiceCategory} \subseteq Categories
    /\ DefaultChannels \in [Channels -> {TextCategory, VoiceCategory, Nothing}]
    /\ Nothing \notin Categories \cup Channels \cup Messages
    /\ MaxOps \in Nat

VARIABLES
    guild,       \* how far createDefaultStructure is, "open" or "deleted"
    categories,  \* rows of channel_categories
    channels,    \* rows of channels
    categoryId,  \* categoryId[c]
    messages,    \* rows of messages
    channelId,   \* channelId[m]
    isDeleted,   \* isDeleted[m]
    content,     \* content[m]: "written", "edited" or "erased"
    used,        \* identities given out
    job,         \* job[q]: the request in slot q
    ops,         \* requests started
    refused,     \* history: requests that a foreign key ended
    raced        \* history: rows written between a request's two queries

rows == <<categories, channels, categoryId, messages, channelId, isDeleted,
          content, used>>
vars == <<guild, rows, job, ops, refused, raced>>

Idle == [op |-> "none", step |-> "idle", on |-> Nothing, into |-> Nothing]

Ops == {"createCategory", "deleteCategory", "createChannel", "removeChannel",
        "createMessage", "updateMessage", "removeMessage", "deleteGuild"}

TypeOK ==
    /\ guild \in {"text", "voice", "channels", "open", "deleted"}
    /\ categories \subseteq Categories
    /\ channels \subseteq Channels
    /\ categoryId \in [Channels -> Categories \cup {Nothing}]
    /\ messages \subseteq Messages
    /\ channelId \in [Messages -> Channels \cup {Nothing}]
    /\ isDeleted \in [Messages -> BOOLEAN]
    /\ content \in [Messages -> {"written", "edited", "erased"}]
    /\ used \subseteq Categories \cup Channels \cup Messages
    /\ \A q \in Slots : /\ job[q].op \in Ops \cup {"none"}
                        /\ job[q].step \in {"idle", "find", "write", "drop", "answer"}
    /\ ops \in 0..MaxOps
    /\ refused \subseteq Ops \X (Categories \cup Channels \cup Messages \cup {Nothing})
    /\ raced \subseteq Categories \cup Messages

(* create() has saved the guild and its owner's member row. *)
Init ==
    /\ guild = "text"
    /\ categories = {} /\ channels = {} /\ messages = {}
    /\ categoryId = [c \in Channels |-> Nothing]
    /\ channelId = [m \in Messages |-> Nothing]
    /\ isDeleted = [m \in Messages |-> FALSE]
    /\ content = [m \in Messages |-> "written"]
    /\ used = {}
    /\ job = [q \in Slots |-> Idle]
    /\ ops = 0
    /\ refused = {} /\ raced = {}

Exists == guild # "deleted"

(* The request in q runs the query s of op. *)
At(q, op, s) == job[q].op = op /\ job[q].step = s

(* A deleteCategory of k is between its two queries. *)
BeingDeleted(k) == \E p \in Slots : At(p, "deleteCategory", "drop") /\ job[p].on = k
-----------------------------------------------------------------------------
(* createDefaultStructure: two categories, then all channels in one save.  *)
(* It may stop after any of them, and members are at work meanwhile.       *)
DefaultCategory(from, k, to) ==
    /\ guild = from
    /\ guild' = to
    /\ categories' = categories \cup {k}
    /\ used' = used \cup {k}
    /\ UNCHANGED <<channels, categoryId, messages, channelId, isDeleted,
                   content, job, ops, refused, raced>>

DefaultStructure ==
    LET made == {c \in Channels : DefaultChannels[c] # Nothing} IN
    /\ guild = "channels"
    /\ guild' = "open"
    /\ \A c \in made : DefaultChannels[c] \in categories
    /\ channels' = channels \cup made
    /\ categoryId' = [c \in Channels |-> IF c \in made THEN DefaultChannels[c]
                                                      ELSE categoryId[c]]
    /\ used' = used \cup made
    /\ raced' = raced \cup {k \in Categories : BeingDeleted(k)}
    /\ UNCHANGED <<categories, messages, channelId, isDeleted, content, job,
                   ops, refused>>

(* A save fails: the rest of the structure is never made. *)
DefaultFails ==
    /\ guild \in {"text", "voice", "channels"}
    /\ guild' = "open"
    /\ UNCHANGED <<rows, job, ops, refused, raced>>
-----------------------------------------------------------------------------
(* Requests. *)
FirstStep(op) ==
    IF op \in {"createChannel", "removeChannel", "updateMessage",
               "removeMessage"} THEN "find" ELSE "write"

Start(q, op, on, into) ==
    /\ Exists
    /\ job[q].step = "idle"
    /\ ops < MaxOps
    /\ ops' = ops + 1
    /\ job' = [job EXCEPT ![q] = [Idle EXCEPT !.op = op, !.on = on, !.into = into,
                                              !.step = FirstStep(op)]]
    /\ UNCHANGED <<guild, rows, refused, raced>>

(* The default rows' identities are not given to others. *)
Fresh(S) ==
    {x \in S \ used : /\ x \notin {TextCategory, VoiceCategory}
                      /\ x \in Channels => DefaultChannels[x] = Nothing}

StartAny(q) ==
    \/ \E k \in Fresh(Categories) : Start(q, "createCategory", k, Nothing)
    \/ \E k \in categories : Start(q, "deleteCategory", k, Nothing)
    \/ \E c \in Fresh(Channels), k \in categories \cup {Nothing} :
         Start(q, "createChannel", c, k)
    \/ \E c \in channels : Start(q, "removeChannel", c, Nothing)
    \/ \E m \in Fresh(Messages), c \in channels : Start(q, "createMessage", m, c)
    \/ \E m \in messages, op \in {"updateMessage", "removeMessage"} :
         Start(q, op, m, Nothing)
    \/ Start(q, "deleteGuild", Nothing, Nothing)

Finish(q) == job' = [job EXCEPT ![q] = Idle]
Goto(q, s) == job' = [job EXCEPT ![q].step = s]

(* A read finds nothing (404), or a query fails (500). *)
Fail(q) ==
    /\ job[q].step # "idle"
    /\ Finish(q)
    /\ UNCHANGED <<guild, rows, ops, refused, raced>>

(* A foreign key stands against the write. *)
Refused(q) ==
    /\ Finish(q)
    /\ refused' = refused \cup {<<job[q].op, job[q].on>>}
    /\ UNCHANGED <<guild, rows, ops, raced>>
-----------------------------------------------------------------------------
(* createCategory *)
CreateCategory(q) ==
    LET k == job[q].on IN
    /\ At(q, "createCategory", "write")
    /\ Exists /\ k \notin used
    /\ categories' = categories \cup {k}
    /\ used' = used \cup {k}
    /\ Finish(q)
    /\ UNCHANGED <<guild, channels, categoryId, messages, channelId, isDeleted,
                   content, ops, refused, raced>>

(* mutant: the category goes first *)
DropFirst(q) ==
    /\ At(q, "deleteCategory", "write")
    /\ Goto(q, "drop")
    /\ UNCHANGED <<guild, rows, ops, refused, raced>>

(* deleteCategory: the channels are detached, then the category goes.      *)
Detach(q) ==
    LET k == job[q].on IN
    /\ At(q, "deleteCategory", "write")
    /\ categoryId' = [c \in Channels |-> IF categoryId[c] = k THEN Nothing
                                                            ELSE categoryId[c]]
    /\ Goto(q, "drop")
    /\ UNCHANGED <<guild, categories, channels, messages, channelId, isDeleted,
                   content, used, ops, refused, raced>>

In(k) == {c \in channels : categoryId[c] = k}

DropCategory(q) ==
    LET k == job[q].on IN
    /\ At(q, "deleteCategory", "drop")
    /\ IF In(k) # {} THEN Refused(q)
       ELSE /\ categories' = categories \ {k}
            /\ Finish(q)
            /\ UNCHANGED <<guild, channels, categoryId, messages, channelId,
                           isDeleted, content, used, ops, refused, raced>>

(* createChannel: the category is looked up, then the channel saved.       *)
FindCategory(q) ==
    /\ At(q, "createChannel", "find")
    /\ job[q].into \in categories \cup {Nothing}
    /\ Goto(q, "write")
    /\ UNCHANGED <<guild, rows, ops, refused, raced>>

SaveChannel(q) ==
    LET c == job[q].on
        k == job[q].into
    IN
    /\ At(q, "createChannel", "write")
    /\ IF ~Exists \/ k \notin categories \cup {Nothing} THEN Refused(q)
       ELSE /\ c \notin used
            /\ channels' = channels \cup {c}
            /\ categoryId' = [categoryId EXCEPT ![c] = k]
            /\ used' = used \cup {c}
            /\ raced' = IF BeingDeleted(k) THEN raced \cup {k} ELSE raced
            /\ Finish(q)
            /\ UNCHANGED <<guild, categories, messages, channelId, isDeleted,
                           content, ops, refused>>
-----------------------------------------------------------------------------
(* ChannelsService.remove; AdminService.deleteChannel has only the write.  *)
FindChannel(q) ==
    /\ At(q, "removeChannel", "find")
    /\ job[q].on \in channels
    /\ Goto(q, "write")
    /\ UNCHANGED <<guild, rows, ops, refused, raced>>

Of(c) == {m \in messages : channelId[m] = c}

DeleteChannel(q) ==
    LET c == job[q].on IN
    /\ At(q, "removeChannel", "write")
    /\ IF Of(c) # {} THEN Refused(q)
       ELSE /\ channels' = channels \ {c}
            /\ Finish(q)
            /\ UNCHANGED <<guild, categories, categoryId, messages, channelId,
                           isDeleted, content, used, ops, refused, raced>>

(* GuildsService.delete: categories and channels go with the guild. *)
DeleteGuild(q) ==
    /\ At(q, "deleteGuild", "write")
    /\ IF messages # {} /\ Exists THEN Refused(q)
       ELSE /\ guild' = "deleted"
            /\ categories' = {} /\ channels' = {}
            /\ Finish(q)
            /\ UNCHANGED <<categoryId, messages, channelId, isDeleted, content,
                           used, ops, refused, raced>>
-----------------------------------------------------------------------------
(* MessagesService.create *)
CreateMessage(q) ==
    LET m == job[q].on
        c == job[q].into
    IN
    /\ At(q, "createMessage", "write")
    /\ IF c \notin channels THEN Refused(q)
       ELSE /\ m \notin used
            /\ messages' = messages \cup {m}
            /\ channelId' = [channelId EXCEPT ![m] = c]
            /\ used' = used \cup {m}
            /\ Finish(q)
            /\ UNCHANGED <<guild, categories, channels, categoryId, isDeleted,
                           content, ops, refused, raced>>

(* mutant: deleted messages are found *)
FindAnyMessage(q) ==
    /\ job[q].op \in {"updateMessage", "removeMessage"} /\ job[q].step = "find"
    /\ Goto(q, "write")
    /\ UNCHANGED <<guild, rows, ops, refused, raced>>

(* findOne, of update and of remove *)
FindMessage(q) ==
    /\ job[q].op \in {"updateMessage", "removeMessage"} /\ job[q].step = "find"
    /\ ~isDeleted[job[q].on]
    /\ Goto(q, "write")
    /\ UNCHANGED <<guild, rows, ops, refused, raced>>

(* mutant: the entity that was found is saved, not the edited columns *)
SaveEntity(q) ==
    LET m == job[q].on IN
    /\ At(q, "updateMessage", "write")
    /\ content' = [content EXCEPT ![m] = "edited"]
    /\ isDeleted' = [isDeleted EXCEPT ![m] = FALSE]
    /\ Goto(q, "answer")
    /\ UNCHANGED <<guild, categories, channels, categoryId, messages, channelId,
                   used, ops, refused, raced>>

(* update: the edited columns are written, whatever the row is by then. *)
UpdateMessage(q) ==
    LET m == job[q].on IN
    /\ At(q, "updateMessage", "write")
    /\ content' = [content EXCEPT ![m] = "edited"]
    /\ Goto(q, "answer")
    /\ UNCHANGED <<guild, categories, channels, categoryId, messages, channelId,
                   isDeleted, used, ops, refused, raced>>

(* findOne again, for the answer *)
AnswerUpdate(q) ==
    /\ At(q, "updateMessage", "answer")
    /\ ~isDeleted[job[q].on]
    /\ Finish(q)
    /\ UNCHANGED <<guild, rows, ops, refused, raced>>

BeingEdited(m) == \E p \in Slots : At(p, "updateMessage", "write") /\ job[p].on = m

(* remove, and AdminService.deleteMessage, which has only this write *)
RemoveMessage(q) ==
    LET m == job[q].on IN
    /\ At(q, "removeMessage", "write")
    /\ isDeleted' = [isDeleted EXCEPT ![m] = TRUE]
    /\ content' = [content EXCEPT ![m] = "erased"]
    /\ raced' = IF BeingEdited(m) THEN raced \cup {m} ELSE raced
    /\ Finish(q)
    /\ UNCHANGED <<guild, categories, channels, categoryId, messages, channelId,
                   used, ops, refused>>
-----------------------------------------------------------------------------
(* The admin's operations: no read before the write. *)
AdminStart(q) ==
    /\ job[q].op \in {"removeChannel", "removeMessage"} /\ job[q].step = "find"
    /\ Goto(q, "write")
    /\ UNCHANGED <<guild, rows, ops, refused, raced>>

Creation ==
    \/ DefaultCategory("text", TextCategory, "voice")
    \/ DefaultCategory("voice", VoiceCategory, "channels")
    \/ DefaultStructure
    \/ DefaultFails

Step(q) ==
    \/ StartAny(q) \/ Fail(q) \/ AdminStart(q)
    \/ CreateCategory(q) \/ Detach(q) \/ DropCategory(q)
    \/ FindCategory(q) \/ SaveChannel(q)
    \/ FindChannel(q) \/ DeleteChannel(q) \/ DeleteGuild(q)
    \/ CreateMessage(q) \/ FindMessage(q)
    \/ UpdateMessage(q) \/ AnswerUpdate(q) \/ RemoveMessage(q)

Next == Creation \/ \E q \in Slots : Step(q)

Spec == Init /\ [][Next]_vars
-----------------------------------------------------------------------------
(* A deleted message is never shown again: no edit under way brings it     *)
(* back.                                                                   *)
DeletedStays ==
    [][\A m \in Messages : isDeleted[m] => isDeleted'[m]]_vars

(* The text of a deleted message is gone, also where replies quote it,     *)
(* unless an edit had found the message before the deletion.               *)
ErasedUnlessRaced ==
    \A m \in Messages \ raced : isDeleted[m] => content[m] = "erased"

(* deleteCategory is refused only when a channel was created in the        *)
(* category between its two queries; otherwise detaching is enough.        *)
CategoryGoes ==
    \A k \in Categories \ raced : <<"deleteCategory", k>> \notin refused

-----------------------------------------------------------------------------
(* What the documentation says and the code does not keep.  TLC refutes    *)
(* the statements below; the README gives the behaviours.                  *)

(* "Удаление сообщения" (TEST_CHECKLIST.md:82): the text of a deleted      *)
(* message is "[Message deleted]".                                         *)
DeletedErased == \A m \in Messages : isDeleted[m] => content[m] = "erased"

(* "Удаление канала" (TEST_CHECKLIST.md:66): a channel can be deleted.     *)
ChannelDeleted == \A c \in Channels : <<"removeChannel", c>> \notin refused

(* "Каналы категории не удаляются — переходят в «без категории»"           *)
(* (guilds.service.ts:323): the channels of a guild are among those that   *)
(* findOne and getChannels return.                                         *)
ChannelsListed == \A c \in channels : categoryId[c] \in categories
=============================================================================
