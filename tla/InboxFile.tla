----------------------------- MODULE InboxFile -----------------------------
(* The daemon's message store: its list in memory and the JSONL file that    *)
(* outlives it (daemon/message-store.ts), filled by the messages of the hub  *)
(* and by the local API, read and marked by GET /inbox.  A process that dies *)
(* while it writes leaves a prefix of what it was writing.                   *)
EXTENDS Naturals, SequencesExt

CONSTANTS Mail,                      \* ids of the hub's messages
          NoId,                      \* a local record's id
          MaxLines, MaxCuts          \* bounds of the exploration
ASSUME InboxAssumption == NoId \notin Mail /\ MaxLines \in Nat /\ MaxCuts \in Nat

VARIABLES alive,
          messages,    \* MessageStore.messages
          file,        \* the file's lines; a Garbled one does not parse
          unfinished,  \* the last line has no newline
          confirmed,   \* ids whose ack reached the hub: it never resends them
          tornAppends, lostRewrite  \* how writes were cut so far
inboxVars == <<alive, messages, file, unfinished, confirmed, tornAppends, lostRewrite>>

Stored == [id : Mail \cup {NoId}, read : BOOLEAN]
Garbled == [id |-> NoId, read |-> FALSE]
Ids(s) == {s[i].id : i \in DOMAIN s} \ {NoId}

InboxInit ==
  /\ alive = TRUE /\ messages = <<>> /\ file = <<>> /\ unfinished = FALSE
  /\ confirmed = {} /\ tornAppends = 0 /\ lostRewrite = FALSE

\* Bug variant: the redelivered message is stored again.
AlreadyStoredNever(id) == FALSE

\* The id-based dedup of append; local records have no id.
AlreadyStored(id) == id # NoId /\ id \in Ids(messages)

\* appendFileSync: the line is glued to an unfinished one and both are lost.
Written(line) ==
  IF unfinished THEN Append(Front(file), Garbled) ELSE Append(file, line)

Store(line) ==
  IF AlreadyStored(line.id)
  THEN UNCHANGED <<messages, file, unfinished>>
  ELSE /\ Len(file) < MaxLines
       /\ messages' = Append(messages, line)
       /\ file' = Written(line) /\ unfinished' = FALSE

\* The message handler stores, then acks; the ack may be lost, and a message
\* the hub has no ack for comes again.
OnMessage(m) ==
  /\ alive /\ m \notin confirmed
  /\ Store([id |-> m, read |-> FALSE])
  /\ confirmed' \in {confirmed, confirmed \cup {m}}
  /\ UNCHANGED <<alive, tornAppends, lostRewrite>>

\* POST /send and /delegate record what they handed to the socket.
OnLocalSend ==
  /\ alive /\ Store([id |-> NoId, read |-> TRUE])
  /\ UNCHANGED <<alive, confirmed, tornAppends, lostRewrite>>

\* Bug variant: the flags are set in memory only.
RewrittenNever(before, after) == file

\* rewrite: the file is what memory holds.
Rewritten(before, after) == IF before = after THEN file ELSE after

Marked == [i \in DOMAIN messages |->
             IF messages[i].id = NoId THEN messages[i] ELSE [messages[i] EXCEPT !.read = TRUE]]

\* GET /inbox answers with the unread messages and marks them read.
GetInbox ==
  /\ alive /\ messages' = Marked
  /\ file' = Rewritten(messages, Marked)
  /\ unfinished' = (unfinished /\ messages = Marked)
  /\ UNCHANGED <<alive, confirmed, tornAppends, lostRewrite>>

Down == alive' = FALSE /\ messages' = <<>>

\* The process dies between two operations.
Dies == alive /\ Down /\ UNCHANGED <<file, unfinished, confirmed, tornAppends, lostRewrite>>

\* It dies, or the disk is full, inside appendFileSync: no ack was sent.
DiesInAppend(m) ==
  /\ alive /\ m \notin confirmed /\ ~AlreadyStored(m)
  /\ tornAppends < MaxCuts /\ Len(file) < MaxLines
  /\ Down
  /\ file' = IF unfinished THEN Append(Front(file), Garbled) ELSE Append(file, Garbled)
  /\ unfinished' = TRUE /\ tornAppends' = tornAppends + 1
  /\ UNCHANGED <<confirmed, lostRewrite>>

\* It dies inside writeFileSync, which had truncated the file.
DiesInRewrite ==
  /\ alive /\ messages # Marked /\ ~lostRewrite
  /\ Down
  /\ \E kept \in 0 .. Len(messages) - 1 : \E torn \in BOOLEAN :
       /\ file' = SubSeq(Marked, 1, kept) \o (IF torn THEN <<Garbled>> ELSE <<>>)
       /\ unfinished' = torn
  /\ lostRewrite' = TRUE
  /\ UNCHANGED <<confirmed, tornAppends>>

\* Bug variant: a line that does not parse ends the loading.
LoadedUpToGarbage ==
  LET first == SelectInSeq(file, LAMBDA line : line = Garbled)
  IN  IF first = 0 THEN file ELSE SubSeq(file, 1, first - 1)

\* load: line by line, and a corrupted one is skipped.
Loaded ==
  LET read[n \in 0 .. Len(file)] ==
        IF n = 0 THEN <<>>
        ELSE IF file[n] = Garbled THEN read[n - 1] ELSE Append(read[n - 1], file[n])
  IN  read[Len(file)]

Restarts ==
  /\ ~alive /\ alive' = TRUE /\ messages' = Loaded
  /\ UNCHANGED <<file, unfinished, confirmed, tornAppends, lostRewrite>>

InboxNext ==
  \/ \E m \in Mail : OnMessage(m) \/ DiesInAppend(m)
  \/ OnLocalSend \/ GetInbox \/ Dies \/ DiesInRewrite \/ Restarts

InboxSpec == InboxInit /\ [][InboxNext]_inboxVars

-----------------------------------------------------------------------------
\* Every variable has its type, and a living daemon knows every message that is
\* in its file: the dedup looks in memory only.
InboxTypeOK ==
  /\ alive \in BOOLEAN /\ unfinished \in BOOLEAN /\ lostRewrite \in BOOLEAN
  /\ messages \in Seq(Stored) /\ file \in Seq(Stored)
  /\ alive => Ids(file) \subseteq Ids(messages)
  /\ confirmed \subseteq Mail /\ tornAppends \in 0 .. MaxCuts

\* A message the hub will never send again can be read after any restart, but
\* for one lost per append that was cut short (the next line is glued to its
\* remains) and for what a rewrite cut short had not reached.
ConfirmedIsReadable ==
  ~lostRewrite => Cardinality(confirmed \ Ids(file)) <= tornAppends

\* No message is in the inbox twice, before or after a restart, however often
\* the hub redelivers it.
StoredAtMostOnce ==
  \A s \in {messages, file} : \A i, j \in DOMAIN s :
    s[i].id = s[j].id /\ s[i].id # NoId => i = j

ReadIn(s, m) == \E i \in DOMAIN s : s[i].id = m /\ s[i].read

\* What was shown as read is never shown as unread again, whatever dies, as
\* long as the file still has it.
ReadStaysRead ==
  \A m \in Mail : ReadIn(messages, m) /\ m \in Ids(file') => ReadIn(file', m)

\* No step makes the message file lose, double or forget anything the code can help.
InboxIsDurable ==
  [][(ConfirmedIsReadable /\ StoredAtMostOnce)' /\ ReadStaysRead]_inboxVars
=============================================================================
