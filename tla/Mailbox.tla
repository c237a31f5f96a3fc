------------------------------ MODULE Mailbox -------------------------------
(***************************************************************************)
(* The mailbox of an application server: a loop copies Mail entries of the *)
(* bus into a bounded buffer and check_mail drains it.  Loop and requests  *)
(* run on one thread, so each action is one of their synchronous stretches.*)
(*                                                                         *)
(* `delivered` is what callers received since the server started;          *)
(* `abandoned` are mails drained for a caller that had gone away.          *)
(***************************************************************************)
EXTENDS Integers, Sequences, FiniteSets

CONSTANTS
    MaxMailBuffer,   \* MAX_MAIL_BUFFER
    PollLimit,       \* max_entries of a poll
    MaxLog,          \* bound on the log
    MaxFaults        \* bound on restarts and abandoned requests

MailboxAssumption ==
    MaxMailBuffer \in Nat \ {0} /\ PollLimit \in Nat \ {0} /\ MaxLog \in Nat /\ MaxFaults \in Nat

VARIABLES log, next, mail, delivered, abandoned, faults

vars == <<log, next, mail, delivered, abandoned, faults>>

(* Contents of a Mail: a message, a reply to a message, a reply that names *)
(* none, or nothing.  "other" is an entry that is no mail.                 *)
Kinds == {"message", "reply", "bare_reply", "empty"}

Mails == {p \in 0 .. (Len(log) - 1) : log[p + 1] \in Kinds}

Init ==
    /\ log = <<>> /\ next = 0 /\ mail = <<>>
    /\ delivered = <<>> /\ abandoned = {} /\ faults = 0

(* send_mail, and any other client's append.                               *)
SendMail(kind) ==
    /\ Len(log) < MaxLog
    /\ log' = Append(log, kind)
    /\ UNCHANGED <<next, mail, delivered, abandoned, faults>>

(* What process_entry keeps of a mail: whether it names a message it       *)
(* replies to.                                                             *)
MailLogEntry(p) == [position |-> p, inReplyTo |-> log[p + 1] = "reply"]

(* Mutant: a full buffer refuses the new mail.                             *)
PushIfRoom(buffer, entry) ==
    IF Len(buffer) >= MaxMailBuffer THEN buffer ELSE Append(buffer, entry)

PushBack(buffer, entry) ==
    Append(IF Len(buffer) >= MaxMailBuffer THEN Tail(buffer) ELSE buffer, entry)

(* The mails of a blocking_poll page, and where the next one starts.       *)
Page ==
    LET found == {p \in Mails : p >= next}
    IN  {p \in found : Cardinality({q \in found : q < p}) < PollLimit}

(* Mutant: the cursor stays on the page's last mail.                       *)
RepeatLast ==
    IF Cardinality(Page) = PollLimit
    THEN CHOOSE p \in Page : \A q \in Page : q <= p
    ELSE Len(log)

NextStart ==
    IF Cardinality(Page) = PollLimit
    THEN (CHOOSE p \in Page : \A q \in Page : q <= p) + 1
    ELSE Len(log)

Buffered ==
    LET upto[p \in next .. Len(log)] ==
          IF p = next THEN mail
          ELSE IF p - 1 \in Page
               THEN PushBack(upto[p - 1], MailLogEntry(p - 1))
               ELSE upto[p - 1]
    IN  upto[Len(log)]

(* A failed poll sleeps and polls again: nothing changes.                  *)
PollAndReceive ==
    /\ Len(log) > next
    /\ mail' = Buffered
    /\ next' = NextStart
    /\ UNCHANGED <<log, delivered, abandoned, faults>>

(* Mutant: every mail is answered as a message.                            *)
AsMessage(m) == [position |-> m.position, kind |-> "message"]

(* The response: a mail that names a message is a reply again.             *)
AsResponse(m) ==
    [position |-> m.position, kind |-> IF m.inReplyTo THEN "reply" ELSE "message"]

CheckMail ==
    /\ mail # <<>>
    /\ delivered' = delivered \o [i \in DOMAIN mail |-> AsResponse(mail[i])]
    /\ mail' = <<>>
    /\ UNCHANGED <<log, next, abandoned, faults>>

(* The caller is gone when the worker replies; the mail is drained.        *)
CheckMailAbandoned ==
    /\ faults < MaxFaults /\ faults' = faults + 1
    /\ mail # <<>>
    /\ abandoned' = abandoned \cup {mail[i].position : i \in DOMAIN mail}
    /\ mail' = <<>>
    /\ UNCHANGED <<log, next, delivered>>

(* A new server replays the bus from the start.                            *)
Restart ==
    /\ faults < MaxFaults /\ faults' = faults + 1
    /\ next' = 0 /\ mail' = <<>> /\ delivered' = <<>> /\ abandoned' = {}
    /\ UNCHANGED log

Next ==
    \/ \E kind \in Kinds \cup {"other"} : SendMail(kind)
    \/ PollAndReceive
    \/ CheckMail
    \/ CheckMailAbandoned
    \/ Restart

Spec == Init /\ [][Next]_vars

-----------------------------------------------------------------------------
(* Since the server started no mail is received twice or out of order, and *)
(* what is buffered comes after what was received.                         *)
MailOnceInOrder ==
    LET positions == [i \in DOMAIN delivered |-> delivered[i].position]
                     \o [i \in DOMAIN mail |-> mail[i].position]
    IN  \A i, j \in DOMAIN positions : i < j => positions[i] < positions[j]

(* The mailbox loses a mail only to MAX_MAIL_BUFFER newer ones: it drops   *)
(* the oldest mail, never the newest.                                      *)
OnlyOverflowLoses ==
    \A p \in Mails :
      p < next => \/ \E i \in DOMAIN mail : mail[i].position = p
                  \/ \E i \in DOMAIN delivered : delivered[i].position = p
                  \/ p \in abandoned
                  \/ Cardinality({q \in Mails : p < q /\ q < next}) >= MaxMailBuffer

(* A reply reaches the reader as a reply, and nothing else does.           *)
RepliesStayReplies ==
    \A i \in DOMAIN delivered :
      (delivered[i].kind = "reply") <=> (log[delivered[i].position + 1] = "reply")

=============================================================================
