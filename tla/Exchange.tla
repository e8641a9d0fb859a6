------------------------------ MODULE Exchange ------------------------------
(***************************************************************************)
(* One connection as its client sees it: what handle_http and handle_https *)
(* read of the bytes that arrive, and what send_http_response and          *)
(* send_https_response write of the answer, into a socket buffer that the  *)
(* client empties when it likes, from a file that others change meanwhile. *)
(*                                                                         *)
(* EpollWorker lets one thread at a time work on a connection (Exclusive), *)
(* hence one location pc.  An event without input, the subject of that     *)
(* module, does not occur here, and a TLS handshake is over.               *)
(*                                                                         *)
(* Bytes are counted in units: a header or a text is one, a file any       *)
(* number.  A segment is what one send, or one TLS record, carries: pieces *)
(* of requests, all for the same file.  Plain segments run together.       *)
(***************************************************************************)
EXTENDS Naturals, Sequences, Functions

CONSTANTS
    Scripts,    \* what clients send: sequences of segments, of kinds of pieces
    Sizes,      \* sizes a file may have
    Cap,        \* units the socket buffer holds
    MaxChanges, \* bound: changes of the file
    NoFile

VARIABLES
    tls, patient,       \* the client: whether it speaks TLS; whether it sends each
    script, inbox, fin, \*   request in one segment and waits for its answer
    count, asked,       \* pieces sent so far; the whole requests among them
    room,               \* units free in the socket buffer
    disk, changes,      \* size of the file, or NoFile; changes so far
    cached,             \* its size in the FileCache, or NoFile
    fsz, linked,        \* the opened file: its size; whether it has its name still
    pc, request, resp, body, mapped,
    pend,               \* OpenSSL holds a record it could not write
    open, crashed,
    out                 \* history: the answers, with what became of them

client == <<tls, patient, script, fin, count, asked>>
file   == <<disk, changes, fsz, linked>>
conn   == <<inbox, room, pend, open, crashed, out>>
locals == <<pc, request, resp, body, mapped>>
vars   == <<client, file, cached, conn, locals>>

(* "close": a GET without keep-alive; "bad": one without a path.           *)
Whole   == {"get", "close", "head", "post", "put", "bad"}
Methods == Whole \cup {"start"}     \* "start" and "rest": a GET cut in two
Kinds   == Methods \cup {"rest", "body"}
Pieces  == [id : Nat, kind : Kinds]
Answers == [to : Nat, kind : Kinds, due : Nat, head : BOOLEAN, sent : Nat,
            why : SUBSET {"full", "changed", "shrunk", "gone"}]

ASSUME ExchangeAssumption ==
    /\ \A s \in Scripts : s \in Seq(Seq(Kinds)) /\ \A k \in DOMAIN s : s[k] # <<>>
    /\ Sizes \subseteq Nat /\ NoFile \notin Sizes
    /\ Cap \in Nat \ {0} /\ MaxChanges \in Nat

TypeOK ==
    /\ inbox \in Seq(Seq(Pieces)) /\ request \in Seq(Pieces)
    /\ room \in 0 .. Cap /\ changes \in 0 .. MaxChanges
    /\ disk \in Sizes \cup {NoFile} /\ cached \in (Sizes \ {0}) \cup {NoFile}
    /\ pc \in {"idle", "read", "answer", "head", "open", "file", "text"}
    /\ out \in Seq(Answers)
    /\ pc \in {"head", "open", "file", "text"} =>
        resp \in Answers /\ body \in {"file", "text", "none"}
    /\ pc = "file" => resp.sent <= resp.due /\ fsz \in Sizes /\ (tls => mapped > 0)
    /\ pend => tls

Init ==
    /\ tls \in BOOLEAN
    /\ script \in Scripts
    /\ patient \in BOOLEAN
    /\ patient => \A seg \in Range(script) :
                    seg[1] # "start" /\ \A k \in DOMAIN seg \ {1} : seg[k] = "body"
    /\ inbox = <<>> /\ fin = FALSE /\ count = 0 /\ asked = {}
    /\ room = Cap
    /\ disk \in Sizes \cup {NoFile} /\ cached = NoFile /\ changes = 0
    /\ fsz = 0 /\ linked = FALSE
    /\ pc = "idle" /\ request = <<>> /\ resp = <<>> /\ body = "none" /\ mapped = 0
    /\ pend = FALSE /\ open = TRUE /\ crashed = FALSE
    /\ out = <<>>

-----------------------------------------------------------------------------
(* The client and the file system (external).                              *)

Answered(q) == \E a \in Range(out) : a.to = q /\ a.head

Send ==
    /\ open /\ ~fin /\ script # <<>>
    /\ LET seg == [k \in DOMAIN Head(script) |-> [id |-> count + k, kind |-> Head(script)[k]]]
           new == {p.id : p \in {q \in Range(seg) : q.kind \in Whole}}
       IN  /\ patient /\ seg[1].kind \in Methods =>
                \A q \in asked : Answered(q)
           /\ inbox' = IF tls \/ inbox = <<>> THEN Append(inbox, seg) ELSE <<inbox[1] \o seg>>
           /\ asked' = asked \cup new
           /\ count' = count + Len(seg)
    /\ script' = Tail(script)
    /\ UNCHANGED <<tls, patient, fin, file, cached, room, pend, open, crashed, out, locals>>

Leave ==
    /\ open /\ ~fin
    /\ fin' = TRUE
    /\ UNCHANGED <<tls, patient, script, count, asked, file, cached, conn, locals>>

Drain ==
    /\ room < Cap /\ ~fin
    /\ room' = Cap
    /\ UNCHANGED <<client, file, cached, inbox, pend, open, crashed, out, locals>>

(* The answer under way is about a file that is no longer as it was.       *)
Excuse(w) == resp' = [resp EXCEPT !.why = @ \cup w]
Looked    == body = "file" /\ pc \in {"head", "open"}

Overwrite(n) ==
    /\ changes < MaxChanges /\ disk # NoFile /\ n # disk
    /\ disk' = n /\ changes' = changes + 1
    /\ fsz' = IF linked THEN n ELSE fsz
    /\ IF Looked \/ linked
       THEN Excuse({"changed"} \cup (IF linked /\ n < fsz THEN {"shrunk"} ELSE {}))
       ELSE UNCHANGED resp
    /\ UNCHANGED <<client, linked, cached, conn, pc, request, body, mapped>>

(* Removed, or replaced by another file; an open descriptor keeps the old. *)
Replace(n) ==
    /\ changes < MaxChanges /\ n # disk
    /\ disk' = n /\ changes' = changes + 1
    /\ linked' = FALSE
    /\ IF Looked THEN Excuse({"changed"}) ELSE UNCHANGED resp
    /\ UNCHANGED <<client, fsz, cached, conn, pc, request, body, mapped>>

-----------------------------------------------------------------------------
(* Receiving.                                                              *)

(* dispatch_protocol: TLS records look alike; a plain connection needs a   *)
(* method at the front of what has arrived.                                *)
Dispatch ==
    /\ pc = "idle" /\ open /\ (inbox # <<>> \/ fin)
    /\ IF inbox # <<>> /\ (tls \/ inbox[1][1].kind \in Methods)
       THEN pc' = "read" /\ UNCHANGED open
       ELSE open' = FALSE /\ UNCHANGED pc
    /\ UNCHANGED <<client, file, cached, inbox, room, pend, crashed, out, request, resp, body, mapped>>

(* Mutant: a POST is complete with its body only.                          *)
TerminatedByBody(r) ==
    \E p \in Range(r) : p.kind \in (Whole \ {"post"}) \cup {"rest", "body"}

Terminated(r) == \E p \in Range(r) : p.kind \in Whole \cup {"rest"}

(* Mutant: what recv read stays in the socket (MSG_PEEK).                  *)
PeekingRead ==
    /\ pc = "read" /\ inbox # <<>>
    /\ request' = request \o Head(inbox)
    /\ pc' = IF Terminated(request') THEN "answer" ELSE "idle"
    /\ UNCHANGED <<client, file, cached, conn, resp, body, mapped>>

(* recv takes all there is, requests behind the first included, SSL_read   *)
(* one record.  At EAGAIN the local request is gone.  At the end of the    *)
(* stream handle_http goes on with what it has; SSL_read tells a close (0) *)
(* from a lost connection (-1).                                            *)
Read ==
    /\ pc = "read"
    /\ \/ /\ inbox # <<>>
          /\ request' = request \o Head(inbox)
          /\ inbox' = Tail(inbox)
          /\ pc' = IF Terminated(request') THEN "answer" ELSE "read"
          /\ UNCHANGED open
       \/ /\ inbox = <<>> /\ ~fin
          /\ pc' = "idle" /\ request' = <<>>
          /\ UNCHANGED <<inbox, open>>
       \/ /\ inbox = <<>> /\ fin
          /\ pc' = "answer"
          /\ UNCHANGED <<request, inbox, open>>
       \/ /\ inbox = <<>> /\ fin /\ tls
          /\ pc' = "idle" /\ open' = FALSE /\ request' = <<>>
          /\ UNCHANGED inbox
    /\ UNCHANGED <<client, file, cached, room, pend, crashed, out, resp, body, mapped>>

(* The request line that is parsed.  A GET whose second half is missing    *)
(* has no Connection header; a second half alone has no request line.      *)
Parsed(r) ==
    IF r[1].kind = "start"
    THEN IF Terminated(Tail(r)) THEN "get" ELSE "close"
    ELSE r[1].kind
KeepAlive(kind) == kind \in {"get", "head", "post", "put"}

(* Mutant: an empty file is a file.                                        *)
LookupEmpty(n) == n = disk /\ cached' = n

(* FileCache.get: a hit, which may be stale, or a load; an empty file is   *)
(* not found.                                                              *)
Lookup(n) ==
    \/ n = cached /\ cached # NoFile /\ UNCHANGED cached
    \/ /\ cached = NoFile \/ disk # NoFile
       /\ n = IF disk = 0 THEN NoFile ELSE disk
       /\ cached' = n

Begin(kind, due, how, w) ==
    /\ resp' = [to |-> request[1].id, kind |-> kind, due |-> due, head |-> FALSE,
                sent |-> 0, why |-> w]
    /\ body' = how
    /\ pc' = "head"

Answer ==
    /\ pc = "answer"
    /\ LET kind == Parsed(request) IN
       \/ /\ kind \in {"get", "close", "head"}
          /\ \E n \in Sizes \cup {NoFile} :
                /\ Lookup(n)
                /\ IF n = NoFile
                   THEN Begin(kind, 1, IF kind = "head" THEN "none" ELSE "text", {})
                   ELSE Begin(kind, n, IF kind = "head" THEN "none" ELSE "file",
                              IF n = disk THEN {} ELSE {"changed"})
       \/ /\ kind = "post"  \* what follows the header is its body, and counted only
          /\ Begin(kind, Len(request) - 1, "none", {})
          /\ UNCHANGED cached
       \/ /\ kind \in {"put", "rest", "body"}
          /\ Begin(kind, 1, "none", {})
          /\ UNCHANGED cached
       \/ /\ kind = "bad"
          /\ Begin(kind, 1, "text", {})
          /\ UNCHANGED cached
    /\ UNCHANGED <<client, file, conn, request, mapped>>

-----------------------------------------------------------------------------
(* Sending.                                                                *)

(* The handler returns: the worker keeps the connection or closes it.      *)
Return(r, kept) ==
    /\ pc' = "idle" /\ open' = kept
    /\ out' = Append(out, [r EXCEPT !.why = IF fin THEN @ \cup {"gone"} ELSE @])
    /\ request' = <<>> /\ resp' = <<>> /\ body' = "none"
    /\ linked' = FALSE /\ fsz' = 0 /\ mapped' = 0

(* Mutant: a full buffer is waited for.                                    *)
WaitingWrite(outcome) ==
    \/ outcome = "sent" /\ room > 0 /\ ~pend /\ room' = room - 1 /\ UNCHANGED pend
    \/ outcome = "failed" /\ (fin \/ pend) /\ UNCHANGED <<room, pend>>

(* write or SSL_write of one unit.  A record that OpenSSL could not write  *)
(* is pending: the next SSL_write fails, unless its buffer happens to be   *)
(* where the old one was; then it is the old one that is sent.             *)
Write(outcome) ==
    \/ outcome = "sent" /\ room > 0 /\ ~pend /\ room' = room - 1 /\ UNCHANGED pend
    \/ outcome = "full" /\ room = 0 /\ pend' = tls /\ UNCHANGED room
    \/ outcome = "old" /\ room > 0 /\ pend /\ room' = room - 1 /\ pend' = FALSE
    \/ outcome = "failed" /\ (fin \/ pend) /\ UNCHANGED <<room, pend>>
Outcomes == {"sent", "full", "old", "failed"}

Delayed(r, outcome) ==
    IF outcome = "sent" \/ (outcome = "failed" /\ ~pend) THEN r
    ELSE [r EXCEPT !.why = @ \cup {"full"}]

(* safe_write, safe_ssl_write: a full buffer counts as a success.          *)
WriteHeader ==
    /\ pc = "head"
    /\ \E o \in Outcomes :
        /\ Write(o)
        /\ LET r == [Delayed(resp, o) EXCEPT !.head = (o = "sent")] IN
           IF o = "failed" THEN Return(r, FALSE)
           ELSE IF body = "none" THEN Return(r, KeepAlive(r.kind))
           ELSE /\ resp' = r
                /\ pc' = IF body = "file" THEN "open" ELSE "text"
                /\ UNCHANGED <<request, body, mapped, fsz, linked, open, out>>
    /\ UNCHANGED <<client, disk, changes, cached, inbox, crashed>>

(* A text: the loop of write sees only a full buffer or an error other     *)
(* than EPIPE as no reason to close.                                       *)
WriteText ==
    /\ pc = "text"
    /\ \E o \in Outcomes :
        /\ Write(o)
        /\ LET r == [Delayed(resp, o) EXCEPT !.sent = IF o = "sent" THEN 1 ELSE 0] IN
           \/ o # "failed" /\ Return(r, KeepAlive(r.kind))
           \/ o = "failed" /\ Return(r, FALSE)
           \/ o = "failed" /\ ~tls /\ Return(r, KeepAlive(r.kind))
    /\ UNCHANGED <<client, disk, changes, cached, inbox, crashed>>

(* Mutant: as much as was announced is mapped.                             *)
OpenAnnounced ==
    /\ pc = "open" /\ disk # NoFile
    /\ pc' = "file"
    /\ fsz' = disk /\ linked' = TRUE
    /\ mapped' = IF tls THEN resp.due ELSE 0
    /\ UNCHANGED <<client, disk, changes, cached, conn, request, resp, body>>

(* open, and for TLS lseek and mmap, which fails for an empty file.  What  *)
(* is mapped is the file's present size, not the one announced.  One step, *)
(* as a change between the calls is one beside them: overwritten before    *)
(* lseek it has the size of a file overwritten before open, after lseek    *)
(* that of one overwritten while mapped; replaced after open, it is kept.  *)
OpenFile ==
    /\ pc = "open"
    /\ IF disk = NoFile \/ (tls /\ disk = 0)
       THEN Return(resp, KeepAlive(resp.kind))
       ELSE /\ pc' = "file"
            /\ fsz' = disk /\ linked' = TRUE
            /\ mapped' = IF tls THEN disk ELSE 0
            /\ UNCHANGED <<request, resp, body, open, out>>
    /\ UNCHANGED <<client, disk, changes, cached, inbox, room, pend, crashed>>

(* Mutants: sendfile is called once; sendfile is asked for the whole file. *)
SendOnce ==
    /\ pc = "file" /\ ~tls
    /\ \E k \in 1 .. room :
        /\ k <= resp.due /\ k <= fsz
        /\ room' = room - k
        /\ Return([resp EXCEPT !.sent = k], KeepAlive(resp.kind))
    /\ UNCHANGED <<client, disk, changes, cached, inbox, pend, crashed>>
SendAll ==
    /\ pc = "file" /\ ~tls /\ fsz <= room
    /\ room' = room - fsz
    /\ Return([resp EXCEPT !.sent = fsz], KeepAlive(resp.kind))
    /\ UNCHANGED <<client, disk, changes, cached, inbox, pend, crashed>>

(* The loop of sendfile: any part that fits, until all that was announced  *)
(* is sent.  At the end of a file that has become shorter it returns 0,    *)
(* and the loop turns without a change of state.                           *)
SendFile ==
    /\ pc = "file" /\ ~tls
    /\ \/ \E k \in 1 .. room :
            /\ k <= resp.due - resp.sent /\ k <= fsz - resp.sent
            /\ room' = room - k
            /\ LET r == [resp EXCEPT !.sent = @ + k] IN
               IF r.sent = r.due THEN Return(r, KeepAlive(r.kind))
               ELSE resp' = r /\ UNCHANGED <<pc, request, body, mapped, fsz, linked, open, out>>
       \/ /\ room = 0 /\ fsz > resp.sent
          /\ Return([resp EXCEPT !.why = @ \cup {"full"}], KeepAlive(resp.kind))
          /\ UNCHANGED room
       \/ /\ fin /\ fsz > resp.sent
          /\ Return(resp, KeepAlive(resp.kind))
          /\ UNCHANGED room
    /\ UNCHANGED <<client, disk, changes, cached, inbox, pend, crashed>>

(* SSL_write of the mapped file.  It reads pages beyond the end of a file  *)
(* that was shortened: SIGBUS ends the process.                            *)
SendMapped ==
    /\ pc = "file" /\ tls
    /\ \/ /\ ~pend /\ mapped <= room
          /\ room' = room - mapped
          /\ Return([resp EXCEPT !.sent = mapped], KeepAlive(resp.kind))
          /\ UNCHANGED <<pend, crashed>>
       \/ /\ ~pend /\ mapped > room
          /\ room' = 0 /\ pend' = TRUE
          /\ Return([resp EXCEPT !.sent = room, !.why = @ \cup {"full"}], KeepAlive(resp.kind))
          /\ UNCHANGED crashed
       \/ /\ fin \/ pend
          /\ Return(Delayed(resp, "failed"), KeepAlive(resp.kind))
          /\ UNCHANGED <<room, pend, crashed>>
       \/ /\ ~pend /\ mapped > fsz
          /\ crashed' = TRUE
          /\ pc' = "idle" /\ open' = FALSE
          /\ linked' = FALSE
          /\ UNCHANGED <<room, pend, out, request, resp, body, mapped, fsz>>
    /\ UNCHANGED <<client, disk, changes, cached, inbox>>

Handler ==
    \/ Dispatch \/ Read \/ Answer
    \/ WriteHeader \/ WriteText \/ OpenFile \/ SendFile \/ SendMapped
Outside ==
    \/ Send \/ Leave \/ Drain
    \/ \E n \in Sizes : Overwrite(n)
    \/ \E n \in Sizes \cup {NoFile} : Replace(n)

Next == Handler \/ Outside
Spec == Init /\ [][Next]_vars
FairSpec == Spec /\ WF_vars(Handler)

-----------------------------------------------------------------------------
(* An answer to a GET is whole, header and body, unless the buffer was     *)
(* full, the file changed under it, or the client left; and nobody finishes*)
(* a cut one (http.hpp:22, :63 and :76, https.hpp:28 and :66).             *)
WholeUnlessExcused ==
    \A a \in Range(out) :
        a.kind \in {"get", "close", "bad"} /\ a.why = {} => a.head /\ a.sent = a.due

(* No more is sent than Content-Length announces (http.hpp:41), but for a  *)
(* file that grew before handle_https mapped it (https.hpp:56).            *)
NeverTooMuch ==
    \A a \in Range(out) : a.sent > a.due => tls /\ "changed" \in a.why

(* Answers are given in the order of the requests, one for each at most,   *)
(* though requests arrive cut, joined and ahead of time (http.hpp:115).    *)
AnswersInOrder ==
    \A i, j \in DOMAIN out : i < j => out[i].to < out[j].to

(* A client that waits for each answer gets the header of one for every    *)
(* request that came in one piece: between events nothing of it is left    *)
(* unanswered on an open connection (http.hpp:115 and :121, https.hpp:144),*)
(* unless the socket buffer was full.  Then the answer is lost, and the    *)
(* connection stays open all the same (http.hpp:21-22, https.hpp:28).      *)
CutOff(q) == \E a \in Range(out) : a.to = q /\ "full" \in a.why
AllAnswered ==
    patient /\ open /\ pc = "idle" /\ inbox = <<>> =>
        \A q \in asked : Answered(q) \/ CutOff(q)

(* The process is only ended by a file that is shortened in place while it *)
(* is mapped (https.hpp:58-62).                                            *)
CrashOnlyIfShrunk == crashed => "shrunk" \in resp.why

(* No client can hold a thread by reading slowly: a handler that has begun *)
(* returns (http.hpp:22, :61 and :76), if it does not turn for ever at the *)
(* end of a file that was shortened (http.hpp:58), or crash.               *)
Spinning == pc = "file" /\ ~tls /\ resp.sent >= fsz /\ resp.sent < resp.due
HandlerReturns == []<>(pc = "idle") \/ <>[]Spinning
=============================================================================
