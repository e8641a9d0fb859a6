--------------------------- MODULE ExchangeProofs ----------------------------
(* What a client may rely on, for any sizes of the file, of the buffer and  *)
(* of the segments, any scripts and any number of changes: the answers are  *)
(* in order and whole, none is too long, and a crash needs a shortened file.*)
EXTENDS Exchange, TLAPS

-----------------------------------------------------------------------------
(* The inductive invariant.                                                *)

Busy == pc \in {"head", "open", "file", "text"}

Streams ==
    /\ count \in Nat
    /\ script \in Seq(Seq(Kinds)) /\ \A k \in DOMAIN script : script[k] # <<>>
    /\ inbox \in Seq(Seq(Pieces)) /\ \A k \in DOMAIN inbox : inbox[k] # <<>>
    /\ request \in Seq(Pieces)
    /\ out \in Seq(Answers)

Scalars ==
    /\ tls \in BOOLEAN /\ fin \in BOOLEAN /\ open \in BOOLEAN /\ crashed \in BOOLEAN
    /\ room \in 0 .. Cap
    /\ cached \in (Sizes \ {0}) \cup {NoFile}
    /\ fsz \in Nat /\ mapped \in Nat
    /\ pc \in {"idle", "read", "answer", "head", "open", "file", "text"}
    /\ Busy => resp \in Answers /\ body \in {"file", "text", "none"}
    /\ pend \in BOOLEAN /\ (pend => tls)

Disk ==
    /\ disk \in Sizes \cup {NoFile} /\ changes \in 0 .. MaxChanges
    /\ linked \in BOOLEAN

(* Where a handler is says what it has.                                    *)
Places ==
    /\ pc = "idle" /\ open => request = <<>>
    /\ pc = "read" => request # <<>> \/ inbox # <<>>
    /\ pc = "answer" \/ Busy => request # <<>>
    /\ linked => pc = "file"
    /\ crashed => pc = "idle" /\ ~open

(* The answer under way.                                                   *)
Underway ==
    /\ Busy => resp.to = request[1].id
    /\ pc \in {"head", "open", "text"} => resp.sent = 0
    /\ pc \in {"open", "file", "text"} => resp.head \/ "full" \in resp.why
    /\ pc \in {"open", "file"} => body = "file"
    /\ pc = "text" => body = "text"
    /\ Busy /\ body = "none" => resp.kind \notin {"get", "close", "bad"}
    /\ Busy /\ body = "text" => resp.due = 1
    /\ Busy /\ body = "file" => resp.due \in Sizes \ {0}
    /\ Looked /\ disk # resp.due => "changed" \in resp.why

(* The file under way.                                                     *)
Sending ==
    pc = "file" =>
        /\ fsz \in Sizes
        /\ resp.sent <= resp.due
        /\ tls => /\ mapped > 0 /\ resp.sent = 0
                  /\ mapped # resp.due => "changed" \in resp.why
                  /\ mapped > fsz => "shrunk" \in resp.why

(* What is answered was sent before what is being answered, and that before*)
(* what has not been read.                                                 *)
Before(s, t) == \A k \in DOMAIN s, l \in DOMAIN t : s[k].id < t[l].id
Past(s)      == \A a \in DOMAIN out, k \in DOMAIN s : out[a].to < s[k].id
UpTo(s, n)   == \A k \in DOMAIN s : s[k].id <= n

Ordered ==
    /\ AnswersInOrder
    /\ \A a \in DOMAIN out : out[a].to <= count
    /\ Past(request) /\ UpTo(request, count)
    /\ \A i \in DOMAIN inbox :
        Past(inbox[i]) /\ UpTo(inbox[i], count) /\ Before(request, inbox[i])
    /\ \A i, j \in DOMAIN inbox : i < j => Before(inbox[i], inbox[j])

(* The answers given.                                                      *)
Good(a) ==
    /\ a.kind \in {"get", "close", "bad"} /\ a.why = {} => a.head /\ a.sent = a.due
    /\ a.sent > a.due => tls /\ "changed" \in a.why
Given == \A i \in DOMAIN out : Good(out[i])

ExchangeInv ==
    /\ Streams /\ Scalars /\ Disk
    /\ Places /\ Underway /\ Sending /\ Ordered /\ Given /\ CrashOnlyIfShrunk

-----------------------------------------------------------------------------
(* Constants and sequences.                                                *)

LEMMA Constants ==
    Sizes \subseteq Nat /\ NoFile \notin Sizes /\ Cap \in Nat /\ 0 < Cap /\ MaxChanges \in Nat
  BY ExchangeAssumption

(* What a sequence has: a length, and elements of its type.                *)
LEMMA Elements ==
    ASSUME NEW S, NEW s \in Seq(S)
    PROVE  /\ DOMAIN s = 1 .. Len(s) /\ Len(s) \in Nat
           /\ \A k \in DOMAIN s : s[k] \in S /\ k \in Nat
           /\ s # <<>> => 1 \in DOMAIN s /\ Len(s) # 0
  OBVIOUS

(* A function on 1 .. n is a sequence of length n.                         *)
LEMMA Built ==
    ASSUME NEW S, NEW n \in Nat, NEW f \in [1 .. n -> S]
    PROVE  f \in Seq(S) /\ Len(f) = n /\ (n # 0 => f # <<>>)
  OBVIOUS

(* An element goes behind the others and moves none.                       *)
LEMMA Appended ==
    ASSUME NEW S, NEW s \in Seq(S), NEW x \in S
    PROVE  /\ Append(s, x) \in Seq(S) /\ Append(s, x) # <<>>
           /\ DOMAIN Append(s, x) = DOMAIN s \cup {Len(s) + 1}
           /\ Append(s, x)[Len(s) + 1] = x
           /\ \A i \in DOMAIN s : Append(s, x)[i] = s[i] /\ i \in Nat /\ i < Len(s) + 1
  OBVIOUS

(* What two sequences joined have, one of the two has.                     *)
LEMMA Joined ==
    ASSUME NEW S, NEW s \in Seq(S), NEW t \in Seq(S)
    PROVE  /\ s \o t \in Seq(S)
           /\ \A l \in DOMAIN (s \o t) :
                \/ l \in DOMAIN s /\ (s \o t)[l] = s[l]
                \/ \E k \in DOMAIN t : (s \o t)[l] = t[k]
           /\ t # <<>> => s \o t # <<>>
<1>1. \A l \in DOMAIN (s \o t) : l \notin DOMAIN s => (s \o t)[l] = t[l - Len(s)] /\ l - Len(s) \in DOMAIN t
  OBVIOUS
<1> QED
  BY <1>1

(* Without its first element a sequence has the others, one place earlier. *)
LEMMA Dropped ==
    ASSUME NEW S, NEW s \in Seq(S), s # <<>>
    PROVE  /\ Head(s) = s[1] /\ s[1] \in S /\ 1 \in DOMAIN s
           /\ Tail(s) \in Seq(S)
           /\ \A i \in DOMAIN Tail(s) :
                i \in Nat /\ i + 1 \in DOMAIN s /\ Tail(s)[i] = s[i + 1] /\ 1 < i + 1
  OBVIOUS

(* Pieces and answers are numbered by natural numbers.                     *)
LEMMA Numbers ==
    /\ \A p \in Pieces : p.id \in Nat
    /\ \A a \in Answers : a.to \in Nat /\ a.due \in Nat /\ a.sent \in Nat
    /\ \A s \in Seq(Pieces) : \A k \in DOMAIN s : s[k].id \in Nat
    /\ \A s \in Seq(Answers) : \A k \in DOMAIN s : s[k].to \in Nat
<1>1. \A p \in Pieces : p.id \in Nat
  BY DEF Pieces
<1>2. \A a \in Answers : a.to \in Nat /\ a.due \in Nat /\ a.sent \in Nat
  BY DEF Answers
<1>3. ASSUME NEW s \in Seq(Pieces), NEW k \in DOMAIN s PROVE s[k].id \in Nat
  <2>1. s[k] \in Pieces
    BY Elements
  <2> QED
    BY <1>1, <2>1
<1>4. ASSUME NEW s \in Seq(Answers), NEW k \in DOMAIN s PROVE s[k].to \in Nat
  <2>1. s[k] \in Answers
    BY Elements
  <2> QED
    BY <1>2, <2>1
<1> QED
  BY <1>1, <1>2, <1>3, <1>4

(* The order of pieces goes over to what is put together of them.          *)
LEMMA OrderJoined ==
    ASSUME NEW s \in Seq(Pieces), NEW t \in Seq(Pieces), NEW u \in Seq(Pieces), NEW n
    PROVE  /\ Past(s) /\ Past(t) => Past(s \o t)
           /\ UpTo(s, n) /\ UpTo(t, n) => UpTo(s \o t, n)
           /\ Before(s, u) /\ Before(t, u) => Before(s \o t, u)
           /\ Before(u, s) /\ Before(u, t) => Before(u, s \o t)
<1>1. \A l \in DOMAIN (s \o t) :
        (l \in DOMAIN s /\ (s \o t)[l] = s[l]) \/ \E k \in DOMAIN t : (s \o t)[l] = t[k]
  BY Joined
<1> QED
  BY <1>1 DEF Past, UpTo, Before

(* A segment with new numbers comes after everything.                      *)
LEMMA OrderNew ==
    ASSUME Streams, Ordered, NEW n \in Nat, count <= n, NEW seg \in Seq(Pieces),
           \A k \in DOMAIN seg : count < seg[k].id /\ seg[k].id <= n
    PROVE  /\ Past(seg) /\ UpTo(seg, n)
           /\ \A s \in Seq(Pieces) : UpTo(s, count) => Before(s, seg) /\ UpTo(s, n)
           /\ \A a \in DOMAIN out : out[a].to <= n
<1>1. \A k \in DOMAIN seg : seg[k].id \in Nat
  BY Numbers
<1>2. \A s \in Seq(Pieces) : \A k \in DOMAIN s : s[k].id \in Nat
  BY Numbers
<1>3. \A a \in DOMAIN out : out[a].to \in Nat
  BY Numbers DEF Streams
<1>4. count \in Nat /\ \A a \in DOMAIN out : out[a].to <= count
  BY DEF Streams, Ordered
<1>5. Past(seg)
  BY <1>1, <1>3, <1>4 DEF Past
<1>6. UpTo(seg, n)
  BY DEF UpTo
<1>7. ASSUME NEW s \in Seq(Pieces), UpTo(s, count) PROVE Before(s, seg) /\ UpTo(s, n)
  BY <1>1, <1>2, <1>4, <1>7 DEF Before, UpTo
<1> QED
  BY <1>3, <1>4, <1>5, <1>6, <1>7

-----------------------------------------------------------------------------
(* The client and the file system.                                         *)

LEMMA InvInit == Init => ExchangeInv
<1> SUFFICES ASSUME Init PROVE ExchangeInv
  OBVIOUS
<1> USE DEF Init
<1>1. Streams
  BY ExchangeAssumption DEF Streams
<1>0. Scalars /\ Disk
  <2>1. room \in 0 .. Cap /\ changes \in 0 .. MaxChanges
    BY Constants
  <2> QED
    BY <2>1 DEF Scalars, Disk, Busy
<1>2. Places /\ Underway /\ Sending /\ CrashOnlyIfShrunk
  BY DEF Places, Underway, Sending, CrashOnlyIfShrunk, Busy, Looked
<1>3. Ordered /\ Given
  BY DEF Ordered, AnswersInOrder, Past, UpTo, Before, Given
<1> QED
  BY <1>0, <1>1, <1>2, <1>3 DEF ExchangeInv

(* Steps that leave alone what the parts of the invariant are about.       *)
LEMMA StreamsKept ==
    ASSUME Streams, Ordered, Given, UNCHANGED <<tls, script, count, inbox, request, out>>
    PROVE  Streams' /\ Ordered' /\ Given'
  BY DEF Streams, Ordered, Given, Good, AnswersInOrder, Past, UpTo, Before

(* What is said of the file on disk needs the file only.                   *)
LEMMA DiskKept ==
    ASSUME Disk, UNCHANGED <<disk, changes, linked>> PROVE Disk'
  BY DEF Disk

(* What is said of the answer under way needs these variables only.        *)
LEMMA AnswerKept ==
    ASSUME Underway, Sending, CrashOnlyIfShrunk,
           UNCHANGED <<tls, disk, fsz, crashed, resp, body, pc, mapped>>,
           Busy => request' = request
    PROVE  Underway' /\ Sending' /\ CrashOnlyIfShrunk'
  BY DEF Underway, Sending, CrashOnlyIfShrunk, Looked, Busy

(* A client's segment goes behind all that was sent before.                *)
LEMMA SendKeeps == ASSUME ExchangeInv, Send PROVE ExchangeInv'
<1> DEFINE seg == [k \in DOMAIN Head(script) |-> [id |-> count + k, kind |-> Head(script)[k]]]
<1>1. /\ Streams /\ Scalars /\ Disk
      /\ Places /\ Underway /\ Sending /\ Ordered /\ Given /\ CrashOnlyIfShrunk
      /\ script # <<>> /\ script' = Tail(script) /\ count' = count + Len(seg)
      /\ inbox' = IF tls \/ inbox = <<>> THEN Append(inbox, seg) ELSE <<inbox[1] \o seg>>
      /\ UNCHANGED <<tls, fin, file, cached, room, pend, open, crashed, out, locals>>
  BY DEF ExchangeInv, Send
<1>2. /\ Head(script) \in Seq(Kinds) /\ Head(script) # <<>>
      /\ script' \in Seq(Seq(Kinds)) /\ \A k \in DOMAIN script' : script'[k] # <<>>
  BY <1>1, Dropped DEF Streams
<1>3. /\ seg \in Seq(Pieces) /\ seg # <<>> /\ Len(seg) \in Nat
      /\ \A k \in DOMAIN seg : count < seg[k].id /\ seg[k].id <= count + Len(seg)
  <2>1. /\ DOMAIN Head(script) = 1 .. Len(Head(script)) /\ Len(Head(script)) \in Nat
        /\ Len(Head(script)) # 0
        /\ \A k \in DOMAIN Head(script) : Head(script)[k] \in Kinds
    BY <1>2, Elements
  <2>2. count \in Nat
    BY <1>1 DEF Streams
  <2>3. \A k \in 1 .. Len(Head(script)) :
            [id |-> count + k, kind |-> Head(script)[k]] \in Pieces
    BY <2>1, <2>2 DEF Pieces
  <2>4. seg \in [1 .. Len(Head(script)) -> Pieces]
    BY <2>1, <2>3
  <2>5. seg \in Seq(Pieces) /\ Len(seg) = Len(Head(script)) /\ seg # <<>>
    BY <2>1, <2>4, Built
  <2>6. DOMAIN seg = 1 .. Len(Head(script)) /\ \A k \in DOMAIN seg : seg[k].id = count + k
    BY <2>1
  <2>7. \A k \in DOMAIN seg : count < seg[k].id /\ seg[k].id <= count + Len(seg)
    BY <2>1, <2>2, <2>5, <2>6
  <2> QED
    BY <2>1, <2>5, <2>7
<1> HIDE DEF seg
<1>4. /\ count \in Nat /\ count' \in Nat /\ count <= count'
      /\ request \in Seq(Pieces) /\ inbox \in Seq(Seq(Pieces))
  BY <1>1, <1>3 DEF Streams
<1>5. /\ Past(seg) /\ UpTo(seg, count')
      /\ \A s \in Seq(Pieces) : UpTo(s, count) => Before(s, seg) /\ UpTo(s, count')
      /\ \A a \in DOMAIN out : out[a].to <= count'
  BY <1>1, <1>3, <1>4, OrderNew
<1>6. UNCHANGED <<out, request>>
  BY <1>1 DEF locals
<1>7. ASSUME tls \/ inbox = <<>> PROVE Streams' /\ Ordered' /\ inbox' # <<>>
  <2>1. inbox' = Append(inbox, seg)
    BY <1>1, <1>7
  <2>2. /\ inbox' \in Seq(Seq(Pieces)) /\ inbox' # <<>>
        /\ DOMAIN inbox' = DOMAIN inbox \cup {Len(inbox) + 1}
        /\ inbox'[Len(inbox) + 1] = seg
        /\ \A i \in DOMAIN inbox : inbox'[i] = inbox[i] /\ i \in Nat /\ i < Len(inbox) + 1
    BY <1>3, <1>4, <2>1, Appended
  <2>3. Streams'
    BY <1>1, <1>2, <1>3, <1>4, <1>6, <2>2 DEF Streams
  <2>4. \A i \in DOMAIN inbox :
            inbox[i] \in Seq(Pieces) /\ UpTo(inbox[i], count) /\ Past(inbox[i])
            /\ Before(request, inbox[i])
    BY <1>1, <1>4 DEF Ordered
  <2>5. UpTo(request, count) /\ Past(request) /\ AnswersInOrder
    BY <1>1 DEF Ordered
  <2>6. \A i \in DOMAIN inbox' :
            Past(inbox'[i]) /\ UpTo(inbox'[i], count') /\ Before(request, inbox'[i])
    BY <1>4, <1>5, <2>2, <2>4, <2>5
  <2>7. ASSUME NEW i \in DOMAIN inbox', NEW j \in DOMAIN inbox', i < j
        PROVE  Before(inbox'[i], inbox'[j])
    <3>1. i \in DOMAIN inbox
      BY <1>4, <2>2, <2>7
    <3>2. CASE j \in DOMAIN inbox
      BY <1>1, <2>2, <2>7, <3>1, <3>2 DEF Ordered
    <3>3. CASE j = Len(inbox) + 1
      BY <1>5, <2>2, <2>4, <3>1, <3>3
    <3> QED
      BY <2>2, <3>2, <3>3
  <2>8. Ordered'
    BY <1>4, <1>5, <1>6, <2>5, <2>6, <2>7 DEF Ordered, AnswersInOrder, Past
  <2> QED
    BY <2>2, <2>3, <2>8
<1>8. ASSUME ~(tls \/ inbox = <<>>) PROVE Streams' /\ Ordered' /\ inbox' # <<>>
  <2>1. inbox' = <<inbox[1] \o seg>> /\ inbox[1] \in Seq(Pieces) /\ 1 \in DOMAIN inbox
    BY <1>1, <1>4, <1>8, Dropped
  <2>2. inbox[1] \o seg \in Seq(Pieces) /\ inbox[1] \o seg # <<>>
    BY <1>3, <2>1, Joined
  <2>3. /\ inbox' \in Seq(Seq(Pieces)) /\ inbox' # <<>> /\ DOMAIN inbox' = {1}
        /\ inbox'[1] = inbox[1] \o seg
    BY <2>1, <2>2
  <2>4. Streams'
    BY <1>1, <1>2, <1>4, <1>6, <2>2, <2>3 DEF Streams
  <2>5. /\ UpTo(inbox[1], count) /\ Past(inbox[1]) /\ Before(request, inbox[1])
        /\ UpTo(request, count) /\ Past(request) /\ AnswersInOrder
    BY <1>1, <2>1 DEF Ordered
  <2>6. /\ Past(inbox[1] \o seg) /\ UpTo(inbox[1] \o seg, count')
        /\ Before(request, inbox[1] \o seg)
    BY <1>3, <1>4, <1>5, <2>1, <2>5, OrderJoined
  <2>7. /\ \A i \in DOMAIN inbox' :
            Past(inbox'[i]) /\ UpTo(inbox'[i], count') /\ Before(request, inbox'[i])
        /\ \A i, j \in DOMAIN inbox' : ~(i < j)
    <3>1. \A i \in DOMAIN inbox' : i = 1 /\ inbox'[i] = inbox[1] \o seg
      BY <2>3
    <3>2. \A i, j \in {1} : ~(i < j)
      OBVIOUS
    <3> QED
      BY <2>3, <2>6, <3>1, <3>2
  <2>8. UpTo(request, count')
    BY <1>4, <1>5, <2>5
  <2>9. Ordered'
    BY <1>5, <1>6, <2>5, <2>7, <2>8 DEF Ordered, AnswersInOrder, Past
  <2> QED
    BY <2>3, <2>4, <2>9
<1>9. Streams' /\ Ordered' /\ inbox' # <<>>
  BY <1>7, <1>8
<1>10. Scalars' /\ Disk' /\ Given'
  BY <1>1 DEF Scalars, Disk, Given, Good, Busy, file, locals
<1>11. Places'
  BY <1>1, <1>9 DEF Places, Busy, file, locals
<1>12. Underway' /\ Sending' /\ CrashOnlyIfShrunk'
  BY <1>1, AnswerKept DEF file, locals
<1> QED
  BY <1>9, <1>10, <1>11, <1>12 DEF ExchangeInv

(* The client leaves, or reads what the buffer holds.                      *)
LEMMA ClientKeeps == ASSUME ExchangeInv, Leave \/ Drain PROVE ExchangeInv'
<1>1. /\ Streams /\ Scalars /\ Disk
      /\ Places /\ Underway /\ Sending /\ Ordered /\ Given /\ CrashOnlyIfShrunk
  BY DEF ExchangeInv
<1>2. /\ UNCHANGED <<tls, script, count, file, cached, inbox, pend, open, crashed, out, locals>>
      /\ room' \in {room, Cap} /\ fin' \in {fin, TRUE}
  BY DEF Leave, Drain, client, conn
<1>3. Scalars'
  <2>1. Cap \in 0 .. Cap
    BY Constants
  <2>2. room' \in 0 .. Cap
    BY <1>1, <1>2, <2>1 DEF Scalars
  <2>3. fin' \in BOOLEAN
    BY <1>1, <1>2 DEF Scalars
  <2> QED
    BY <1>1, <1>2, <2>2, <2>3 DEF Scalars, Busy, file, locals
<1>4. Places'
  BY <1>1, <1>2 DEF Places, Busy, file, locals
<1> QED
  BY <1>1, <1>2, <1>3, <1>4, StreamsKept, DiskKept, AnswerKept DEF ExchangeInv, file, locals

(* A change of the file is noted with the answer that depends on it.       *)
LEMMA OverwriteKeeps == ASSUME ExchangeInv, NEW n \in Sizes, Overwrite(n) PROVE ExchangeInv'
<1>1. /\ Streams /\ Scalars /\ Disk
      /\ Places /\ Underway /\ Sending /\ Ordered /\ Given /\ CrashOnlyIfShrunk
  BY DEF ExchangeInv
<1>2. /\ disk' = n /\ changes < MaxChanges /\ changes' = changes + 1
      /\ fsz' = IF linked THEN n ELSE fsz
      /\ UNCHANGED <<client, linked, cached, conn, pc, request, body, mapped>>
  BY DEF Overwrite
<1>0. Disk'
  <2>1. changes' \in 0 .. MaxChanges
    BY <1>1, <1>2, Constants DEF Disk
  <2> QED
    BY <1>1, <1>2, <2>1 DEF Disk
<1>3. CASE Looked \/ linked
  <2> DEFINE w == {"changed"} \cup (IF linked /\ n < fsz THEN {"shrunk"} ELSE {})
  <2>1. resp' = [resp EXCEPT !.why = @ \cup w] /\ Busy
    BY <1>1, <1>2, <1>3 DEF Overwrite, Excuse, Looked, Busy, Places
  <2>2. /\ resp' \in Answers /\ "changed" \in resp'.why
        /\ resp'.to = resp.to /\ resp'.sent = resp.sent /\ resp'.due = resp.due
        /\ resp'.kind = resp.kind
        /\ resp.why \subseteq resp'.why
        /\ linked /\ n < fsz => "shrunk" \in resp'.why
    BY <1>1, <2>1 DEF Scalars, Answers
  <2>3. Scalars'
    BY <1>1, <1>2, <2>2, Constants DEF Scalars, Busy, client, conn
  <2>4. Places' /\ CrashOnlyIfShrunk'
    BY <1>1, <1>2, <2>1, <2>2 DEF Places, CrashOnlyIfShrunk, Busy, client, conn
  <2>5. Underway'
    BY <1>1, <1>2, <2>1, <2>2 DEF Underway, Busy, Looked, client, conn
  <2>6. Sending'
    BY <1>1, <1>2, <2>2, Constants DEF Sending, Scalars, client, conn
  <2> QED
    BY <1>1, <1>2, <2>3, <2>4, <2>5, <2>6, <1>0, StreamsKept DEF ExchangeInv, client, conn
<1>4. CASE ~(Looked \/ linked)
  <2>1. UNCHANGED resp /\ fsz' = fsz
    BY <1>2, <1>4 DEF Overwrite
  <2>2. Scalars'
    BY <1>1, <1>2, <2>1 DEF Scalars, Busy, client, conn
  <2>3. Places' /\ Underway' /\ Sending' /\ CrashOnlyIfShrunk'
    BY <1>1, <1>2, <1>4, <2>1
       DEF Places, Underway, Sending, CrashOnlyIfShrunk, Busy, Looked, client, conn
  <2> QED
    BY <1>1, <1>2, <2>2, <2>3, <1>0, StreamsKept DEF ExchangeInv, client, conn
<1> QED
  BY <1>3, <1>4

(* A file that is replaced or removed notes it in the answers under way.   *)
LEMMA ReplaceKeeps ==
    ASSUME ExchangeInv, NEW n \in Sizes \cup {NoFile}, Replace(n) PROVE ExchangeInv'
<1>1. /\ Streams /\ Scalars /\ Disk
      /\ Places /\ Underway /\ Sending /\ Ordered /\ Given /\ CrashOnlyIfShrunk
  BY DEF ExchangeInv
<1>2. /\ disk' = n /\ changes < MaxChanges /\ changes' = changes + 1
      /\ linked' = FALSE
      /\ UNCHANGED <<client, fsz, cached, conn, pc, request, body, mapped>>
  BY DEF Replace
<1>0. Disk'
  <2>1. changes' \in 0 .. MaxChanges
    BY <1>1, <1>2, Constants DEF Disk
  <2> QED
    BY <1>1, <1>2, <2>1 DEF Disk
<1>3. CASE Looked
  <2>1. resp' = [resp EXCEPT !.why = @ \cup {"changed"}] /\ Busy
    BY <1>2, <1>3 DEF Replace, Excuse, Looked, Busy
  <2>2. /\ resp' \in Answers /\ "changed" \in resp'.why
        /\ resp'.to = resp.to /\ resp'.sent = resp.sent /\ resp'.due = resp.due
        /\ resp'.kind = resp.kind
    BY <1>1, <2>1 DEF Scalars, Answers
  <2>3. Scalars'
    BY <1>1, <1>2, <2>2, Constants DEF Scalars, Busy, client, conn
  <2>4. Places' /\ CrashOnlyIfShrunk' /\ Sending'
    BY <1>1, <1>2, <1>3, <2>1, <2>2
       DEF Places, CrashOnlyIfShrunk, Sending, Looked, Busy, client, conn
  <2>5. Underway'
    BY <1>1, <1>2, <2>1, <2>2 DEF Underway, Busy, Looked, client, conn
  <2> QED
    BY <1>1, <1>2, <2>3, <2>4, <2>5, <1>0, StreamsKept DEF ExchangeInv, client, conn
<1>4. CASE ~Looked
  <2>1. UNCHANGED resp
    BY <1>2, <1>4 DEF Replace
  <2>2. Scalars'
    BY <1>1, <1>2, <2>1 DEF Scalars, Busy, client, conn
  <2>3. Places' /\ Underway' /\ Sending' /\ CrashOnlyIfShrunk'
    BY <1>1, <1>2, <1>4, <2>1
       DEF Places, Underway, Sending, CrashOnlyIfShrunk, Busy, Looked, client, conn
  <2> QED
    BY <1>1, <1>2, <2>2, <2>3, <1>0, StreamsKept DEF ExchangeInv, client, conn
<1> QED
  BY <1>3, <1>4

-----------------------------------------------------------------------------
(* Receiving.                                                              *)

LEMMA DispatchKeeps == ASSUME ExchangeInv, Dispatch PROVE ExchangeInv'
<1>1. /\ Streams /\ Scalars /\ Disk
      /\ Places /\ Underway /\ Sending /\ Ordered /\ Given /\ CrashOnlyIfShrunk
  BY DEF ExchangeInv
<1>2. /\ pc = "idle" /\ open
      /\ \/ pc' = "read" /\ inbox # <<>> /\ UNCHANGED open
         \/ open' = FALSE /\ UNCHANGED pc
      /\ UNCHANGED <<client, file, cached, inbox, room, pend, crashed, out, request, resp,
                     body, mapped>>
  BY DEF Dispatch
<1>3. Scalars' /\ Places'
  BY <1>1, <1>2 DEF Scalars, Places, Busy, client, file
<1>4. Underway' /\ Sending' /\ CrashOnlyIfShrunk'
  BY <1>1, <1>2 DEF Underway, Sending, CrashOnlyIfShrunk, Looked, Busy, client, file
<1> QED
  BY <1>1, <1>2, <1>3, <1>4, StreamsKept, DiskKept DEF ExchangeInv, client, file

(* What is read joins the request that has been begun; what it leaves      *)
(* behind when it gives up is nothing that was answered.                   *)
LEMMA ReadKeeps == ASSUME ExchangeInv, Read PROVE ExchangeInv'
<1>1. /\ Streams /\ Scalars /\ Disk
      /\ Places /\ Underway /\ Sending /\ Ordered /\ Given /\ CrashOnlyIfShrunk
  BY DEF ExchangeInv
<1>2. /\ pc = "read"
      /\ UNCHANGED <<client, file, cached, room, pend, crashed, out, resp, body, mapped>>
  BY DEF Read
<1>3. \/ /\ inbox # <<>> /\ request' = request \o Head(inbox) /\ inbox' = Tail(inbox)
         /\ pc' \in {"answer", "read"} /\ UNCHANGED open
      \/ /\ request' = <<>> /\ UNCHANGED inbox
         /\ pc' = "idle" /\ open' \in {open, FALSE}
      \/ inbox = <<>> /\ pc' = "answer" /\ UNCHANGED <<request, inbox, open>>
  BY DEF Read
<1>4. pc' \in {"idle", "read", "answer"} /\ open' \in {open, FALSE}
  BY <1>3
<1>5. Streams' /\ Ordered' /\ (pc' \in {"read", "answer"} => request' # <<>>)
      /\ (pc' = "idle" => request' = <<>>)
  <2>1. CASE inbox # <<>> /\ request' = request \o Head(inbox) /\ inbox' = Tail(inbox)
             /\ pc' \in {"answer", "read"}
    <3>1. inbox \in Seq(Seq(Pieces)) /\ request \in Seq(Pieces)
      BY <1>1 DEF Streams
    <3>2. /\ Head(inbox) = inbox[1] /\ inbox[1] \in Seq(Pieces) /\ 1 \in DOMAIN inbox
          /\ inbox' \in Seq(Seq(Pieces))
          /\ \A i \in DOMAIN inbox' :
                i \in Nat /\ i + 1 \in DOMAIN inbox /\ inbox'[i] = inbox[i + 1] /\ 1 < i + 1
      BY <2>1, <3>1, Dropped
    <3>3. inbox[1] # <<>> /\ \A i \in DOMAIN inbox' : inbox'[i] # <<>>
      BY <1>1, <3>2 DEF Streams
    <3>4. request' \in Seq(Pieces) /\ request' # <<>>
      BY <2>1, <3>1, <3>2, <3>3, Joined
    <3>5. Streams'
      BY <1>1, <1>2, <3>2, <3>3, <3>4 DEF Streams, client
    <3>6. /\ Past(request) /\ UpTo(request, count) /\ Past(inbox[1]) /\ UpTo(inbox[1], count)
          /\ AnswersInOrder /\ \A a \in DOMAIN out : out[a].to <= count
      BY <1>1, <3>2 DEF Ordered
    <3>7. Past(request') /\ UpTo(request', count)
      BY <2>1, <3>1, <3>2, <3>6, OrderJoined
    <3>8. ASSUME NEW i \in DOMAIN inbox'
          PROVE  Past(inbox'[i]) /\ UpTo(inbox'[i], count) /\ Before(request', inbox'[i])
      <4>1. /\ inbox'[i] \in Seq(Pieces)
            /\ Past(inbox'[i]) /\ UpTo(inbox'[i], count)
            /\ Before(request, inbox'[i]) /\ Before(inbox[1], inbox'[i])
        BY <1>1, <3>1, <3>2, Elements DEF Ordered
      <4> QED
        BY <2>1, <3>1, <3>2, <4>1, OrderJoined
    <3>9. ASSUME NEW i \in DOMAIN inbox', NEW j \in DOMAIN inbox', i < j
          PROVE  Before(inbox'[i], inbox'[j])
      <4>1. i + 1 < j + 1
        BY <3>2, <3>9
      <4> QED
        BY <1>1, <3>2, <4>1 DEF Ordered
    <3>10. Ordered'
      BY <1>2, <3>6, <3>7, <3>8, <3>9 DEF Ordered, AnswersInOrder, Past, client
    <3> QED
      BY <2>1, <3>4, <3>5, <3>10
  <2>2. CASE request' = <<>> /\ UNCHANGED inbox /\ pc' = "idle"
    <3>1. Streams'
      BY <1>1, <1>2, <2>2 DEF Streams, client
    <3>2. Ordered'
      BY <1>1, <1>2, <2>2 DEF Ordered, AnswersInOrder, Past, UpTo, Before, client
    <3> QED
      BY <2>2, <3>1, <3>2
  <2>3. CASE inbox = <<>> /\ pc' = "answer" /\ UNCHANGED <<request, inbox, open>>
    <3>1. request # <<>>
      BY <1>1, <1>2, <2>3 DEF Places
    <3> QED
      BY <1>1, <1>2, <2>3, <3>1, StreamsKept DEF client
  <2> QED
    BY <1>3, <2>1, <2>2, <2>3
<1>6. Scalars'
  BY <1>1, <1>2, <1>4 DEF Scalars, Busy, client, file
<1>7. Places'
  BY <1>1, <1>2, <1>4, <1>5 DEF Places, Busy, client, file
<1>8. Underway' /\ Sending' /\ CrashOnlyIfShrunk' /\ Given'
  BY <1>1, <1>2, <1>4
     DEF Underway, Sending, CrashOnlyIfShrunk, Given, Good, Looked, Busy, client, file
<1> QED
  BY <1>1, <1>2, <1>5, <1>6, <1>7, <1>8, DiskKept DEF ExchangeInv, client, file

(* How an answer is begun: with the first piece of the request; a body     *)
(* that comes from the file has the size it has, or is known to differ.    *)
Begun(kind, due, how, w) ==
    /\ Begin(kind, due, how, w)
    /\ kind \in Kinds /\ due \in Nat /\ how \in {"file", "text", "none"}
    /\ w \in {{}, {"changed"}}
    /\ how = "none" => kind \notin {"get", "close", "bad"}
    /\ how = "text" => due = 1
    /\ how = "file" => due \in Sizes \ {0} /\ (disk # due => "changed" \in w)

(* An answer begun for a file announces its size, or that it is not there. *)
LEMMA BegunForFile ==
    ASSUME ExchangeInv, NEW kind \in {"get", "close", "head"},
           NEW n \in Sizes \cup {NoFile}, Lookup(n),
           IF n = NoFile
           THEN Begin(kind, 1, IF kind = "head" THEN "none" ELSE "text", {})
           ELSE Begin(kind, n, IF kind = "head" THEN "none" ELSE "file",
                      IF n = disk THEN {} ELSE {"changed"})
    PROVE  /\ cached' \in (Sizes \ {0}) \cup {NoFile}
           /\ \E due, how, w : Begun(kind, due, how, w)
<1>1. cached \in (Sizes \ {0}) \cup {NoFile} /\ disk \in Sizes \cup {NoFile}
  BY DEF ExchangeInv, Scalars, Disk
<1>2. n \in (Sizes \ {0}) \cup {NoFile} /\ cached' \in (Sizes \ {0}) \cup {NoFile}
  BY <1>1 DEF Lookup
<1>3. kind \in Kinds
  BY DEF Kinds, Methods, Whole
<1>4. n # NoFile => n \in Sizes \ {0} /\ n \in Nat
  BY <1>2, Constants
<1>5. CASE n = NoFile /\ kind = "head"
  <2>1. Begun(kind, 1, "none", {})
    BY <1>3, <1>5 DEF Begun
  <2> QED
    BY <1>2, <2>1
<1>6. CASE n = NoFile /\ kind # "head"
  <2>1. Begun(kind, 1, "text", {})
    BY <1>3, <1>6 DEF Begun
  <2> QED
    BY <1>2, <2>1
<1>7. CASE n # NoFile /\ kind = "head"
  <2>1. Begun(kind, n, "none", IF n = disk THEN {} ELSE {"changed"})
    BY <1>3, <1>4, <1>7 DEF Begun
  <2> QED
    BY <1>2, <2>1
<1>8. CASE n # NoFile /\ kind # "head"
  <2>1. Begun(kind, n, "file", IF n = disk THEN {} ELSE {"changed"})
    BY <1>3, <1>4, <1>8 DEF Begun
  <2> QED
    BY <1>2, <2>1
<1> QED
  BY <1>5, <1>6, <1>7, <1>8

(* An answer is begun for the first request and for no other.              *)
LEMMA AnswerKeeps == ASSUME ExchangeInv, Answer PROVE ExchangeInv'
<1>1. /\ Streams /\ Scalars /\ Disk
      /\ Places /\ Underway /\ Sending /\ Ordered /\ Given /\ CrashOnlyIfShrunk
  BY DEF ExchangeInv
<1>2. pc = "answer" /\ UNCHANGED <<client, file, conn, request, mapped>>
  BY DEF Answer
<1>3. /\ request \in Seq(Pieces) /\ request # <<>>
      /\ request[1] \in Pieces /\ Len(request) \in Nat /\ Len(request) # 0
  <2>1. request \in Seq(Pieces) /\ request # <<>>
    BY <1>1, <1>2 DEF Streams, Places
  <2> QED
    BY <2>1, Elements
<1>4. Parsed(request) \in Kinds /\ request[1].id \in Nat
  BY <1>3 DEF Parsed, Pieces, Kinds, Methods, Whole
<1> DEFINE kind == Parsed(request)
<1>5. cached' \in (Sizes \ {0}) \cup {NoFile} /\ \E due, how, w : Begun(kind, due, how, w)
  <2>0. cached \in (Sizes \ {0}) \cup {NoFile}
    BY <1>1 DEF Scalars
  <2>1. CASE kind \in {"get", "close", "head"}
    <3>1. PICK n \in Sizes \cup {NoFile} :
            /\ Lookup(n)
            /\ IF n = NoFile
               THEN Begin(kind, 1, IF kind = "head" THEN "none" ELSE "text", {})
               ELSE Begin(kind, n, IF kind = "head" THEN "none" ELSE "file",
                          IF n = disk THEN {} ELSE {"changed"})
      BY <2>1 DEF Answer
    <3> HIDE DEF kind
    <3> QED
      BY <2>1, <3>1, BegunForFile
  <2>2. CASE kind = "post"
    <3>1. Begin(kind, Len(request) - 1, "none", {}) /\ UNCHANGED cached
      BY <2>2 DEF Answer
    <3>2. Len(request) - 1 \in Nat
      BY <1>3
    <3> HIDE DEF kind
    <3>3. Begun(kind, Len(request) - 1, "none", {})
      BY <2>2, <3>1, <3>2 DEF Begun, Kinds, Methods, Whole
    <3> QED
      BY <2>0, <3>1, <3>3
  <2>3. CASE kind \in {"put", "rest", "body"}
    <3>1. Begin(kind, 1, "none", {}) /\ UNCHANGED cached
      BY <2>3 DEF Answer
    <3> HIDE DEF kind
    <3>3. Begun(kind, 1, "none", {})
      BY <2>3, <3>1 DEF Begun, Kinds, Methods, Whole
    <3> QED
      BY <2>0, <3>1, <3>3
  <2>4. CASE kind = "bad"
    <3>1. Begin(kind, 1, "text", {}) /\ UNCHANGED cached
      BY <2>4 DEF Answer
    <3> HIDE DEF kind
    <3>3. Begun(kind, 1, "text", {})
      BY <2>4, <3>1 DEF Begun, Kinds, Methods, Whole
    <3> QED
      BY <2>0, <3>1, <3>3
  <2> QED
    BY <2>1, <2>2, <2>3, <2>4 DEF Answer
<1> HIDE DEF kind
<1>6. PICK due, how, w : Begun(kind, due, how, w)
  BY <1>5
<1>7. /\ resp' = [to |-> request[1].id, kind |-> kind, due |-> due, head |-> FALSE,
                  sent |-> 0, why |-> w]
      /\ body' = how /\ pc' = "head"
  BY <1>6 DEF Begun, Begin
<1>8. resp' \in Answers
  BY <1>4, <1>6, <1>7 DEF Answers, Begun
<1>9. Scalars'
  BY <1>1, <1>2, <1>5, <1>6, <1>7, <1>8 DEF Scalars, Busy, Begun, client, file, conn
<1>10. Places' /\ Sending' /\ CrashOnlyIfShrunk'
  BY <1>1, <1>2, <1>3, <1>7 DEF Places, Sending, CrashOnlyIfShrunk, Busy, client, file, conn
<1>11. Underway'
  BY <1>1, <1>2, <1>6, <1>7 DEF Underway, Busy, Looked, Begun, client, file, conn
<1> QED
  BY <1>1, <1>2, <1>9, <1>10, <1>11, StreamsKept, DiskKept DEF ExchangeInv, client, file, conn

-----------------------------------------------------------------------------
(* Sending.                                                                *)

(* A handler that returns gives an answer that is as promised, and after   *)
(* all that were given.                                                    *)
LEMMA Returned ==
    ASSUME ExchangeInv, Busy,
           NEW r \in Answers, NEW kept \in BOOLEAN, Return(r, kept),
           r.to = resp.to,
           r.kind \in {"get", "close", "bad"} /\ r.why = {} /\ ~fin => r.head /\ r.sent = r.due,
           r.sent > r.due => tls /\ "changed" \in r.why,
           UNCHANGED <<client, disk, changes, cached, inbox, crashed>>,
           room' \in 0 .. Cap, pend' \in BOOLEAN, pend' => tls
    PROVE  ExchangeInv'
<1> DEFINE given == [r EXCEPT !.why = IF fin THEN @ \cup {"gone"} ELSE @]
<1>1. /\ Streams /\ Scalars /\ Disk
      /\ Places /\ Underway /\ Sending /\ Ordered /\ Given /\ CrashOnlyIfShrunk
  BY DEF ExchangeInv
<1>2. /\ pc' = "idle" /\ open' = kept /\ out' = Append(out, given)
      /\ request' = <<>> /\ linked' = FALSE /\ fsz' = 0 /\ mapped' = 0
  BY DEF Return
<1>3. given \in Answers /\ given.to = r.to
  BY DEF Answers
<1>4. Good(given)
  <2>1. CASE fin
    <3>1. "gone" \in given.why /\ given.sent = r.sent /\ given.due = r.due
          /\ r.why \subseteq given.why
      BY <2>1 DEF Answers
    <3> QED
      BY <3>1 DEF Good
  <2>2. CASE ~fin
    <3>1. given = r
      BY <2>2 DEF Answers
    <3> QED
      BY <2>2, <3>1 DEF Good
  <2> QED
    BY <2>1, <2>2
<1> HIDE DEF given
<1>5. out \in Seq(Answers) /\ request \in Seq(Pieces) /\ inbox \in Seq(Seq(Pieces))
      /\ request # <<>> /\ 1 \in DOMAIN request
  <2>1. out \in Seq(Answers) /\ request \in Seq(Pieces) /\ inbox \in Seq(Seq(Pieces))
        /\ request # <<>>
    BY <1>1 DEF Streams, Places
  <2> QED
    BY <2>1, Elements
<1>6. /\ out' \in Seq(Answers)
      /\ DOMAIN out' = DOMAIN out \cup {Len(out) + 1}
      /\ out'[Len(out) + 1] = given
      /\ \A i \in DOMAIN out : out'[i] = out[i] /\ i \in Nat /\ i < Len(out) + 1
      /\ Len(out) \in Nat
  BY <1>2, <1>3, <1>5, Appended, Elements
<1>7. given.to = request[1].id /\ given.to \in Nat
  BY <1>1, <1>3, Numbers DEF Underway
<1>8. Streams'
  BY <1>1, <1>2, <1>6 DEF Streams, client
<1>9. Ordered'
  <2>1. \A a \in DOMAIN out : out[a].to < given.to
    BY <1>1, <1>5, <1>7 DEF Ordered, Past
  <2>2. given.to <= count
    BY <1>1, <1>5, <1>7 DEF Ordered, UpTo
  <2>3. ASSUME NEW i \in DOMAIN out', NEW j \in DOMAIN out', i < j
        PROVE  out'[i].to < out'[j].to
    <3>1. i \in DOMAIN out
      BY <1>6, <2>3
    <3>2. CASE j \in DOMAIN out
      BY <1>1, <1>6, <2>3, <3>1, <3>2 DEF Ordered, AnswersInOrder
    <3>3. CASE j = Len(out) + 1
      BY <1>6, <2>1, <3>1, <3>3
    <3> QED
      BY <1>6, <3>2, <3>3
  <2>4. \A a \in DOMAIN out' : out'[a].to <= count
    BY <1>1, <1>6, <2>2 DEF Ordered
  <2>5. ASSUME NEW i \in DOMAIN inbox, NEW a \in DOMAIN out', NEW k \in DOMAIN inbox[i]
        PROVE  out'[a].to < inbox[i][k].id
    <3>1. CASE a \in DOMAIN out
      BY <1>1, <1>6, <3>1 DEF Ordered, Past
    <3>2. CASE a = Len(out) + 1
      BY <1>1, <1>5, <1>6, <1>7, <3>2 DEF Ordered, Before
    <3> QED
      BY <1>6, <3>1, <3>2
  <2>6. /\ \A i \in DOMAIN inbox : UpTo(inbox[i], count)
        /\ \A i, j \in DOMAIN inbox : i < j => Before(inbox[i], inbox[j])
    BY <1>1 DEF Ordered
  <2>7. \A i \in DOMAIN inbox : Past(inbox[i])'
    BY <2>5 DEF Past
  <2> QED
    BY <1>2, <2>3, <2>4, <2>6, <2>7 DEF Ordered, AnswersInOrder, Past, UpTo, Before, client
<1>10. Given'
  BY <1>1, <1>4, <1>6 DEF Given, Good, client
<1>11. Scalars' /\ Disk'
  BY <1>1, <1>2 DEF Scalars, Disk, Busy, client
<1>12. Places' /\ Underway' /\ Sending' /\ CrashOnlyIfShrunk'
  BY <1>1, <1>2 DEF Places, Underway, Sending, CrashOnlyIfShrunk, Busy, Looked
<1> QED
  BY <1>8, <1>9, <1>10, <1>11, <1>12 DEF ExchangeInv

(* Whatever a write comes to, the buffer keeps within its bounds.          *)
LEMMA Wrote ==
    ASSUME Scalars, NEW o \in Outcomes, Write(o), UNCHANGED tls
    PROVE  room' \in 0 .. Cap /\ pend' \in BOOLEAN /\ (pend' => tls)
<1>1. room \in Nat /\ room <= Cap /\ Cap \in Nat
  BY Constants DEF Scalars
<1>2. room' = room \/ (room > 0 /\ room' = room - 1)
  BY DEF Write
<1>3. room' \in 0 .. Cap
  BY <1>1, <1>2
<1>4. pend' = pend \/ pend' = tls \/ pend' = FALSE
  BY DEF Write
<1>5. pend \in BOOLEAN /\ tls \in BOOLEAN /\ (pend => tls)
  BY DEF Scalars
<1>6. pend' \in BOOLEAN /\ (pend' => tls)
  <2>1. CASE pend' = pend
    BY <1>5, <2>1
  <2>2. CASE pend' = tls
    BY <1>5, <2>2
  <2>3. CASE pend' = FALSE
    BY <2>3
  <2> QED
    BY <1>4, <2>1, <2>2, <2>3
<1> QED
  BY <1>3, <1>6

(* A unit that was not written leaves its trace, or the client has left.   *)
LEMMA DelayedIs ==
    ASSUME NEW r \in Answers, NEW o \in Outcomes, Write(o)
    PROVE  /\ Delayed(r, o) \in Answers
           /\ Delayed(r, o).to = r.to /\ Delayed(r, o).kind = r.kind
           /\ Delayed(r, o).due = r.due /\ Delayed(r, o).sent = r.sent
           /\ Delayed(r, o).head = r.head
           /\ r.why \subseteq Delayed(r, o).why
           /\ Delayed(r, o).why = {} => o = "sent" \/ fin
           /\ o \notin {"sent", "failed"} => "full" \in Delayed(r, o).why
  BY DEF Answers, Delayed, Write, Outcomes

(* The header goes out, or it is noted why not.                            *)
LEMMA WriteHeaderKeeps == ASSUME ExchangeInv, WriteHeader PROVE ExchangeInv'
<1>1. /\ Streams /\ Scalars /\ Disk
      /\ Places /\ Underway /\ Sending /\ Ordered /\ Given /\ CrashOnlyIfShrunk
  BY DEF ExchangeInv
<1>2. pc = "head" /\ UNCHANGED <<client, disk, changes, cached, inbox, crashed>>
  BY DEF WriteHeader
<1>3. PICK o \in Outcomes :
        /\ Write(o)
        /\ LET r == [Delayed(resp, o) EXCEPT !.head = (o = "sent")] IN
           IF o = "failed" THEN Return(r, FALSE)
           ELSE IF body = "none" THEN Return(r, KeepAlive(r.kind))
           ELSE /\ resp' = r
                /\ pc' = IF body = "file" THEN "open" ELSE "text"
                /\ UNCHANGED <<request, body, mapped, fsz, linked, open, out>>
  BY DEF WriteHeader
<1> DEFINE r == [Delayed(resp, o) EXCEPT !.head = (o = "sent")]
<1>4. Busy /\ resp \in Answers /\ resp.sent = 0 /\ body \in {"file", "text", "none"}
  BY <1>1, <1>2 DEF Busy, Scalars, Underway
<1>5. room' \in 0 .. Cap /\ pend' \in BOOLEAN /\ (pend' => tls)
  BY <1>1, <1>2, <1>3, Wrote DEF client
<1>6. /\ r \in Answers /\ r.to = resp.to /\ r.kind = resp.kind /\ r.due = resp.due
      /\ r.sent = 0 /\ resp.why \subseteq r.why
      /\ r.head = (o = "sent")
      /\ r.why = {} => o = "sent" \/ fin
      /\ o \notin {"sent", "failed"} => "full" \in r.why
      /\ ~(r.sent > r.due)
  <2>1. /\ Delayed(resp, o) \in Answers
        /\ Delayed(resp, o).to = resp.to /\ Delayed(resp, o).kind = resp.kind
        /\ Delayed(resp, o).due = resp.due /\ Delayed(resp, o).sent = resp.sent
        /\ resp.why \subseteq Delayed(resp, o).why
        /\ Delayed(resp, o).why = {} => o = "sent" \/ fin
        /\ o \notin {"sent", "failed"} => "full" \in Delayed(resp, o).why
    BY <1>3, <1>4, DelayedIs
  <2>2. /\ r \in Answers /\ r.to = resp.to /\ r.kind = resp.kind /\ r.due = resp.due
        /\ r.sent = 0 /\ r.why = Delayed(resp, o).why /\ r.head = (o = "sent")
    BY <1>4, <2>1 DEF Answers
  <2>3. r.due \in Nat
    BY <2>2, Numbers
  <2> QED
    BY <2>1, <2>2, <2>3
<1>7. CASE o = "failed"
  <2>1. Return(r, FALSE)
    BY <1>3, <1>7
  <2> HIDE DEF r
  <2> QED
    BY <1>2, <1>4, <1>5, <1>6, <1>7, <2>1, Returned
<1>8. CASE o # "failed" /\ body = "none"
  <2>1. Return(r, KeepAlive(r.kind)) /\ r.kind \notin {"get", "close", "bad"}
    BY <1>1, <1>3, <1>4, <1>6, <1>8 DEF Underway
  <2>2. KeepAlive(r.kind) \in BOOLEAN
    BY DEF KeepAlive
  <2> HIDE DEF r
  <2> QED
    BY <1>2, <1>4, <1>5, <1>6, <2>1, <2>2, Returned
<1>9. CASE o # "failed" /\ body # "none"
  <2>1. /\ resp' = r /\ pc' = IF body = "file" THEN "open" ELSE "text"
        /\ UNCHANGED <<request, body, mapped, fsz, linked, open, out>>
    BY <1>3, <1>9
  <2> HIDE DEF r
  <2>2. Scalars' /\ Disk'
    BY <1>1, <1>2, <1>4, <1>5, <1>6, <2>1 DEF Scalars, Disk, Busy, client
  <2>3. Places' /\ Sending' /\ CrashOnlyIfShrunk'
    BY <1>1, <1>2, <2>1 DEF Places, Sending, CrashOnlyIfShrunk, Busy, client
  <2>4. r.head \/ "full" \in r.why
    BY <1>6, <1>9 DEF Outcomes
  <2>5. Underway'
    BY <1>1, <1>2, <1>4, <1>6, <1>9, <2>1, <2>4 DEF Underway, Busy, Looked, client
  <2> QED
    BY <1>1, <1>2, <2>1, <2>2, <2>3, <2>5, StreamsKept DEF ExchangeInv, client
<1> QED
  BY <1>7, <1>8, <1>9

(* So does a text, which is the whole of the body.                         *)
LEMMA WriteTextKeeps == ASSUME ExchangeInv, WriteText PROVE ExchangeInv'
<1>1. Scalars /\ Underway
  BY DEF ExchangeInv
<1>2. pc = "text" /\ UNCHANGED <<client, disk, changes, cached, inbox, crashed>>
  BY DEF WriteText
<1>3. PICK o \in Outcomes :
        /\ Write(o)
        /\ LET r == [Delayed(resp, o) EXCEPT !.sent = IF o = "sent" THEN 1 ELSE 0] IN
           \/ o # "failed" /\ Return(r, KeepAlive(r.kind))
           \/ o = "failed" /\ Return(r, FALSE)
           \/ o = "failed" /\ ~tls /\ Return(r, KeepAlive(r.kind))
  BY DEF WriteText
<1> DEFINE r == [Delayed(resp, o) EXCEPT !.sent = IF o = "sent" THEN 1 ELSE 0]
<1>4. Busy /\ resp \in Answers /\ resp.due = 1 /\ (resp.why = {} => resp.head)
  BY <1>1, <1>2 DEF Busy, Scalars, Underway
<1>5. room' \in 0 .. Cap /\ pend' \in BOOLEAN /\ (pend' => tls)
  BY <1>1, <1>2, <1>3, Wrote DEF client
<1>6. /\ r \in Answers /\ r.to = resp.to
      /\ r.why = {} /\ ~fin => r.head /\ r.sent = r.due
      /\ ~(r.sent > r.due)
  <2>1. /\ Delayed(resp, o) \in Answers
        /\ Delayed(resp, o).to = resp.to
        /\ Delayed(resp, o).due = 1 /\ Delayed(resp, o).head = resp.head
        /\ resp.why \subseteq Delayed(resp, o).why
        /\ Delayed(resp, o).why = {} => o = "sent" \/ fin
    BY <1>3, <1>4, DelayedIs
  <2>2. /\ r \in Answers /\ r.to = resp.to /\ r.due = 1
        /\ r.sent = (IF o = "sent" THEN 1 ELSE 0)
        /\ r.why = Delayed(resp, o).why /\ r.head = resp.head
    BY <1>4, <2>1 DEF Answers
  <2> QED
    BY <1>4, <2>1, <2>2
<1>7. KeepAlive(r.kind) \in BOOLEAN
  BY DEF KeepAlive
<1>8. Return(r, KeepAlive(r.kind)) \/ Return(r, FALSE)
  BY <1>3
<1> HIDE DEF r
<1> QED
  BY <1>2, <1>4, <1>5, <1>6, <1>7, <1>8, Returned

(* The file that is opened is the one announced, or it is noted.           *)
LEMMA OpenFileKeeps == ASSUME ExchangeInv, OpenFile PROVE ExchangeInv'
<1>1. /\ Streams /\ Scalars /\ Disk
      /\ Places /\ Underway /\ Sending /\ Ordered /\ Given /\ CrashOnlyIfShrunk
  BY DEF ExchangeInv
<1>2. pc = "open" /\ UNCHANGED <<client, disk, changes, cached, inbox, room, pend, crashed>>
  BY DEF OpenFile
<1>3. /\ Busy /\ resp \in Answers /\ resp.sent = 0 /\ body = "file"
      /\ resp.due \in Sizes \ {0} /\ (disk # resp.due => "changed" \in resp.why)
  BY <1>1, <1>2 DEF Busy, Scalars, Underway, Looked
<1>4. resp.due \in Nat /\ resp.due # NoFile /\ 0 \in Nat
  BY <1>3, Constants
<1>5. room' \in 0 .. Cap /\ pend' \in BOOLEAN /\ (pend' => tls)
  BY <1>1, <1>2 DEF Scalars
<1>6. CASE disk = NoFile \/ (tls /\ disk = 0)
  <2>1. Return(resp, KeepAlive(resp.kind)) /\ KeepAlive(resp.kind) \in BOOLEAN
    BY <1>6 DEF OpenFile, KeepAlive
  <2>2. "changed" \in resp.why /\ ~(resp.sent > resp.due)
    BY <1>3, <1>4, <1>6
  <2> QED
    BY <1>2, <1>3, <1>5, <2>1, <2>2, Returned
<1>7. CASE ~(disk = NoFile \/ (tls /\ disk = 0))
  <2>1. /\ pc' = "file" /\ fsz' = disk /\ linked' = TRUE
        /\ mapped' = IF tls THEN disk ELSE 0
        /\ UNCHANGED <<request, resp, body, open, out>>
    BY <1>7 DEF OpenFile
  <2>2. disk \in Sizes /\ disk \in Nat
    BY <1>1, <1>7, Constants DEF Disk
  <2>3. Scalars' /\ Disk'
    BY <1>1, <1>2, <1>3, <2>1, <2>2 DEF Scalars, Disk, Busy, client
  <2>4. Places' /\ CrashOnlyIfShrunk'
    BY <1>1, <1>2, <2>1 DEF Places, CrashOnlyIfShrunk, Busy, client
  <2>5. Underway'
    BY <1>1, <1>2, <2>1 DEF Underway, Busy, Looked, client
  <2>6. Sending'
    BY <1>2, <1>3, <1>4, <1>7, <2>1, <2>2 DEF Sending, client
  <2> QED
    BY <1>1, <1>2, <2>1, <2>3, <2>4, <2>5, <2>6, StreamsKept DEF ExchangeInv, client
<1> QED
  BY <1>6, <1>7

(* sendfile sends what is left, and never more than was announced.         *)
LEMMA SendFileKeeps == ASSUME ExchangeInv, SendFile PROVE ExchangeInv'
<1>1. /\ Streams /\ Scalars /\ Disk
      /\ Places /\ Underway /\ Sending /\ Ordered /\ Given /\ CrashOnlyIfShrunk
  BY DEF ExchangeInv
<1>2. pc = "file" /\ ~tls
      /\ UNCHANGED <<client, disk, changes, cached, inbox, pend, crashed>>
  BY DEF SendFile
<1>3. /\ Busy /\ resp \in Answers /\ resp.sent <= resp.due /\ fsz \in Sizes
      /\ (resp.why = {} => resp.head)
      /\ resp.sent \in Nat /\ resp.due \in Nat /\ fsz \in Nat
      /\ room \in Nat /\ room <= Cap /\ Cap \in Nat
  <2>1. Busy /\ resp \in Answers /\ resp.sent <= resp.due /\ fsz \in Sizes
        /\ (resp.why = {} => resp.head) /\ room \in 0 .. Cap
    BY <1>1, <1>2 DEF Busy, Scalars, Underway, Sending
  <2> QED
    BY <2>1, Constants, Numbers
<1>4. pend' \in BOOLEAN /\ (pend' => tls)
  BY <1>1, <1>2 DEF Scalars
<1>5. \A kind : KeepAlive(kind) \in BOOLEAN
  BY DEF KeepAlive
<1>6. ASSUME NEW k \in 1 .. room, k <= resp.due - resp.sent, k <= fsz - resp.sent,
             room' = room - k,
             LET r == [resp EXCEPT !.sent = @ + k] IN
             IF r.sent = r.due THEN Return(r, KeepAlive(r.kind))
             ELSE resp' = r /\ UNCHANGED <<pc, request, body, mapped, fsz, linked, open, out>>
      PROVE  ExchangeInv'
  <2> DEFINE r == [resp EXCEPT !.sent = @ + k]
  <2>1. k \in Nat /\ room' \in 0 .. Cap
    BY <1>3, <1>6
  <2>2. /\ r \in Answers /\ r.to = resp.to /\ r.due = resp.due /\ r.kind = resp.kind
        /\ r.why = resp.why /\ r.head = resp.head /\ r.sent = resp.sent + k
    BY <1>3, <2>1 DEF Answers
  <2>3. r.sent <= r.due /\ ~(r.sent > r.due)
    BY <1>3, <1>6, <2>1, <2>2
  <2>4. CASE r.sent = r.due
    <3>1. Return(r, KeepAlive(r.kind))
      BY <1>6, <2>4
    <3> HIDE DEF r
    <3> QED
      BY <1>2, <1>3, <1>4, <1>5, <2>1, <2>2, <2>3, <2>4, <3>1, Returned
  <2>5. CASE r.sent # r.due
    <3>1. resp' = r /\ UNCHANGED <<pc, request, body, mapped, fsz, linked, open, out>>
      BY <1>6, <2>5
    <3> HIDE DEF r
    <3>2. Scalars' /\ Disk'
      BY <1>1, <1>2, <2>1, <2>2, <3>1 DEF Scalars, Disk, Busy, client
    <3>3. Places' /\ CrashOnlyIfShrunk'
      BY <1>1, <1>2, <2>2, <3>1 DEF Places, CrashOnlyIfShrunk, Busy, client
    <3>4. Underway' /\ Sending'
      BY <1>1, <1>2, <2>2, <2>3, <3>1 DEF Underway, Sending, Busy, Looked, client
    <3> QED
      BY <1>1, <1>2, <3>1, <3>2, <3>3, <3>4, StreamsKept DEF ExchangeInv, client
  <2> QED
    BY <2>4, <2>5
<1>7. CASE Return([resp EXCEPT !.why = @ \cup {"full"}], KeepAlive(resp.kind)) /\ UNCHANGED room
  <2> DEFINE r == [resp EXCEPT !.why = @ \cup {"full"}]
  <2>1. /\ r \in Answers /\ r.to = resp.to /\ r.due = resp.due /\ r.sent = resp.sent
        /\ "full" \in r.why
    BY <1>3 DEF Answers
  <2>2. Return(r, KeepAlive(resp.kind)) /\ room' \in 0 .. Cap
    BY <1>3, <1>7
  <2> HIDE DEF r
  <2>3. ~(r.sent > r.due) /\ r.why # {}
    BY <1>3, <2>1
  <2> QED
    BY <1>2, <1>3, <1>4, <1>5, <2>1, <2>2, <2>3, Returned
<1>8. CASE fin /\ Return(resp, KeepAlive(resp.kind)) /\ UNCHANGED room
  <2>1. ~(resp.sent > resp.due) /\ room' \in 0 .. Cap
    BY <1>3, <1>8
  <2> QED
    BY <1>2, <1>3, <1>4, <1>5, <1>8, <2>1, Returned
<1> QED
  BY <1>6, <1>7, <1>8 DEF SendFile

(* A mapped file is sent as long as it was when it was mapped.             *)
LEMMA SendMappedKeeps == ASSUME ExchangeInv, SendMapped PROVE ExchangeInv'
<1>1. /\ Streams /\ Scalars /\ Disk
      /\ Places /\ Underway /\ Sending /\ Ordered /\ Given /\ CrashOnlyIfShrunk
  BY DEF ExchangeInv
<1>2. pc = "file" /\ tls /\ UNCHANGED <<client, disk, changes, cached, inbox>>
  BY DEF SendMapped
<1>3. /\ Busy /\ resp \in Answers /\ resp.sent = 0 /\ (resp.why = {} => resp.head)
      /\ mapped # resp.due => "changed" \in resp.why
      /\ mapped > fsz => "shrunk" \in resp.why
      /\ resp.due \in Nat /\ mapped \in Nat
      /\ room \in Nat /\ room <= Cap /\ Cap \in Nat /\ pend \in BOOLEAN
  <2>1. /\ Busy /\ resp \in Answers /\ resp.sent = 0 /\ (resp.why = {} => resp.head)
        /\ mapped # resp.due => "changed" \in resp.why
        /\ mapped > fsz => "shrunk" \in resp.why
        /\ mapped \in Nat /\ room \in 0 .. Cap /\ pend \in BOOLEAN
    BY <1>1, <1>2 DEF Busy, Scalars, Underway, Sending
  <2> QED
    BY <2>1, Constants, Numbers
<1>5. \A kind : KeepAlive(kind) \in BOOLEAN
  BY DEF KeepAlive
<1>6. CASE mapped <= room /\ room' = room - mapped
           /\ Return([resp EXCEPT !.sent = mapped], KeepAlive(resp.kind))
           /\ UNCHANGED <<pend, crashed>>
  <2> DEFINE r == [resp EXCEPT !.sent = mapped]
  <2>1. /\ r \in Answers /\ r.to = resp.to /\ r.due = resp.due /\ r.sent = mapped
        /\ r.why = resp.why /\ r.head = resp.head
    BY <1>3 DEF Answers
  <2>2. Return(r, KeepAlive(resp.kind))
    BY <1>6
  <2>3. room' \in 0 .. Cap /\ pend' \in BOOLEAN
    BY <1>3, <1>6
  <2> HIDE DEF r
  <2>4. /\ r.why = {} => r.head /\ r.sent = r.due
        /\ r.sent > r.due => "changed" \in r.why
    BY <1>3, <2>1
  <2> QED
    BY <1>2, <1>3, <1>5, <1>6, <2>1, <2>2, <2>3, <2>4, Returned
<1>7. CASE mapped > room /\ room' = 0 /\ pend' = TRUE
           /\ Return([resp EXCEPT !.sent = room, !.why = @ \cup {"full"}], KeepAlive(resp.kind))
           /\ UNCHANGED crashed
  <2> DEFINE r == [resp EXCEPT !.sent = room, !.why = @ \cup {"full"}]
  <2>1. /\ r \in Answers /\ r.to = resp.to /\ r.due = resp.due /\ r.sent = room
        /\ resp.why \subseteq r.why /\ "full" \in r.why
    BY <1>3 DEF Answers
  <2>2. Return(r, KeepAlive(resp.kind))
    BY <1>7
  <2>3. room' \in 0 .. Cap /\ pend' \in BOOLEAN
    BY <1>3, <1>7
  <2> HIDE DEF r
  <2>4. r.why # {} /\ (r.sent > r.due => "changed" \in r.why)
    BY <1>3, <1>7, <2>1
  <2> QED
    BY <1>2, <1>3, <1>5, <1>7, <2>1, <2>2, <2>3, <2>4, Returned
<1>8. CASE (fin \/ pend) /\ Return(Delayed(resp, "failed"), KeepAlive(resp.kind))
           /\ UNCHANGED <<room, pend, crashed>>
  <2> DEFINE r == Delayed(resp, "failed")
  <2>1. Write("failed") /\ "failed" \in Outcomes
    BY <1>8 DEF Write, Outcomes
  <2>2. /\ r \in Answers /\ r.to = resp.to /\ r.due = resp.due /\ r.sent = 0
        /\ r.why = {} => fin
    BY <1>3, <2>1, DelayedIs
  <2>3. Return(r, KeepAlive(resp.kind)) /\ room' \in 0 .. Cap /\ pend' \in BOOLEAN
    BY <1>3, <1>8
  <2> HIDE DEF r
  <2>4. ~(r.sent > r.due)
    BY <1>3, <2>2
  <2> QED
    BY <1>2, <1>3, <1>5, <1>8, <2>2, <2>3, <2>4, Returned
<1>9. CASE /\ mapped > fsz /\ crashed' = TRUE
           /\ pc' = "idle" /\ open' = FALSE /\ linked' = FALSE
           /\ UNCHANGED <<room, pend, out, request, resp, body, mapped, fsz>>
  <2>1. Scalars' /\ Disk'
    BY <1>1, <1>2, <1>9 DEF Scalars, Disk, Busy, client
  <2>2. Places' /\ Underway' /\ Sending' /\ CrashOnlyIfShrunk'
    BY <1>3, <1>9 DEF Places, Underway, Sending, CrashOnlyIfShrunk, Busy, Looked
  <2> QED
    BY <1>1, <1>2, <1>9, <2>1, <2>2, StreamsKept DEF ExchangeInv, client
<1> QED
  BY <1>6, <1>7, <1>8, <1>9 DEF SendMapped

-----------------------------------------------------------------------------
(* A client that waits for its answers.                                    *)

(* The pieces that have arrived, and the requests nobody has answered.     *)
Held == Range(request) \cup UNION {Range(s) : s \in Range(inbox)}
Unanswered == {q \in asked : ~Answered(q) /\ ~CutOff(q)}

(* Such a client's segments are one request, or more of its body.          *)
Simple ==
    \A k \in DOMAIN script :
        script[k][1] # "start" /\ \A j \in DOMAIN script[k] \ {1} : script[k][j] = "body"

(* One request at most is unanswered, and on an open connection it is among*)
(* what has arrived; a handler that reads on has not seen it.              *)
PatientInv ==
    /\ pc = "read" => ~Terminated(request)
    /\ Busy => resp.kind = Parsed(request)
    /\ ~tls => \A i \in DOMAIN inbox : i = 1
    /\ patient =>
        /\ Simple
        /\ \A p \in Held : p.kind # "start" /\ (p.kind \in Whole => p.id \in asked)
        /\ \A q, r \in Unanswered : q = r
        /\ open => \A q \in Unanswered : \E p \in Held : p.id = q /\ p.kind \in Whole

(* The elements after an append, ...                                       *)
LEMMA RangeAppended ==
    ASSUME NEW S, NEW s \in Seq(S), NEW x \in S
    PROVE  Range(Append(s, x)) = Range(s) \cup {x}
  BY Appended DEF Range

(* ... of two sequences joined, ...                                        *)
LEMMA RangeJoined ==
    ASSUME NEW S, NEW s \in Seq(S), NEW t \in Seq(S)
    PROVE  Range(s \o t) = Range(s) \cup Range(t)
<1>1. /\ DOMAIN s = 1 .. Len(s) /\ Len(s) \in Nat /\ DOMAIN t = 1 .. Len(t) /\ Len(t) \in Nat
      /\ DOMAIN (s \o t) = 1 .. Len(s) + Len(t)
      /\ \A k \in DOMAIN s : k \in DOMAIN (s \o t) /\ (s \o t)[k] = s[k]
      /\ \A k \in DOMAIN t : Len(s) + k \in DOMAIN (s \o t) /\ (s \o t)[Len(s) + k] = t[k]
  OBVIOUS
<1>2. Range(s \o t) \subseteq Range(s) \cup Range(t)
  BY Joined DEF Range
<1>3. Range(s) \subseteq Range(s \o t)
  BY <1>1 DEF Range
<1>4. Range(t) \subseteq Range(s \o t)
  BY <1>1 DEF Range
<1> QED
  BY <1>2, <1>3, <1>4

(* ... and without the first.                                              *)
LEMMA RangeDropped ==
    ASSUME NEW S, NEW s \in Seq(S), s # <<>>
    PROVE  Range(s) = {Head(s)} \cup Range(Tail(s))
<1>1. /\ Head(s) = s[1] /\ 1 \in DOMAIN s
      /\ \A i \in DOMAIN Tail(s) : i + 1 \in DOMAIN s /\ Tail(s)[i] = s[i + 1]
  BY Dropped
<1>2. \A k \in DOMAIN s : k = 1 \/ (k - 1 \in DOMAIN Tail(s) /\ Tail(s)[k - 1] = s[k])
  OBVIOUS
<1>3. Range(s) \subseteq {Head(s)} \cup Range(Tail(s))
  BY <1>1, <1>2 DEF Range
<1>4. {Head(s)} \subseteq Range(s)
  BY <1>1 DEF Range
<1>5. Range(Tail(s)) \subseteq Range(s)
  BY <1>1 DEF Range
<1> QED
  BY <1>3, <1>4, <1>5

(* What is said of a patient client needs its requests and answers only.   *)
LEMMA PatientKept ==
    ASSUME PatientInv, UNCHANGED <<tls, patient, script, inbox, request, asked, out>>,
           open' => open, pc' = "read" => pc = "read",
           Busy' => Busy /\ resp'.kind = resp.kind
    PROVE  PatientInv'
  BY DEF PatientInv, Simple, Held, Unanswered, Answered, CutOff

(* A whole request is sent when all before it are answered.                *)
LEMMA PatientSend == ASSUME ExchangeInv, PatientInv, Send PROVE PatientInv'
<1> DEFINE seg == [k \in DOMAIN Head(script) |-> [id |-> count + k, kind |-> Head(script)[k]]]
           new == {p.id : p \in {q \in Range(seg) : q.kind \in Whole}}
<1>1. /\ script # <<>> /\ open
      /\ patient /\ seg[1].kind \in Methods => \A q \in asked : Answered(q)
      /\ inbox' = IF tls \/ inbox = <<>> THEN Append(inbox, seg) ELSE <<inbox[1] \o seg>>
      /\ asked' = asked \cup new /\ script' = Tail(script)
      /\ UNCHANGED <<tls, patient, open, out, locals>>
  BY DEF Send
<1>2. Streams /\ Ordered
  BY DEF ExchangeInv
<1>3. /\ Head(script) \in Seq(Kinds) /\ Head(script) # <<>> /\ Head(script) = script[1]
      /\ 1 \in DOMAIN script
      /\ \A k \in DOMAIN Tail(script) : k + 1 \in DOMAIN script /\ Tail(script)[k] = script[k + 1]
  BY <1>1, <1>2, Dropped DEF Streams
<1>4. /\ seg \in Seq(Pieces) /\ 1 \in DOMAIN seg /\ DOMAIN seg = DOMAIN Head(script)
      /\ \A k \in DOMAIN seg : seg[k].id = count + k /\ seg[k].kind = Head(script)[k]
  <2>1. /\ DOMAIN Head(script) = 1 .. Len(Head(script)) /\ Len(Head(script)) \in Nat
        /\ \A k \in DOMAIN Head(script) : Head(script)[k] \in Kinds
        /\ 1 \in DOMAIN Head(script)
    BY <1>3, Elements
  <2>2. count \in Nat
    BY <1>2 DEF Streams
  <2>3. \A k \in 1 .. Len(Head(script)) :
            [id |-> count + k, kind |-> Head(script)[k]] \in Pieces
    BY <2>1, <2>2 DEF Pieces
  <2>4. seg \in [1 .. Len(Head(script)) -> Pieces]
    BY <2>1, <2>3
  <2> QED
    BY <2>1, <2>4, Built
<1> HIDE DEF seg
<1>5. Held' = Held \cup Range(seg)
  <2>1. request' = request /\ inbox \in Seq(Seq(Pieces))
    BY <1>1, <1>2 DEF locals, Streams
  <2>2. CASE tls \/ inbox = <<>>
    <3>1. Range(inbox') = Range(inbox) \cup {seg}
      BY <1>1, <1>4, <2>1, <2>2, RangeAppended
    <3> QED
      BY <2>1, <3>1 DEF Held
  <2>3. CASE ~(tls \/ inbox = <<>>)
    <3>1. ~tls /\ inbox # <<>> /\ inbox[1] \in Seq(Pieces) /\ inbox' = <<inbox[1] \o seg>>
      BY <1>1, <2>1, <2>3, Elements
    <3>2. Range(inbox') = {inbox[1] \o seg}
      <4>1. DOMAIN <<inbox[1] \o seg>> = {1} /\ <<inbox[1] \o seg>>[1] = inbox[1] \o seg
        OBVIOUS
      <4> QED
        BY <3>1, <4>1 DEF Range
    <3>3. Range(inbox[1] \o seg) = Range(inbox[1]) \cup Range(seg)
      BY <1>4, <3>1, RangeJoined
    <3>4. Range(inbox) = {inbox[1]}
      BY <2>1, <3>1, Elements DEF PatientInv, Range
    <3> QED
      BY <2>1, <3>2, <3>3, <3>4 DEF Held
  <2> QED
    BY <2>2, <2>3
<1>6. /\ patient' = patient /\ open' = open /\ out' = out /\ request' = request
      /\ pc' = pc /\ resp' = resp /\ tls' = tls
  BY <1>1 DEF locals
<1>7. ~tls => \A i \in DOMAIN inbox' : i = 1
  <2>1. CASE tls
    BY <2>1
  <2>2. CASE ~tls /\ inbox = <<>>
    <3>1. inbox' = <<seg>>
      BY <1>1, <2>2
    <3> QED
      BY <3>1
  <2>3. CASE ~(tls \/ inbox = <<>>)
    <3>1. inbox' = <<inbox[1] \o seg>>
      BY <1>1, <2>3
    <3> QED
      BY <3>1
  <2> QED
    BY <2>1, <2>2, <2>3
<1>8. ASSUME patient
      PROVE  /\ Simple'
             /\ \A p \in Held' : p.kind # "start" /\ (p.kind \in Whole => p.id \in asked')
             /\ \A q, r \in Unanswered' : q = r
             /\ \A q \in Unanswered' : \E p \in Held' : p.id = q /\ p.kind \in Whole
  <2>1. /\ Simple
        /\ \A p \in Held : p.kind # "start" /\ (p.kind \in Whole => p.id \in asked)
        /\ \A q, r \in Unanswered : q = r
        /\ \A q \in Unanswered : \E p \in Held : p.id = q /\ p.kind \in Whole
    BY <1>1, <1>8 DEF PatientInv
  <2>2. Simple'
    BY <1>1, <1>3, <2>1 DEF Simple
  <2>3. /\ seg[1].kind # "start"
        /\ \A k \in DOMAIN seg : k = 1 \/ seg[k].kind = "body"
    BY <1>3, <1>4, <2>1 DEF Simple
  <2>4. \A p \in Range(seg) : p = seg[1] \/ p.kind = "body"
    BY <2>3 DEF Range
  <2>5. seg[1] \in Range(seg)
    BY <1>4 DEF Range
  <2>6. "body" \notin Whole /\ "body" # "start"
    BY DEF Whole
  <2>7. \A p \in Held' : p.kind # "start" /\ (p.kind \in Whole => p.id \in asked')
    BY <1>1, <1>5, <2>1, <2>3, <2>4, <2>6
  <2>8. CASE seg[1].kind \in Whole
    <3>1. Unanswered = {}
      BY <1>1, <1>8, <2>8 DEF Answered, Unanswered, Methods
    <3>2. new = {seg[1].id}
      BY <2>4, <2>5, <2>6, <2>8
    <3>3. Unanswered' \subseteq {seg[1].id}
      BY <1>1, <1>6, <3>1, <3>2 DEF Unanswered, Answered, CutOff
    <3> QED
      BY <1>5, <2>2, <2>5, <2>7, <2>8, <3>3
  <2>9. CASE seg[1].kind \notin Whole
    <3>1. new = {}
      BY <2>4, <2>6, <2>9
    <3>2. Unanswered' = Unanswered
      BY <1>1, <1>6, <3>1 DEF Unanswered, Answered, CutOff
    <3> QED
      BY <1>5, <2>1, <2>2, <2>7, <3>2
  <2> QED
    BY <2>8, <2>9
<1> QED
  BY <1>6, <1>7, <1>8 DEF PatientInv, Busy

(* Dispatch leaves requests and answers as they are.                       *)
LEMMA PatientDispatch == ASSUME ExchangeInv, PatientInv, Dispatch PROVE PatientInv'
<1>1. pc = "idle" /\ open /\ UNCHANGED <<tls, patient, script, inbox, request, asked, out>>
  BY DEF Dispatch, client
<1>2. request = <<>>
  BY <1>1 DEF ExchangeInv, Places
<1>3. ~Terminated(request')
  BY <1>1, <1>2 DEF Terminated, Range
<1>4. ~Busy'
  BY <1>1 DEF Dispatch, Busy
<1> QED
  BY <1>1, <1>3, <1>4 DEF PatientInv, Simple, Held, Unanswered, Answered, CutOff

(* What is given up at EAGAIN is no request.                               *)
LEMMA PatientRead == ASSUME ExchangeInv, PatientInv, Read PROVE PatientInv'
<1>1. /\ pc = "read" /\ ~Terminated(request)
      /\ UNCHANGED <<tls, patient, script, asked, out, resp>>
  BY DEF PatientInv, Read, client
<1>2. inbox \in Seq(Seq(Pieces)) /\ request \in Seq(Pieces)
  BY DEF ExchangeInv, Streams
<1>3. CASE /\ inbox # <<>> /\ request' = request \o Head(inbox) /\ inbox' = Tail(inbox)
           /\ pc' = (IF Terminated(request') THEN "answer" ELSE "read") /\ UNCHANGED open
  <2>1. Head(inbox) \in Seq(Pieces)
    BY <1>2, <1>3, Dropped
  <2>2. Range(request') = Range(request) \cup Range(Head(inbox))
    BY <1>2, <1>3, <2>1, RangeJoined
  <2>3. Range(inbox) = {Head(inbox)} \cup Range(inbox')
    BY <1>2, <1>3, RangeDropped
  <2>4. Held' = Held
    BY <2>2, <2>3 DEF Held
  <2>5. \A i \in DOMAIN inbox' : i \in Nat /\ i + 1 \in DOMAIN inbox /\ 1 < i + 1
    BY <1>2, <1>3, Dropped
  <2>6. ~tls => \A i \in DOMAIN inbox' : i = 1
    BY <2>5 DEF PatientInv
  <2>7. ~Busy' /\ (pc' = "read" => ~Terminated(request'))
    BY <1>3 DEF Busy
  <2> QED
    BY <1>1, <1>3, <2>4, <2>6, <2>7 DEF PatientInv, Simple, Unanswered, Answered, CutOff
<1>4. CASE inbox = <<>> /\ inbox' = inbox /\ request' = <<>> /\ pc' = "idle" /\ open' \in {open, FALSE}
  <2>1. \A p \in Held : p.kind \notin Whole
    BY <1>1, <1>4 DEF Held, Terminated, Range
  <2>2. Held' = {}
    BY <1>4 DEF Held, Range
  <2>3. open /\ patient => Unanswered = {}
    BY <2>1 DEF PatientInv
  <2>4. Unanswered' = Unanswered
    BY <1>1 DEF Unanswered, Answered, CutOff
  <2>5. pc' # "read" /\ ~Busy'
    BY <1>4 DEF Busy
  <2>6. patient => Simple'
    BY <1>1 DEF PatientInv, Simple
  <2>7. open' => open
    BY <1>4
  <2>8. \A k \in DOMAIN inbox' : k = 1
    BY <1>4
  <2> QED
    BY <1>1, <2>2, <2>3, <2>4, <2>5, <2>6, <2>7, <2>8 DEF PatientInv
<1>5. CASE inbox = <<>> /\ pc' = "answer" /\ UNCHANGED <<request, inbox, open>>
  BY <1>1, <1>5, PatientKept DEF Busy
<1> QED
  BY <1>3, <1>4, <1>5 DEF Read

(* An answer is for the one request that has none.                         *)
LEMMA PatientAnswer == ASSUME ExchangeInv, PatientInv, Answer PROVE PatientInv'
<1>1. /\ UNCHANGED <<tls, patient, script, inbox, request, asked, open, out>>
  BY DEF Answer, client, conn
<1>2. \E due, how, w : Begin(Parsed(request), due, how, w)
  BY DEF Answer
<1>3. pc' = "head" /\ resp'.kind = Parsed(request)
  BY <1>2 DEF Begin
<1>4. Parsed(request') = Parsed(request)
  BY <1>1
<1> QED
  BY <1>1, <1>3, <1>4 DEF PatientInv, Simple, Held, Unanswered, Answered, CutOff

(* The header of an answer was sent, or it was not for want of room.       *)
Noted(r) == r.head \/ "full" \in r.why

(* A handler that keeps the connection has answered a whole request, the   *)
(* only one there was.                                                     *)
LEMMA PatientReturned ==
    ASSUME ExchangeInv, PatientInv, Busy, UNCHANGED <<client, inbox>>,
           NEW r \in Answers, NEW kept \in BOOLEAN, Return(r, kept),
           r.to = resp.to, kept => KeepAlive(resp.kind) /\ Noted(r)
    PROVE  PatientInv'
<1> DEFINE given == [r EXCEPT !.why = IF fin THEN @ \cup {"gone"} ELSE @]
<1>1. /\ pc' = "idle" /\ open' = kept /\ out' = Append(out, given) /\ request' = <<>>
      /\ UNCHANGED <<tls, patient, script, asked, inbox>>
  BY DEF Return, client
<1>2. given \in Answers /\ given.to = resp.to /\ (kept => Noted(given))
  BY DEF Answers, Noted
<1> HIDE DEF given
<1>3. /\ out \in Seq(Answers) /\ request \in Seq(Pieces) /\ request # <<>>
      /\ resp.to = request[1].id /\ Past(request)
  BY DEF ExchangeInv, Streams, Places, Underway, Ordered
<1>4. Range(out') = Range(out) \cup {given}
  BY <1>1, <1>2, <1>3, RangeAppended
<1>5. /\ Unanswered' \subseteq Unanswered
      /\ kept => Unanswered' = Unanswered \ {resp.to}
  BY <1>1, <1>2, <1>4 DEF Unanswered, Answered, CutOff, Noted
<1>6. Held' \subseteq Held
  BY <1>1 DEF Held, Range
<1>7. ASSUME patient, kept PROVE Unanswered' = {}
  <2>1. 1 \in DOMAIN request /\ request[1] \in Held
    BY <1>3, Elements DEF Held, Range
  <2>2. request[1].kind # "start" /\ (request[1].kind \in Whole => request[1].id \in asked)
    BY <1>7, <2>1 DEF PatientInv
  <2>3. KeepAlive(request[1].kind)
    BY <1>7, <2>2 DEF PatientInv, Parsed
  <2>4. request[1].id \in asked
    BY <2>2, <2>3 DEF KeepAlive, Whole
  <2>5. \A a \in DOMAIN out : out[a].to < request[1].id /\ out[a].to \in Nat /\ request[1].id \in Nat
    BY <1>3, <2>1, Numbers DEF Past
  <2>6. \A a \in Range(out) : a.to # request[1].id
    BY <2>5 DEF Range
  <2>7. resp.to \in Unanswered
    BY <1>3, <2>4, <2>6 DEF Unanswered, Answered, CutOff
  <2> QED
    BY <1>5, <1>7, <2>7 DEF PatientInv
<1> QED
  BY <1>1, <1>5, <1>6, <1>7 DEF PatientInv, Simple, Busy

(* What the writing of an answer comes to.                                 *)
LEMMA Outcome ==
    ASSUME ExchangeInv, WriteHeader \/ WriteText \/ OpenFile \/ SendFile \/ SendMapped
    PROVE  /\ Busy /\ UNCHANGED <<client, inbox>>
           /\ \/ \E r \in Answers, kept \in BOOLEAN :
                    /\ r.to = resp.to /\ (kept => KeepAlive(resp.kind) /\ Noted(r))
                    /\ Return(r, kept)
              \/ /\ UNCHANGED <<request, out>> /\ pc' # "read" /\ (open' => open)
                 /\ Busy' => resp'.kind = resp.kind
<1>1. Busy /\ UNCHANGED <<client, inbox>>
  BY DEF Busy, WriteHeader, WriteText, OpenFile, SendFile, SendMapped
<1>2. resp \in Answers /\ \A kind : KeepAlive(kind) \in BOOLEAN
  BY <1>1 DEF ExchangeInv, Scalars, KeepAlive
<1> DEFINE Like(r) ==
        /\ r \in Answers /\ r.to = resp.to /\ r.kind = resp.kind
        /\ pc # "head" => Noted(r)
<1>3. \A o \in Outcomes : Write(o) =>
        /\ Like(resp) => Like(Delayed(resp, o))
        /\ o \notin {"sent", "failed"} => "full" \in Delayed(resp, o).why
        /\ Delayed(resp, o) \in Answers
  BY <1>2, DelayedIs DEF Noted
<1>4. \A r : Like(r) =>
        /\ \A b \in BOOLEAN : pc = "head" => Like([r EXCEPT !.head = b])
        /\ \A n \in Nat : Like([r EXCEPT !.sent = n])
        /\ Like([r EXCEPT !.why = @ \cup {"full"}])
        /\ \A n \in Nat : Like([r EXCEPT !.sent = n, !.why = @ \cup {"full"}])
  BY DEF Answers, Noted
<1>5. Like(resp) /\ resp.sent \in Nat /\ room \in Nat /\ mapped \in Nat
  <2>1. pc # "head" => Noted(resp)
    BY <1>1 DEF ExchangeInv, Underway, Busy, Noted
  <2> QED
    BY <1>2, <2>1, Numbers, Constants DEF ExchangeInv, Scalars
<1> HIDE DEF Like
<1>6. ASSUME NEW r, Like(r), NEW kept, Return(r, kept),
             \/ kept = FALSE
             \/ /\ pc = "head" => Noted(r)
                /\ kept = KeepAlive(resp.kind) \/ kept = KeepAlive(r.kind)
      PROVE  \E s \in Answers, k \in BOOLEAN :
                s.to = resp.to /\ (k => KeepAlive(resp.kind) /\ Noted(s)) /\ Return(s, k)
  BY <1>2, <1>6 DEF Like
<1>7. CASE WriteHeader
  <2>1. PICK o \in Outcomes :
          /\ Write(o)
          /\ LET r == [Delayed(resp, o) EXCEPT !.head = (o = "sent")] IN
             IF o = "failed" THEN Return(r, FALSE)
             ELSE IF body = "none" THEN Return(r, KeepAlive(r.kind))
             ELSE /\ resp' = r
                  /\ pc' = IF body = "file" THEN "open" ELSE "text"
                  /\ UNCHANGED <<request, body, mapped, fsz, linked, open, out>>
    BY <1>7 DEF WriteHeader
  <2> DEFINE r == [Delayed(resp, o) EXCEPT !.head = (o = "sent")]
  <2>2. Like(r) /\ (o # "failed" => Noted(r))
    <3>1. pc = "head"
      BY <1>7 DEF WriteHeader
    <3>2. Like(r)
      BY <1>3, <1>4, <1>5, <2>1, <3>1
    <3>3. r.head = (o = "sent") /\ r.why = Delayed(resp, o).why
      BY <1>3, <2>1 DEF Answers
    <3> QED
      BY <1>3, <2>1, <3>2, <3>3 DEF Noted
  <2>3. Return(r, FALSE) \/ (o # "failed" /\ Return(r, KeepAlive(r.kind)))
        \/ (resp' = r /\ UNCHANGED <<request, open, out>> /\ pc' # "read")
    BY <2>1
  <2> HIDE DEF r
  <2>4. CASE Return(r, FALSE) \/ (o # "failed" /\ Return(r, KeepAlive(r.kind)))
    BY <1>1, <1>6, <2>2, <2>4
  <2>5. CASE resp' = r /\ UNCHANGED <<request, open, out>> /\ pc' # "read"
    BY <1>1, <2>2, <2>5 DEF Like
  <2> QED
    BY <2>3, <2>4, <2>5
<1>8. CASE WriteText
  <2>1. PICK o \in Outcomes :
          /\ Write(o)
          /\ LET r == [Delayed(resp, o) EXCEPT !.sent = IF o = "sent" THEN 1 ELSE 0] IN
             \/ o # "failed" /\ Return(r, KeepAlive(r.kind))
             \/ o = "failed" /\ Return(r, FALSE)
             \/ o = "failed" /\ ~tls /\ Return(r, KeepAlive(r.kind))
    BY <1>8 DEF WriteText
  <2> DEFINE r == [Delayed(resp, o) EXCEPT !.sent = IF o = "sent" THEN 1 ELSE 0]
  <2>2. Like(r) /\ pc # "head"
    BY <1>3, <1>4, <1>5, <1>8, <2>1 DEF WriteText
  <2>3. Return(r, FALSE) \/ Return(r, KeepAlive(r.kind))
    BY <2>1
  <2> HIDE DEF r
  <2> QED
    BY <1>1, <1>6, <2>2, <2>3
<1>9. CASE OpenFile
  BY <1>1, <1>5, <1>6, <1>9 DEF OpenFile
<1>10. CASE SendFile
  <2>1. \/ \E k \in 1 .. room :
            LET r == [resp EXCEPT !.sent = @ + k] IN
            IF r.sent = r.due THEN Return(r, KeepAlive(r.kind))
            ELSE resp' = r /\ UNCHANGED <<pc, request, body, mapped, fsz, linked, open, out>>
        \/ Return([resp EXCEPT !.why = @ \cup {"full"}], KeepAlive(resp.kind))
        \/ Return(resp, KeepAlive(resp.kind))
    BY <1>10 DEF SendFile
  <2>4. pc = "file"
    BY <1>10 DEF SendFile
  <2>2. ASSUME NEW k \in 1 .. room,
               LET r == [resp EXCEPT !.sent = @ + k] IN
               IF r.sent = r.due THEN Return(r, KeepAlive(r.kind))
               ELSE resp' = r /\ UNCHANGED <<pc, request, body, mapped, fsz, linked, open, out>>
        PROVE  \/ \E s \in Answers, l \in BOOLEAN :
                    s.to = resp.to /\ (l => KeepAlive(resp.kind) /\ Noted(s)) /\ Return(s, l)
               \/ UNCHANGED <<pc, request, open, out>> /\ resp'.kind = resp.kind
    <3> DEFINE r == [resp EXCEPT !.sent = resp.sent + k]
    <3>1. resp.sent + k \in Nat
      BY <1>5
    <3>2. Like(r)
      BY <1>4, <1>5, <3>1
    <3>3. Return(r, KeepAlive(r.kind)) \/ (resp' = r /\ UNCHANGED <<pc, request, open, out>>)
      BY <2>2
    <3> HIDE DEF r
    <3>4. CASE Return(r, KeepAlive(r.kind))
      BY <1>6, <2>4, <3>2, <3>4
    <3>5. CASE resp' = r /\ UNCHANGED <<pc, request, open, out>>
      BY <3>2, <3>5 DEF Like
    <3> QED
      BY <3>3, <3>4, <3>5
  <2>3. Like([resp EXCEPT !.why = @ \cup {"full"}])
    BY <1>4, <1>5
  <2>5. CASE \/ Return([resp EXCEPT !.why = @ \cup {"full"}], KeepAlive(resp.kind))
             \/ Return(resp, KeepAlive(resp.kind))
    BY <1>1, <1>5, <1>6, <2>3, <2>4, <2>5
  <2>6. CASE UNCHANGED <<pc, request, open, out>> /\ resp'.kind = resp.kind
    BY <1>1, <2>4, <2>6
  <2> QED
    BY <1>1, <2>1, <2>2, <2>5, <2>6
<1>11. CASE SendMapped
  <2>1. \/ Return([resp EXCEPT !.sent = mapped], KeepAlive(resp.kind))
        \/ Return([resp EXCEPT !.sent = room, !.why = @ \cup {"full"}], KeepAlive(resp.kind))
        \/ Write("failed") /\ Return(Delayed(resp, "failed"), KeepAlive(resp.kind))
        \/ pc' = "idle" /\ open' = FALSE /\ UNCHANGED <<out, request, resp>>
    BY <1>11 DEF SendMapped, Write
  <2>2. /\ Like([resp EXCEPT !.sent = mapped])
        /\ Like([resp EXCEPT !.sent = room, !.why = @ \cup {"full"}])
        /\ Write("failed") => Like(Delayed(resp, "failed"))
        /\ pc # "head"
    BY <1>3, <1>4, <1>5, <1>11 DEF Outcomes, SendMapped
  <2> QED
    BY <1>1, <1>6, <2>1, <2>2
<1> QED
  BY <1>7, <1>8, <1>9, <1>10, <1>11

(* Every step keeps what is said of patient clients.                       *)
LEMMA PatientInvStep == ExchangeInv /\ PatientInv /\ [Next]_vars => PatientInv'
<1> SUFFICES ASSUME ExchangeInv, PatientInv, [Next]_vars PROVE PatientInv'
  OBVIOUS
<1>1. CASE UNCHANGED vars
  BY <1>1, PatientKept DEF vars, client, conn, locals, Busy
<1>2. CASE WriteHeader \/ WriteText \/ OpenFile \/ SendFile \/ SendMapped
  BY <1>2, Outcome, PatientReturned, PatientKept DEF client
<1>3. CASE Leave \/ Drain
  BY <1>3, PatientKept DEF Leave, Drain, client, conn, locals, Busy
<1>4. ASSUME NEW n, Overwrite(n) \/ Replace(n) PROVE PatientInv'
  <2>1. UNCHANGED <<tls, patient, script, inbox, request, asked, out, open, pc>>
    BY <1>4 DEF Overwrite, Replace, client, conn
  <2>2. Busy => resp'.kind = resp.kind
    <3>1. resp' = resp \/ \E w : Excuse(w)
      BY <1>4 DEF Overwrite, Replace
    <3>2. Busy => resp \in Answers
      BY DEF ExchangeInv, Scalars
    <3> QED
      BY <3>1, <3>2 DEF Excuse, Answers
  <2> QED
    BY <2>1, <2>2, PatientKept DEF Busy
<1> QED
  BY <1>1, <1>2, <1>3, <1>4, PatientSend, PatientDispatch, PatientRead, PatientAnswer
     DEF Next, Handler, Outside

-----------------------------------------------------------------------------
(* The theorems.                                                           *)

LEMMA ExchangeInvStep == ExchangeInv /\ [Next]_vars => ExchangeInv'
<1> SUFFICES ASSUME ExchangeInv, [Next]_vars PROVE ExchangeInv'
  OBVIOUS
<1>1. CASE UNCHANGED vars
  <2>1. /\ Streams /\ Scalars /\ Disk
        /\ Places /\ Underway /\ Sending /\ Ordered /\ Given /\ CrashOnlyIfShrunk
        /\ UNCHANGED <<client, file, cached, conn, locals>>
    BY <1>1 DEF ExchangeInv, vars
  <2>2. Scalars' /\ Places'
    BY <2>1 DEF Scalars, Places, Busy, client, file, conn, locals
  <2> QED
    BY <2>1, <2>2, StreamsKept, DiskKept, AnswerKept DEF ExchangeInv, client, file, conn, locals
<1>2. CASE Handler
  BY <1>2, DispatchKeeps, ReadKeeps, AnswerKeeps, WriteHeaderKeeps, WriteTextKeeps,
     OpenFileKeeps, SendFileKeeps, SendMappedKeeps DEF Handler
<1>3. CASE Outside
  BY <1>3, SendKeeps, ClientKeeps, OverwriteKeeps, ReplaceKeeps DEF Outside
<1> QED
  BY <1>1, <1>2, <1>3 DEF Next

(* The inductive invariant holds throughout.                               *)
LEMMA ExchangeInvAlways == Spec => []ExchangeInv
<1>1. Init => ExchangeInv
  BY InvInit
<1>2. ExchangeInv /\ [Next]_vars => ExchangeInv'
  BY ExchangeInvStep
<1> QED
  BY <1>1, <1>2, PTL DEF Spec

(* The variables keep their types: what is mapped of a file is never empty,*)
(* and only TLS leaves a record pending (https.hpp:56-66).                 *)
THEOREM TypeCorrect == Spec => []TypeOK
<1>1. ExchangeInv => TypeOK
  BY DEF ExchangeInv, Streams, Scalars, Disk, Sending, Busy, TypeOK
<1> QED
  BY <1>1, ExchangeInvAlways, PTL

(* Answers are in the order of their requests, one for each at most,       *)
(* however the requests are cut and joined (http.hpp:115).                 *)
THEOREM AnswersOrdered == Spec => []AnswersInOrder
<1>1. ExchangeInv => AnswersInOrder
  BY DEF ExchangeInv, Ordered
<1> QED
  BY <1>1, ExchangeInvAlways, PTL

(* Without one of the excuses an answer to a GET is whole: no interleaving *)
(* of the client and of the file system cuts it (http.hpp:22, :63, :76).   *)
THEOREM AnswersWhole == Spec => []WholeUnlessExcused
<1>1. ExchangeInv => WholeUnlessExcused
  <2> SUFFICES ASSUME ExchangeInv, NEW i \in DOMAIN out,
                      out[i].kind \in {"get", "close", "bad"} /\ out[i].why = {}
               PROVE  out[i].head /\ out[i].sent = out[i].due
    BY DEF WholeUnlessExcused, Range
  <2> QED
    BY DEF ExchangeInv, Given, Good
<1> QED
  BY <1>1, ExchangeInvAlways, PTL

(* No more is sent than was announced, but for a file that grew before it  *)
(* was mapped (http.hpp:58, https.hpp:56).                                 *)
THEOREM NoneTooLong == Spec => []NeverTooMuch
<1>1. ExchangeInv => NeverTooMuch
  BY Elements DEF ExchangeInv, Streams, Given, Good, NeverTooMuch, Range
<1> QED
  BY <1>1, ExchangeInvAlways, PTL

(* Only a file that is shortened in place while it is mapped can end the   *)
(* process (https.hpp:58-62).                                              *)
THEOREM CrashNeedsShrink == Spec => []CrashOnlyIfShrunk
<1>1. ExchangeInv => CrashOnlyIfShrunk
  BY DEF ExchangeInv
<1> QED
  BY <1>1, ExchangeInvAlways, PTL

(* A client that waits for each answer is left without none: between events*)
(* on an open connection each request that came in one piece has its       *)
(* answer, and the next is not read away with it (http.hpp:115, :121).     *)
THEOREM EachAnswered == Spec => []AllAnswered
<1>1. Init => PatientInv
  <2> SUFFICES ASSUME Init PROVE PatientInv
    OBVIOUS
  <2>1. patient => Simple
    <3>1. ASSUME patient, NEW k \in DOMAIN script
          PROVE  script[k][1] # "start" /\ \A j \in DOMAIN script[k] \ {1} : script[k][j] = "body"
      <4>1. script[k] \in Range(script)
        BY DEF Range
      <4> QED
        BY <3>1, <4>1 DEF Init
    <3> QED
      BY <3>1 DEF Simple
  <2> QED
    BY <2>1 DEF Init, PatientInv, Busy, Held, Unanswered, Answered, CutOff, Range
<1>2. ExchangeInv /\ PatientInv => AllAnswered
  <2> SUFFICES ASSUME ExchangeInv, PatientInv, patient, open, pc = "idle", inbox = <<>>
               PROVE  Unanswered = {}
    BY DEF AllAnswered, Unanswered, Answered, CutOff
  <2>1. request = <<>>
    BY DEF ExchangeInv, Places
  <2>2. Held = {}
    BY <2>1 DEF Held, Range
  <2> QED
    BY <2>2 DEF PatientInv
<1> QED
  BY <1>1, <1>2, PatientInvStep, ExchangeInvAlways, PTL DEF Spec
=============================================================================
