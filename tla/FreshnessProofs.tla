----------------------------- MODULE FreshnessProofs -----------------------------
(***************************************************************************)
(* What is kept about stale documents, for any files and texts: unsaved    *)
(* text is never answered about, and what the startup generation says of a *)
(* file is about the text that the user sees.                              *)
(***************************************************************************)
EXTENDS DocumentFreshness, TLAPS

First(i) == \A j \in DOMAIN channel : j < i => channel[j].file # channel[i].file

Latest(i) == \A j \in DOMAIN channel : j > i => channel[j].file # channel[i].file

(* Notice i is the next one after notice j about the same file. *)
Follows(j, i) ==
  /\ j < i
  /\ channel[j].file = channel[i].file
  /\ \A k \in DOMAIN channel : j < k /\ k < i => channel[k].file # channel[i].file

(* The channel ends with what the buffers hold. *)
LastWord ==
  /\ \A f \in Files : Heard(f) \/ \E i \in DOMAIN channel : channel[i].file = f /\ Latest(i)
  /\ \A f \in Files : Heard(f) => documents[f] = buffers[f]
  /\ \A i \in DOMAIN channel : Latest(i) => channel[i].text = buffers[channel[i].file]

(* A change is a change: of a file that is open by then, to another text. *)
ChangesDiffer ==
  /\ \A i \in DOMAIN channel : channel[i].kind = "close" <=> channel[i].text = None
  /\ \A i \in DOMAIN channel : channel[i].kind = "change" =>
       /\ First(i) => documents[channel[i].file] \notin {None, channel[i].text}
       /\ \A j \in DOMAIN channel : Follows(j, i) => channel[j].text \notin {None, channel[i].text}

(* No generation is served before the startup worker is done. *)
StartupFirst == worker # None /\ worker.kind = "startup" => index = None

(* The file is marked, or a notice on its way will mark it. *)
Edited(f) ==
  \/ f \in stale_documents
  \/ \E i \in DOMAIN channel :
       /\ channel[i].file = f
       /\ \/ channel[i].kind = "change"
          \/ channel[i].kind = "open" /\ channel[i].text # disk[f]

(* Every text of the file there is anywhere is the one on disk. *)
Untouched(f) ==
  /\ shards[f] = disk[f]
  /\ buffers[f] \in {None, disk[f]}
  /\ documents[f] \in {None, disk[f]}
  /\ \A i \in DOMAIN channel : channel[i].file = f => channel[i].text \in {None, disk[f]}
  /\ worker # None /\ worker.read # None => worker.read[f] = disk[f]
  /\ index # None => index.read[f] = disk[f]

(* Until another generation than startup's is served, a file with any text   *)
(* but its source's is marked or will be, unless nothing could tell.         *)
EditsAreNoted ==
  index = None \/ index.kind = "startup" =>
    \A f \in Files \ unnoticed : Edited(f) \/ Untouched(f)

Channelled == LastWord /\ ChangesDiffer

FreshInv ==
  /\ TypeOK
  /\ Channelled
  /\ StartupFirst
  /\ EditsAreNoted
  /\ UnsavedIsStale

-----------------------------------------------------------------------------
(* The channel. *)

LEMMA Sent ==
  ASSUME TypeOK, NEW f \in Files, NEW kind \in {"open", "change", "close"}, NEW text \in Text,
         Send(kind, f, text)
  PROVE  /\ channel' \in Seq(Notice)
         /\ Len(channel) \in Nat
         /\ DOMAIN channel = 1 .. Len(channel)
         /\ DOMAIN channel' = 1 .. Len(channel) + 1
         /\ \A i \in 1 .. Len(channel) : channel'[i] = channel[i]
         /\ channel'[Len(channel) + 1] = [kind |-> kind, file |-> f, text |-> text]
<1> DEFINE notice == [kind |-> kind, file |-> f, text |-> text]
<1>1. notice \in Notice /\ channel \in Seq(Notice)
  BY DEF TypeOK, Notice
<1>2. channel' = Append(channel, notice)
  BY DEF Send
<1> HIDE DEF notice
<1>3. /\ channel' \in Seq(Notice)
      /\ Len(channel) \in Nat
      /\ DOMAIN channel = 1 .. Len(channel)
      /\ DOMAIN channel' = 1 .. Len(channel) + 1
      /\ \A i \in 1 .. Len(channel) : channel'[i] = channel[i]
      /\ channel'[Len(channel) + 1] = notice
  BY <1>1, <1>2
<1> QED BY <1>3 DEF notice

LEMMA Received ==
  ASSUME TypeOK, NEW f \in Files, NEW kind, Receive(kind, f)
  PROVE  /\ channel' \in Seq(Notice)
         /\ Len(channel) \in Nat \ {0}
         /\ DOMAIN channel = 1 .. Len(channel)
         /\ DOMAIN channel' = 1 .. Len(channel) - 1
         /\ \A i \in 1 .. Len(channel) - 1 : channel'[i] = channel[i + 1]
         /\ channel[1] \in Notice
         /\ channel[1].kind = kind /\ channel[1].file = f
<1>1. /\ channel \in Seq(Notice) /\ channel # <<>> /\ channel' = Tail(channel)
      /\ channel[1].kind = kind /\ channel[1].file = f
  BY DEF Receive, TypeOK
<1> QED BY <1>1

LEMMA SentHeard ==
  ASSUME TypeOK, NEW f \in Files, NEW kind \in {"open", "change", "close"}, NEW text \in Text,
         Send(kind, f, text)
  PROVE  ~Heard(f)' /\ \A g \in Files \ {f} : Heard(g)' <=> Heard(g)
<1>1. /\ Len(channel) \in Nat
      /\ DOMAIN channel = 1 .. Len(channel)
      /\ DOMAIN channel' = 1 .. Len(channel) + 1
      /\ \A i \in 1 .. Len(channel) : channel'[i] = channel[i]
      /\ channel'[Len(channel) + 1].file = f
  <2>1. channel'[Len(channel) + 1] = [kind |-> kind, file |-> f, text |-> text]
    BY Sent
  <2>2. channel'[Len(channel) + 1].file = f
    BY <2>1
  <2> QED BY <2>2, Sent
<1>2. ~Heard(f)'
  <2>1. Len(channel) + 1 \in DOMAIN channel'
    BY <1>1
  <2> QED BY <2>1, <1>1 DEF Heard
<1>3. ASSUME NEW g \in Files \ {f} PROVE Heard(g)' <=> Heard(g)
  <2>1. ASSUME NEW i \in DOMAIN channel
        PROVE  i \in DOMAIN channel' /\ channel'[i] = channel[i]
    BY <1>1
  <2>2. ASSUME NEW i \in DOMAIN channel', channel'[i].file = g
        PROVE  i \in DOMAIN channel /\ channel'[i] = channel[i]
    BY <1>1, <2>2
  <2> QED BY <2>1, <2>2 DEF Heard
<1> QED BY <1>2, <1>3

LEMMA ReceivedHeard ==
  ASSUME TypeOK, NEW f \in Files, NEW kind, Receive(kind, f)
  PROVE  /\ \A g \in Files \ {f} : Heard(g)' <=> Heard(g)
         /\ Heard(f)' <=> Latest(1)
         /\ First(1)
<1>1. /\ Len(channel) \in Nat \ {0}
      /\ DOMAIN channel = 1 .. Len(channel)
      /\ DOMAIN channel' = 1 .. Len(channel) - 1
      /\ \A i \in 1 .. Len(channel) - 1 : channel'[i] = channel[i + 1]
      /\ channel[1].file = f
  BY Received
<1>2. ASSUME NEW i \in DOMAIN channel, i # 1
      PROVE  i - 1 \in DOMAIN channel' /\ channel'[i - 1] = channel[i] /\ i > 1
  BY <1>1, <1>2
<1>3. ASSUME NEW i \in DOMAIN channel'
      PROVE  i + 1 \in DOMAIN channel /\ channel'[i] = channel[i + 1] /\ i + 1 > 1
  BY <1>1
<1>4. ASSUME NEW g \in Files \ {f} PROVE Heard(g)' <=> Heard(g)
  <2>1. ASSUME Heard(g) PROVE Heard(g)'
    BY <2>1, <1>3 DEF Heard
  <2>2. ASSUME Heard(g)', NEW i \in DOMAIN channel PROVE channel[i].file # g
    <3>1. CASE i = 1
      BY <3>1, <1>1, <1>4
    <3>2. CASE i # 1
      BY <3>2, <2>2, <1>2 DEF Heard
    <3> QED BY <3>1, <3>2
  <2> QED BY <2>1, <2>2 DEF Heard
<1>5. ASSUME Heard(f)', NEW j \in DOMAIN channel, j > 1 PROVE channel[j].file # channel[1].file
  <2>1. j # 1
    BY <1>1, <1>5
  <2> QED BY <2>1, <1>5, <1>2, <1>1 DEF Heard
<1>6. ASSUME Latest(1), NEW i \in DOMAIN channel' PROVE channel'[i].file # f
  BY <1>6, <1>3, <1>1 DEF Latest
<1>7. ASSUME NEW j \in DOMAIN channel, j < 1 PROVE FALSE
  BY <1>1, <1>7
<1> QED BY <1>4, <1>5, <1>6, <1>7 DEF Heard, Latest, First

(* A notice of what the buffer now holds. *)
LEMMA SendStep ==
  ASSUME TypeOK, Channelled, NEW f \in Files, NEW kind \in {"open", "change", "close"},
         NEW text \in Text, Send(kind, f, text),
         buffers' = [buffers EXCEPT ![f] = text], documents' = documents,
         kind = "close" <=> text = None,
         kind = "change" => buffers[f] \notin {None, text}
  PROVE  Channelled'
<1> DEFINE n == Len(channel)
<1>1. /\ n \in Nat
      /\ DOMAIN channel = 1 .. n
      /\ DOMAIN channel' = 1 .. n + 1
      /\ \A i \in 1 .. n : channel'[i] = channel[i]
      /\ channel'[n + 1] = [kind |-> kind, file |-> f, text |-> text]
  BY Sent
<1>2. \A i \in 1 .. n : channel[i] \in Notice
  BY <1>1 DEF TypeOK
<1>3. buffers'[f] = text /\ \A g \in Files \ {f} : buffers'[g] = buffers[g]
  BY DEF TypeOK
<1> HIDE DEF n
<1>4. ASSUME NEW g \in Files, Heard(g)' PROVE documents'[g] = buffers'[g]
  <2>1. g # f /\ Heard(g)
    BY <1>4, SentHeard
  <2> QED BY <2>1, <1>3 DEF Channelled, LastWord
<1>5. ASSUME NEW i \in DOMAIN channel', Latest(i)'
      PROVE  channel'[i].text = buffers'[channel'[i].file]
  <2>1. CASE i = n + 1
    BY <2>1, <1>1, <1>3
  <2>2. CASE i # n + 1
    <3>1. i \in 1 .. n /\ n + 1 > i /\ n + 1 \in DOMAIN channel'
      BY <2>2, <1>1
    <3>2. channel'[i] = channel[i] /\ channel[i].file # f /\ channel[i].file \in Files
      BY <3>1, <1>1, <1>2, <1>5 DEF Latest, Notice
    <3>3. ASSUME NEW j \in DOMAIN channel, j > i PROVE channel[j].file # channel[i].file
      <4>1. j \in DOMAIN channel' /\ channel'[j] = channel[j]
        BY <1>1
      <4> QED BY <4>1, <3>3, <3>2, <1>5 DEF Latest
    <3>4. channel[i].text = buffers[channel[i].file]
      BY <3>3, <3>1, <1>1 DEF Latest, Channelled, LastWord
    <3> QED BY <3>4, <3>2, <1>3
  <2> QED BY <2>1, <2>2
<1>6. ASSUME NEW i \in DOMAIN channel' PROVE channel'[i].kind = "close" <=> channel'[i].text = None
  <2>1. CASE i = n + 1
    BY <2>1, <1>1
  <2>2. CASE i # n + 1
    BY <2>2, <1>1 DEF Channelled, ChangesDiffer
  <2> QED BY <2>1, <2>2
<1>7. ASSUME NEW i \in DOMAIN channel', channel'[i].kind = "change", First(i)'
      PROVE  documents'[channel'[i].file] \notin {None, channel'[i].text}
  <2>1. CASE i = n + 1
    <3>1. ASSUME NEW j \in DOMAIN channel PROVE channel[j].file # f
      <4>1. j \in DOMAIN channel' /\ j < i /\ channel'[j] = channel[j]
        BY <2>1, <1>1
      <4> QED BY <4>1, <2>1, <1>1, <1>7 DEF First
    <3>2. documents[f] = buffers[f]
      BY <3>1 DEF Heard, Channelled, LastWord
    <3> QED BY <3>2, <2>1, <1>1, <1>7
  <2>2. CASE i # n + 1
    <3>1. i \in DOMAIN channel /\ channel'[i] = channel[i]
      BY <2>2, <1>1
    <3>2. First(i)
      <4>1. ASSUME NEW j \in DOMAIN channel PROVE j \in DOMAIN channel' /\ channel'[j] = channel[j]
        BY <1>1
      <4> QED BY <4>1, <3>1, <1>7 DEF First
    <3> QED BY <3>1, <3>2, <1>7 DEF Channelled, ChangesDiffer
  <2> QED BY <2>1, <2>2
<1>8. ASSUME NEW i \in DOMAIN channel', NEW j \in DOMAIN channel',
             channel'[i].kind = "change", Follows(j, i)'
      PROVE  channel'[j].text \notin {None, channel'[i].text}
  <2>1. j < i /\ j \in DOMAIN channel /\ channel'[j] = channel[j]
    BY <1>1, <1>8 DEF Follows
  <2>2. CASE i = n + 1
    <3>1. channel[j].file = f
      BY <2>1, <2>2, <1>1, <1>8 DEF Follows
    <3>2. ASSUME NEW k \in DOMAIN channel, k > j PROVE channel[k].file # channel[j].file
      <4>1. k \in DOMAIN channel' /\ j < k /\ k < i /\ channel'[k] = channel[k]
        BY <3>2, <2>1, <2>2, <1>1
      <4> QED BY <4>1, <3>1, <2>2, <1>1, <1>8 DEF Follows
    <3>3. channel[j].text = buffers[f]
      BY <3>1, <3>2, <2>1 DEF Latest, Channelled, LastWord
    <3> QED BY <3>3, <2>1, <2>2, <1>1, <1>8
  <2>3. CASE i # n + 1
    <3>1. i \in DOMAIN channel /\ channel'[i] = channel[i]
      BY <2>3, <1>1
    <3>2. Follows(j, i)
      <4>1. ASSUME NEW k \in DOMAIN channel PROVE k \in DOMAIN channel' /\ channel'[k] = channel[k]
        BY <1>1
      <4> QED BY <4>1, <3>1, <2>1, <1>8 DEF Follows
    <3> QED BY <3>1, <3>2, <2>1, <1>8 DEF Channelled, ChangesDiffer
  <2> QED BY <2>2, <2>3
<1>9. ASSUME NEW g \in Files
      PROVE  Heard(g)' \/ \E i \in DOMAIN channel' : channel'[i].file = g /\ Latest(i)'
  <2>1. CASE g = f
    <3>1. ASSUME NEW j \in DOMAIN channel', j > n + 1 PROVE FALSE
      BY <3>1, <1>1
    <3>2. n + 1 \in DOMAIN channel' /\ channel'[n + 1].file = f
      BY <1>1
    <3> QED BY <2>1, <3>1, <3>2 DEF Latest
  <2>2. CASE g # f /\ Heard(g)
    BY <2>2, SentHeard
  <2>3. ASSUME g # f, NEW i \in DOMAIN channel, channel[i].file = g, Latest(i) PROVE Latest(i)'
    <3>1. ASSUME NEW j \in DOMAIN channel', j > i PROVE channel'[j].file # channel'[i].file
      <4>1. CASE j = n + 1
        BY <4>1, <2>3, <1>1
      <4>2. CASE j # n + 1
        BY <4>2, <3>1, <2>3, <1>1 DEF Latest
      <4> QED BY <4>1, <4>2
    <3> QED BY <3>1 DEF Latest
  <2>4. \A i \in DOMAIN channel : i \in DOMAIN channel' /\ channel'[i] = channel[i]
    BY <1>1
  <2> QED BY <2>1, <2>2, <2>3, <2>4 DEF Channelled, LastWord
<1> QED BY <1>4, <1>5, <1>6, <1>7, <1>8, <1>9 DEF Channelled, LastWord, ChangesDiffer

(* The first notice becomes the document. *)
LEMMA HandleStep ==
  ASSUME TypeOK, Channelled, NEW f \in Files, NEW kind, Receive(kind, f),
         buffers' = buffers, documents' = [documents EXCEPT ![f] = channel[1].text]
  PROVE  Channelled'
<1>1. /\ Len(channel) \in Nat \ {0}
      /\ DOMAIN channel = 1 .. Len(channel)
      /\ DOMAIN channel' = 1 .. Len(channel) - 1
      /\ \A i \in 1 .. Len(channel) - 1 : channel'[i] = channel[i + 1]
      /\ channel[1].file = f
  BY Received
<1>2. ASSUME NEW i \in DOMAIN channel'
      PROVE  i \in Nat /\ i + 1 \in DOMAIN channel /\ channel'[i] = channel[i + 1] /\ i + 1 > 1
  <2>1. i \in Nat /\ 1 <= i /\ i <= Len(channel) - 1
    BY <1>1
  <2> QED BY <2>1, <1>1
<1>3. ASSUME NEW i \in DOMAIN channel, i # 1
      PROVE  i - 1 \in DOMAIN channel' /\ channel'[i - 1] = channel[i] /\ i \in Nat /\ i > 1
  BY <1>1, <1>3
<1>4. documents'[f] = channel[1].text /\ \A g \in Files \ {f} : documents'[g] = documents[g]
  BY DEF TypeOK
<1>5. 1 \in DOMAIN channel /\ \A i \in DOMAIN channel : channel[i].file \in Files
  <2>1. \A i \in DOMAIN channel : channel[i] \in Notice
    BY <1>1 DEF TypeOK
  <2>2. \A notice \in Notice : notice.file \in Files
    BY DEF Notice
  <2> QED BY <2>1, <2>2, <1>1
<1>6. ASSUME NEW g \in Files, Heard(g)' PROVE documents'[g] = buffers'[g]
  <2>1. CASE g = f
    <3>1. channel[1].text = buffers[f]
      BY <2>1, <1>6, <1>5, <1>1, ReceivedHeard DEF Channelled, LastWord
    <3> QED BY <3>1, <2>1, <1>4
  <2>2. CASE g # f
    <3>1. Heard(g)
      BY <2>2, <1>6, ReceivedHeard
    <3> QED BY <3>1, <2>2, <1>4 DEF Channelled, LastWord
  <2> QED BY <2>1, <2>2
<1>7. ASSUME NEW i \in DOMAIN channel', Latest(i)'
      PROVE  channel'[i].text = buffers'[channel'[i].file]
  <2>1. ASSUME NEW j \in DOMAIN channel, j > i + 1 PROVE channel[j].file # channel[i + 1].file
    <3>1. j - 1 \in DOMAIN channel' /\ channel'[j - 1] = channel[j] /\ j - 1 > i
      BY <2>1, <1>2, <1>3
    <3> QED BY <3>1, <1>2, <1>7 DEF Latest
  <2>2. channel[i + 1].text = buffers[channel[i + 1].file]
    BY <2>1, <1>2 DEF Latest, Channelled, LastWord
  <2> QED BY <2>2, <1>2
<1>8. ASSUME NEW i \in DOMAIN channel' PROVE channel'[i].kind = "close" <=> channel'[i].text = None
  BY <1>2 DEF Channelled, ChangesDiffer
<1>9. ASSUME NEW i \in DOMAIN channel', channel'[i].kind = "change", First(i)'
      PROVE  documents'[channel'[i].file] \notin {None, channel'[i].text}
  <2>1. ASSUME NEW k \in DOMAIN channel, 1 < k, k < i + 1
        PROVE  channel[k].file # channel[i + 1].file
    <3>1. k - 1 \in DOMAIN channel' /\ channel'[k - 1] = channel[k] /\ k - 1 < i
      BY <2>1, <1>2, <1>3
    <3> QED BY <3>1, <1>2, <1>9 DEF First
  <2>2. CASE channel[i + 1].file = f
    <3>1. Follows(1, i + 1)
      BY <2>1, <2>2, <1>1, <1>2 DEF Follows
    <3>2. channel[1].text \notin {None, channel[i + 1].text}
      BY <3>1, <1>2, <1>5, <1>9 DEF Channelled, ChangesDiffer
    <3> QED BY <3>2, <2>2, <1>2, <1>4
  <2>3. CASE channel[i + 1].file # f
    <3>1. ASSUME NEW k \in DOMAIN channel, k < i + 1 PROVE channel[k].file # channel[i + 1].file
      <4>1. CASE k = 1
        BY <4>1, <2>3, <1>1
      <4>2. CASE k # 1
        BY <4>2, <3>1, <2>1, <1>3
      <4> QED BY <4>1, <4>2
    <3>2. documents[channel[i + 1].file] \notin {None, channel[i + 1].text}
      BY <3>1, <1>2, <1>9 DEF First, Channelled, ChangesDiffer
    <3> QED BY <3>2, <2>3, <1>2, <1>4, <1>5
  <2> QED BY <2>2, <2>3
<1>10. ASSUME NEW i \in DOMAIN channel', NEW j \in DOMAIN channel',
              channel'[i].kind = "change", Follows(j, i)'
       PROVE  channel'[j].text \notin {None, channel'[i].text}
  <2>1. ASSUME NEW k \in DOMAIN channel, j + 1 < k, k < i + 1
        PROVE  channel[k].file # channel[i + 1].file
    <3>1. k # 1
      BY <2>1, <1>1, <1>2
    <3>2. k - 1 \in DOMAIN channel' /\ channel'[k - 1] = channel[k] /\ j < k - 1 /\ k - 1 < i
      BY <3>1, <2>1, <1>2, <1>3
    <3> QED BY <3>2, <1>2, <1>10 DEF Follows
  <2>2. Follows(j + 1, i + 1)
    BY <2>1, <1>2, <1>10 DEF Follows
  <2> QED BY <2>2, <1>2, <1>10 DEF Channelled, ChangesDiffer
<1>11. ASSUME NEW g \in Files
       PROVE  Heard(g)' \/ \E i \in DOMAIN channel' : channel'[i].file = g /\ Latest(i)'
  <2>1. CASE Heard(g)
    <3>1. g # f
      BY <2>1, <1>1, <1>5 DEF Heard
    <3> QED BY <3>1, <2>1, ReceivedHeard
  <2>2. ASSUME NEW i \in DOMAIN channel, channel[i].file = g, Latest(i)
        PROVE  Heard(g)' \/ \E j \in DOMAIN channel' : channel'[j].file = g /\ Latest(j)'
    <3>1. CASE i = 1
      BY <3>1, <2>2, <1>1, ReceivedHeard
    <3>2. CASE i # 1
      <4>1. i - 1 \in DOMAIN channel' /\ channel'[i - 1] = channel[i]
        BY <3>2, <1>3
      <4>2. ASSUME NEW j \in DOMAIN channel', j > i - 1
            PROVE  channel'[j].file # channel'[i - 1].file
        <5>1. j + 1 > i /\ j + 1 \in DOMAIN channel /\ channel'[j] = channel[j + 1]
          BY <4>2, <1>2, <3>2, <1>3
        <5> QED BY <5>1, <4>1, <2>2 DEF Latest
      <4> QED BY <4>1, <4>2, <2>2 DEF Latest
    <3> QED BY <3>1, <3>2
  <2> QED BY <2>1, <2>2 DEF Channelled, LastWord
<1> QED BY <1>6, <1>7, <1>8, <1>9, <1>10, <1>11 DEF Channelled, LastWord, ChangesDiffer

-----------------------------------------------------------------------------
(* The editor's steps. *)

LEMMA OpensKeeps ==
  ASSUME FreshInv, NEW f \in Files, EditorOpens(f)
  PROVE  FreshInv'
<1> USE DEF FreshInv
<1>1. PICK text \in Texts :
        buffers' = [buffers EXCEPT ![f] = text] /\ Send("open", f, text)
  BY DEF EditorOpens
<1>2. text \in Text /\ text # None
  BY FreshnessAssumption DEF Text
<1>3. UNCHANGED <<disk, documents, vfs, stale_documents, shards, noticed, worker, index, unnoticed, overwritten>>
  BY DEF EditorOpens, server, builds, loads, history
<1>4. /\ channel' \in Seq(Notice)
      /\ Len(channel) \in Nat
      /\ DOMAIN channel = 1 .. Len(channel)
      /\ DOMAIN channel' = 1 .. Len(channel) + 1
      /\ \A i \in 1 .. Len(channel) : channel'[i] = channel[i]
      /\ channel'[Len(channel) + 1] = [kind |-> "open", file |-> f, text |-> text]
  BY <1>1, <1>2, Sent
<1>5. TypeOK'
  BY <1>1, <1>2, <1>3, <1>4 DEF TypeOK
<1>6. Channelled'
  BY <1>1, <1>2, <1>3, SendStep
<1>7. EditsAreNoted'
  <2> SUFFICES ASSUME index = None \/ index.kind = "startup", NEW g \in Files \ unnoticed
               PROVE  Edited(g)' \/ Untouched(g)'
    BY <1>3 DEF EditsAreNoted
  <2>1. Edited(g) => Edited(g)'
    BY <1>3, <1>4 DEF Edited
  <2>2. g = f /\ text # disk[f] => Edited(g)'
    <3>1. Len(channel) + 1 \in DOMAIN channel'
      BY <1>4
    <3> QED BY <3>1, <1>3, <1>4 DEF Edited
  <2>3. ASSUME g = f => text = disk[g], Untouched(g) PROVE Untouched(g)'
    <3>1. buffers'[g] \in {None, disk[g]}
      BY <2>3, <1>1 DEF Untouched, TypeOK
    <3>2. ASSUME NEW i \in DOMAIN channel', channel'[i].file = g
          PROVE  channel'[i].text \in {None, disk[g]}
      <4>1. CASE i = Len(channel) + 1
        BY <4>1, <3>2, <2>3, <1>4
      <4>2. CASE i # Len(channel) + 1
        BY <4>2, <3>2, <2>3, <1>4 DEF Untouched
      <4> QED BY <4>1, <4>2
    <3> QED BY <3>1, <3>2, <2>3, <1>3 DEF Untouched
  <2> QED BY <2>1, <2>2, <2>3, <1>3 DEF EditsAreNoted
<1>8. UnsavedIsStale'
  BY <1>1, <1>2, <1>3, SentHeard DEF UnsavedIsStale, Answers
<1> QED BY <1>3, <1>5, <1>6, <1>7, <1>8 DEF StartupFirst

LEMMA EditsKeeps ==
  ASSUME FreshInv, NEW f \in Files, EditorEdits(f)
  PROVE  FreshInv'
<1> USE DEF FreshInv
<1>1. PICK text \in Texts \ {buffers[f]} :
        buffers' = [buffers EXCEPT ![f] = text] /\ Send("change", f, text)
  BY DEF EditorEdits
<1>2. text \in Text /\ text # None /\ buffers[f] \notin {None, text}
  BY <1>1, FreshnessAssumption DEF EditorEdits, Text
<1>3. UNCHANGED <<disk, documents, vfs, stale_documents, shards, noticed, worker, index, unnoticed, overwritten>>
  BY DEF EditorEdits, server, builds, loads, history
<1>4. /\ channel' \in Seq(Notice)
      /\ Len(channel) \in Nat
      /\ DOMAIN channel = 1 .. Len(channel)
      /\ DOMAIN channel' = 1 .. Len(channel) + 1
      /\ \A i \in 1 .. Len(channel) : channel'[i] = channel[i]
      /\ channel'[Len(channel) + 1] = [kind |-> "change", file |-> f, text |-> text]
  BY <1>1, <1>2, Sent
<1>5. TypeOK'
  BY <1>1, <1>2, <1>3, <1>4 DEF TypeOK
<1>6. Channelled'
  BY <1>1, <1>2, <1>3, SendStep
<1>7. EditsAreNoted'
  <2> SUFFICES ASSUME index = None \/ index.kind = "startup", NEW g \in Files \ unnoticed
               PROVE  Edited(g)' \/ Untouched(g)'
    BY <1>3 DEF EditsAreNoted
  <2>1. CASE g = f
    <3>1. Len(channel) + 1 \in DOMAIN channel'
      BY <1>4
    <3> QED BY <3>1, <2>1, <1>4 DEF Edited
  <2>2. Edited(g) => Edited(g)'
    BY <1>3, <1>4 DEF Edited
  <2>3. g # f /\ Untouched(g) => Untouched(g)'
    BY <1>1, <1>2, <1>3, <1>4 DEF Untouched, TypeOK
  <2> QED BY <2>1, <2>2, <2>3 DEF EditsAreNoted
<1>8. UnsavedIsStale'
  BY <1>1, <1>2, <1>3, SentHeard DEF UnsavedIsStale, Answers
<1> QED BY <1>3, <1>5, <1>6, <1>7, <1>8 DEF StartupFirst

(* The last notice about a file whose buffer is not its source is not that it *)
(* was closed; if it is not that it was opened, it marks the file.            *)
LEMMA SavesKeeps ==
  ASSUME FreshInv, NEW f \in Files, EditorSaves(f)
  PROVE  FreshInv'
<1> USE DEF FreshInv
<1>1. /\ buffers[f] \notin {None, disk[f]}
      /\ disk' = [disk EXCEPT ![f] = buffers[f]]
      /\ unnoticed' = IF OpeningUnheard(f) THEN unnoticed \union {f} ELSE unnoticed
      /\ UNCHANGED <<buffers, channel, documents, vfs, stale_documents, shards, noticed,
                     worker, index, overwritten>>
  BY DEF EditorSaves, server, builds, loads
<1>2. disk'[f] = buffers[f] /\ \A g \in Files \ {f} : disk'[g] = disk[g]
  BY <1>1 DEF TypeOK, Sources
<1>3. TypeOK'
  BY <1>1 DEF TypeOK, Sources, Text
<1>4. Channelled'
  BY <1>1 DEF Channelled, LastWord, ChangesDiffer, Latest, First, Follows, Heard
<1>5. EditsAreNoted'
  <2> SUFFICES ASSUME index = None \/ index.kind = "startup", NEW g \in Files \ unnoticed',
                      Edited(g) \/ Untouched(g)
               PROVE  Edited(g)' \/ Untouched(g)'
    BY <1>1 DEF EditsAreNoted
  <2>1. CASE g = f
    <3>1. Edited(f) /\ ~OpeningUnheard(f)
      BY <2>1, <1>1 DEF Untouched
    <3>2. Heard(f) => Edited(f)'
      BY <3>1, <1>1 DEF Edited, Heard
    <3>3. ASSUME NEW i \in DOMAIN channel, channel[i].file = f, Latest(i)
          PROVE  channel[i].kind = "change"
      <4>1. channel[i].kind # "open"
        BY <3>3, <3>1 DEF OpeningUnheard, Latest
      <4>2. channel[i].text # None
        BY <3>3, <1>1 DEF Channelled, LastWord
      <4>3. channel[i].kind # "close"
        BY <4>2 DEF Channelled, ChangesDiffer
      <4>4. channel[i].kind \in {"open", "change", "close"}
        <5>1. channel \in Seq(Notice) /\ i \in 1 .. Len(channel)
          BY DEF TypeOK
        <5>2. channel[i] \in Notice
          BY <5>1
        <5> QED BY <5>2 DEF Notice
      <4> QED BY <4>1, <4>3, <4>4
    <3>4. Heard(f) \/ \E i \in DOMAIN channel : channel[i].file = f /\ Latest(i)
      BY DEF Channelled, LastWord
    <3>5. (\E i \in DOMAIN channel : channel[i].file = f /\ channel[i].kind = "change") => Edited(f)'
      BY <1>1 DEF Edited
    <3> QED BY <3>2, <3>3, <3>4, <3>5, <2>1
  <2>2. CASE g # f
    BY <2>2, <1>1, <1>2 DEF Edited, Untouched
  <2> QED BY <2>1, <2>2
<1>6. UnsavedIsStale'
  BY <1>1, <1>2 DEF UnsavedIsStale, Answers, Heard, Channelled, LastWord
<1> QED BY <1>1, <1>3, <1>4, <1>5, <1>6 DEF StartupFirst

LEMMA OthersKeep ==
  ASSUME FreshInv, NEW f \in Files, OtherWrites(f)
  PROVE  FreshInv'
<1> USE DEF FreshInv
<1>1. PICK text \in Texts \ {disk[f]} : disk' = [disk EXCEPT ![f] = text]
  BY DEF OtherWrites
<1>2. /\ unnoticed' = unnoticed \union {f} /\ overwritten' = overwritten \union {f}
      /\ UNCHANGED <<buffers, channel, documents, vfs, stale_documents, shards, noticed,
                     worker, index>>
  BY DEF OtherWrites, server, builds, loads
<1>3. \A g \in Files \ {f} : disk'[g] = disk[g]
  BY <1>1 DEF TypeOK, Sources
<1>4. TypeOK'
  BY <1>1, <1>2 DEF TypeOK, Sources
<1>5. Channelled'
  BY <1>2 DEF Channelled, LastWord, ChangesDiffer, Latest, First, Follows, Heard
<1>6. ASSUME NEW g \in Files \ {f}, Edited(g) \/ Untouched(g) PROVE Edited(g)' \/ Untouched(g)'
  BY <1>2, <1>3, <1>6 DEF Edited, Untouched
<1>7. EditsAreNoted'
  BY <1>2, <1>6 DEF EditsAreNoted
<1>8. UnsavedIsStale'
  BY <1>2, <1>3 DEF UnsavedIsStale, Answers, Heard
<1> QED BY <1>2, <1>4, <1>5, <1>7, <1>8 DEF StartupFirst

LEMMA ClosesKeeps ==
  ASSUME FreshInv, NEW f \in Files, EditorCloses(f)
  PROVE  FreshInv'
<1> USE DEF FreshInv
<1>1. /\ buffers' = [buffers EXCEPT ![f] = None]
      /\ Send("close", f, None)
      /\ UNCHANGED <<disk, documents, vfs, stale_documents, shards, noticed, worker, index, unnoticed, overwritten>>
  BY DEF EditorCloses, server, builds, loads, history
<1>2. None \in Text
  BY DEF Text
<1>3. /\ channel' \in Seq(Notice)
      /\ Len(channel) \in Nat
      /\ DOMAIN channel = 1 .. Len(channel)
      /\ DOMAIN channel' = 1 .. Len(channel) + 1
      /\ \A i \in 1 .. Len(channel) : channel'[i] = channel[i]
      /\ channel'[Len(channel) + 1] = [kind |-> "close", file |-> f, text |-> None]
  BY <1>1, <1>2, Sent
<1>4. TypeOK'
  BY <1>1, <1>2, <1>3 DEF TypeOK
<1>5. Channelled'
  BY <1>1, <1>2, SendStep
<1>6. EditsAreNoted'
  <2> SUFFICES ASSUME index = None \/ index.kind = "startup", NEW g \in Files \ unnoticed
               PROVE  Edited(g)' \/ Untouched(g)'
    BY <1>1 DEF EditsAreNoted
  <2>1. Edited(g) => Edited(g)'
    BY <1>1, <1>3 DEF Edited
  <2>2. Untouched(g) => Untouched(g)'
    BY <1>1, <1>3 DEF Untouched, TypeOK
  <2> QED BY <2>1, <2>2 DEF EditsAreNoted
<1>7. UnsavedIsStale'
  BY <1>1, <1>2, SentHeard DEF UnsavedIsStale, Answers
<1> QED BY <1>1, <1>4, <1>5, <1>6, <1>7 DEF StartupFirst

-----------------------------------------------------------------------------
(* The server's steps, and the rest. *)

LEMMA HandledKeeps ==
  ASSUME FreshInv, NEW f \in Files, NEW kind, Receive(kind, f),
         UNCHANGED <<disk, buffers, shards, noticed, worker, index, unnoticed>>,
         overwritten' \in SUBSET Files, overwritten \subseteq overwritten' \union {f},
         documents' = [documents EXCEPT ![f] = channel[1].text],
         vfs' \in [Files -> Text], documents'[f] # None => vfs'[f] = documents'[f],
         \A g \in Files \ {f} : vfs'[g] = vfs[g],
         stale_documents' \in SUBSET Files, stale_documents \subseteq stale_documents',
         kind = "change" \/ documents'[f] \notin {None, disk[f]} => f \in stale_documents'
  PROVE  FreshInv'
<1> USE DEF FreshInv
<1>1. /\ channel' \in Seq(Notice)
      /\ Len(channel) \in Nat \ {0}
      /\ DOMAIN channel = 1 .. Len(channel)
      /\ DOMAIN channel' = 1 .. Len(channel) - 1
      /\ \A i \in 1 .. Len(channel) - 1 : channel'[i] = channel[i + 1]
      /\ channel[1] \in Notice
      /\ channel[1].kind = kind /\ channel[1].file = f
  BY Received
<1>2. /\ channel[1].text \in Text
      /\ documents'[f] = channel[1].text /\ documents' \in [Files -> Text]
      /\ \A g \in Files \ {f} : documents'[g] = documents[g]
  BY <1>1 DEF TypeOK, Notice
<1>3. ASSUME NEW i \in DOMAIN channel'
      PROVE  i + 1 \in DOMAIN channel /\ channel'[i] = channel[i + 1]
  BY <1>1
<1>4. ASSUME NEW i \in DOMAIN channel, i # 1
      PROVE  i - 1 \in DOMAIN channel' /\ channel'[i - 1] = channel[i]
  BY <1>1, <1>4
<1>5. TypeOK'
  <2>1. \A g \in Files : documents'[g] # None => vfs'[g] = documents'[g]
    BY <1>2 DEF TypeOK
  <2> QED BY <2>1, <1>1, <1>2 DEF TypeOK
<1>6. Channelled'
  BY HandleStep
<1>8. EditsAreNoted'
  <2> SUFFICES ASSUME index = None \/ index.kind = "startup", NEW g \in Files \ unnoticed
               PROVE  Edited(g)' \/ Untouched(g)'
    BY DEF EditsAreNoted
  <2>1. ASSUME Edited(g) PROVE Edited(g)'
    <3>1. CASE g \in stale_documents
      BY <3>1 DEF Edited
    <3>2. ASSUME NEW i \in DOMAIN channel, channel[i].file = g,
                 channel[i].kind = "change" \/ (channel[i].kind = "open" /\ channel[i].text # disk[g])
          PROVE  Edited(g)'
      <4>1. CASE i = 1
        <5>1. channel[1].kind = "open" => channel[1].text # None
          BY <4>1 DEF Channelled, ChangesDiffer
        <5> QED BY <5>1, <4>1, <3>2, <1>1, <1>2 DEF Edited
      <4>2. CASE i # 1
        BY <4>2, <3>2, <1>4 DEF Edited
      <4> QED BY <4>1, <4>2
    <3>3. CASE g \notin stale_documents
      <4>1. PICK i \in DOMAIN channel :
              /\ channel[i].file = g
              /\ channel[i].kind = "change" \/ (channel[i].kind = "open" /\ channel[i].text # disk[g])
        BY <2>1, <3>3 DEF Edited
      <4> QED BY <4>1, <3>2
    <3> QED BY <3>1, <3>3
  <2>2. ASSUME Untouched(g) PROVE Untouched(g)'
    <3>1. 1 \in DOMAIN channel
      BY <1>1
    <3>2. documents'[g] \in {None, disk[g]}
      BY <3>1, <2>2, <1>1, <1>2 DEF Untouched
    <3>3. \A i \in DOMAIN channel' : channel'[i].file = g => channel'[i].text \in {None, disk[g]}
      BY <2>2, <1>3 DEF Untouched
    <3> QED BY <3>2, <3>3, <2>2 DEF Untouched
  <2> QED BY <2>1, <2>2 DEF EditsAreNoted
<1>9. UnsavedIsStale'
  <2> SUFFICES ASSUME NEW g \in Files \ overwritten', Answers(g)', Heard(g)'
               PROVE  documents'[g] \in {None, disk[g]}
    BY DEF UnsavedIsStale
  <2>1. CASE g = f
    BY <2>1 DEF Answers
  <2>2. CASE g # f
    <3>1. Heard(g) /\ Answers(g)
      BY <2>2, ReceivedHeard DEF Answers
    <3> QED BY <3>1, <2>2, <1>2 DEF UnsavedIsStale
  <2> QED BY <2>1, <2>2
<1> QED BY <1>5, <1>6, <1>8, <1>9 DEF StartupFirst

LEMMA DidOpenKeeps ==
  ASSUME FreshInv, NEW f \in Files, DidOpen(f)
  PROVE  FreshInv'
<1>1. TypeOK
  BY DEF FreshInv
<1>2. Receive("open", f) /\ channel[1] \in Notice
  BY <1>1, Received DEF DidOpen
<1>3. channel[1].text \in Text
  BY <1>2 DEF Notice
<1>4. /\ documents' = [documents EXCEPT ![f] = channel[1].text]
      /\ vfs' = [vfs EXCEPT ![f] = channel[1].text]
      /\ stale_documents' = IF disk[f] # channel[1].text THEN stale_documents \union {f}
                                                         ELSE stale_documents
      /\ overwritten' = overwritten \ {f}
      /\ UNCHANGED <<disk, buffers, shards, noticed, worker, index, unnoticed>>
  BY DEF DidOpen, editor, builds, loads
<1>5. documents'[f] = channel[1].text /\ vfs'[f] = channel[1].text
  BY <1>1, <1>4 DEF TypeOK
<1>6. vfs' \in [Files -> Text] /\ \A g \in Files \ {f} : vfs'[g] = vfs[g]
  BY <1>1, <1>3, <1>4 DEF TypeOK
<1>7. stale_documents' \in SUBSET Files /\ stale_documents \subseteq stale_documents'
  BY <1>1, <1>4 DEF TypeOK
<1>8. overwritten' \in SUBSET Files /\ overwritten \subseteq overwritten' \union {f}
  BY <1>1, <1>4 DEF TypeOK
<1> QED BY <1>2, <1>4, <1>5, <1>6, <1>7, <1>8, HandledKeeps

(* The text differs from what the Vfs has, so the file is always marked. *)
LEMMA DidChangeKeeps ==
  ASSUME FreshInv, NEW f \in Files, DidChange(f)
  PROVE  FreshInv'
<1>1. TypeOK
  BY DEF FreshInv
<1>2. /\ Receive("change", f)
      /\ channel[1] \in Notice /\ channel[1].kind = "change" /\ channel[1].file = f
      /\ 1 \in DOMAIN channel
  BY <1>1, Received DEF DidChange
<1>3. channel[1].text \in Text
  BY <1>2 DEF Notice
<1>4. /\ documents' = [documents EXCEPT ![f] = channel[1].text]
      /\ vfs' = [vfs EXCEPT ![f] = channel[1].text]
      /\ stale_documents' = IF vfs[f] # channel[1].text THEN stale_documents \union {f}
                                                        ELSE stale_documents
      /\ UNCHANGED <<disk, buffers, shards, noticed, worker, index, unnoticed, overwritten>>
  BY DEF DidChange, editor, builds, loads, history
<1>5. documents'[f] = channel[1].text /\ vfs'[f] = channel[1].text
  BY <1>1, <1>4 DEF TypeOK
<1>6. vfs' \in [Files -> Text] /\ \A g \in Files \ {f} : vfs'[g] = vfs[g]
  BY <1>1, <1>3, <1>4 DEF TypeOK
<1>7. First(1)
  BY <1>1, <1>2, ReceivedHeard
<1>8. documents[f] \notin {None, channel[1].text}
  BY <1>2, <1>7 DEF FreshInv, Channelled, ChangesDiffer
<1>9. vfs[f] # channel[1].text
  BY <1>1, <1>8 DEF TypeOK
<1>10. stale_documents' = stale_documents \union {f}
  BY <1>4, <1>9
<1>11. stale_documents' \in SUBSET Files /\ stale_documents \subseteq stale_documents'
  BY <1>1, <1>10 DEF TypeOK
<1>12. overwritten' \in SUBSET Files /\ overwritten \subseteq overwritten' \union {f}
  BY <1>1, <1>4 DEF TypeOK
<1> QED BY <1>2, <1>4, <1>5, <1>6, <1>10, <1>11, <1>12, HandledKeeps

LEMMA DidCloseKeeps ==
  ASSUME FreshInv, NEW f \in Files, DidClose(f)
  PROVE  FreshInv'
<1>1. TypeOK
  BY DEF FreshInv
<1>2. /\ Receive("close", f)
      /\ channel[1].kind = "close" /\ 1 \in DOMAIN channel
  BY <1>1, Received DEF DidClose
<1>3. channel[1].text = None
  BY <1>2 DEF FreshInv, Channelled, ChangesDiffer
<1>4. /\ documents' = [documents EXCEPT ![f] = channel[1].text]
      /\ vfs' = [vfs EXCEPT ![f] = disk[f]]
      /\ stale_documents' = stale_documents
      /\ UNCHANGED <<disk, buffers, shards, noticed, worker, index, unnoticed, overwritten>>
  BY <1>3 DEF DidClose, editor, builds, loads, history
<1>5. documents'[f] = None
  BY <1>1, <1>3, <1>4 DEF TypeOK
<1>6. vfs' \in [Files -> Text] /\ \A g \in Files \ {f} : vfs'[g] = vfs[g]
  BY <1>1, <1>4 DEF TypeOK, Text, Sources
<1>7. stale_documents' \in SUBSET Files /\ stale_documents \subseteq stale_documents'
  BY <1>1, <1>4 DEF TypeOK
<1>8. overwritten' \in SUBSET Files /\ overwritten \subseteq overwritten' \union {f}
  BY <1>1, <1>4 DEF TypeOK
<1> QED BY <1>2, <1>4, <1>5, <1>6, <1>7, <1>8, HandledKeeps

LEMMA BuildKeeps ==
  ASSUME FreshInv, NEW f \in Files, BuildWrites(f)
  PROVE  FreshInv'
<1> USE DEF FreshInv
<1>1. /\ shards[f] # disk[f]
      /\ shards' = [shards EXCEPT ![f] = disk[f]] /\ noticed' = TRUE
      /\ UNCHANGED <<disk, buffers, channel, documents, vfs, stale_documents, worker, index, unnoticed, overwritten>>
  BY DEF BuildWrites, editor, server, loads, history
<1>2. TypeOK'
  BY <1>1 DEF TypeOK, Sources
<1>3. Channelled'
  BY <1>1 DEF Channelled, LastWord, ChangesDiffer, Latest, First, Follows, Heard
<1>4. ASSUME NEW g \in Files, Edited(g) \/ Untouched(g) PROVE Edited(g)' \/ Untouched(g)'
  <2>1. Edited(g) => Edited(g)'
    BY <1>1 DEF Edited
  <2>2. Untouched(g) => g # f
    BY <1>1 DEF Untouched
  <2>3. g # f /\ Untouched(g) => Untouched(g)'
    BY <1>1 DEF Untouched, TypeOK, Sources
  <2> QED BY <1>4, <2>1, <2>2, <2>3
<1>5. EditsAreNoted'
  BY <1>1, <1>4 DEF EditsAreNoted
<1>6. UnsavedIsStale'
  BY <1>1 DEF UnsavedIsStale, Answers, Heard
<1> QED BY <1>1, <1>2, <1>3, <1>5, <1>6 DEF StartupFirst

LEMMA ReadsKeeps ==
  ASSUME FreshInv, WorkerReads
  PROVE  FreshInv'
<1> USE DEF FreshInv
<1>1. /\ worker # None
      /\ worker' = [worker EXCEPT !.read = shards]
      /\ UNCHANGED <<disk, buffers, channel, documents, vfs, stale_documents, shards, noticed,
                     index, unnoticed, overwritten>>
  BY DEF WorkerReads, editor, server, builds, history
<1>2. worker \in Generation /\ shards \in Sources
  BY <1>1 DEF TypeOK
<1>3. worker' \in Generation /\ worker'.kind = worker.kind /\ worker'.read = shards
  BY <1>1, <1>2 DEF Generation
<1>4. TypeOK'
  BY <1>1, <1>3 DEF TypeOK
<1>5. Channelled'
  BY <1>1 DEF Channelled, LastWord, ChangesDiffer, Latest, First, Follows, Heard
<1>6. StartupFirst'
  BY <1>1, <1>3 DEF StartupFirst
<1>7. ASSUME NEW g \in Files, Edited(g) \/ Untouched(g) PROVE Edited(g)' \/ Untouched(g)'
  BY <1>1, <1>3, <1>7 DEF Edited, Untouched
<1>8. EditsAreNoted'
  BY <1>1, <1>7 DEF EditsAreNoted
<1>9. UnsavedIsStale'
  BY <1>1 DEF UnsavedIsStale, Answers, Heard
<1> QED BY <1>1, <1>4, <1>5, <1>6, <1>8, <1>9

LEMMA StartsKeeps ==
  ASSUME FreshInv, NEW kind \in {"reload", "explicit"}, StartWorker(kind)
  PROVE  FreshInv'
<1> USE DEF FreshInv
<1>1. /\ worker' = [kind |-> kind, read |-> None] /\ noticed' = FALSE
      /\ UNCHANGED <<disk, buffers, channel, documents, vfs, stale_documents, shards, index, unnoticed,
                     overwritten>>
  BY DEF StartWorker, editor, server, history
<1>2. worker' \in Generation /\ worker'.kind # "startup" /\ worker'.read = None
  BY <1>1 DEF Generation
<1>3. TypeOK'
  BY <1>1, <1>2 DEF TypeOK
<1>4. Channelled'
  BY <1>1 DEF Channelled, LastWord, ChangesDiffer, Latest, First, Follows, Heard
<1>5. ASSUME NEW g \in Files, Edited(g) \/ Untouched(g) PROVE Edited(g)' \/ Untouched(g)'
  BY <1>1, <1>2, <1>5 DEF Edited, Untouched
<1>6. EditsAreNoted'
  BY <1>1, <1>5 DEF EditsAreNoted
<1>7. UnsavedIsStale'
  BY <1>1 DEF UnsavedIsStale, Answers, Heard
<1> QED BY <1>1, <1>2, <1>3, <1>4, <1>6, <1>7 DEF StartupFirst

(* Startup's keeps the marks; any other ends the time of startup's. *)
LEMMA InstallKeeps ==
  ASSUME FreshInv, Install
  PROVE  FreshInv'
<1> USE DEF FreshInv
<1>1. /\ worker # None /\ worker.read # None /\ index' = worker /\ worker' = None
      /\ stale_documents' = RefreshDocumentFreshness \union
                              (IF worker.kind = "startup" THEN stale_documents ELSE {})
      /\ overwritten' = {}
      /\ UNCHANGED <<disk, buffers, channel, documents, vfs, shards, noticed, unnoticed>>
  BY DEF Install, editor, builds
<1>2. worker \in Generation
  BY <1>1 DEF TypeOK
<1>3. worker \in [kind : {"startup", "reload", "explicit"}, read : Sources]
  BY <1>1, <1>2 DEF Generation
<1>4. TypeOK'
  BY <1>1, <1>3 DEF TypeOK, RefreshDocumentFreshness
<1>5. Channelled'
  BY <1>1 DEF Channelled, LastWord, ChangesDiffer, Latest, First, Follows, Heard
<1>6. EditsAreNoted'
  <2> SUFFICES ASSUME worker.kind = "startup", NEW g \in Files \ unnoticed
               PROVE  Edited(g)' \/ Untouched(g)'
    BY <1>1 DEF EditsAreNoted
  <2>1. Edited(g) \/ Untouched(g)
    BY <1>1 DEF StartupFirst, EditsAreNoted
  <2>2. Edited(g) => Edited(g)'
    BY <1>1 DEF Edited
  <2>3. Untouched(g) => Untouched(g)'
    BY <1>1 DEF Untouched
  <2> QED BY <2>1, <2>2, <2>3
<1>7. UnsavedIsStale'
  BY <1>1 DEF UnsavedIsStale, Answers, Heard, RefreshDocumentFreshness
<1> QED BY <1>1, <1>4, <1>5, <1>6, <1>7 DEF StartupFirst

-----------------------------------------------------------------------------
LEMMA FreshInit == Init => FreshInv
<1> SUFFICES ASSUME Init PROVE FreshInv
  OBVIOUS
<1>1. channel = <<>> /\ DOMAIN channel = {}
  BY DEF Init
<1>2. TypeOK
  <2>1. \A g \in [Files -> {None}] : g \in [Files -> Text]
    BY DEF Text
  <2>2. [f \in Files |-> None] \in [Files -> Text]
    BY <2>1
  <2>3. worker \in Generation
    BY DEF Init, Generation
  <2>4. channel \in Seq(Notice)
    BY <1>1
  <2> QED BY <2>2, <2>3, <2>4 DEF Init, TypeOK
<1>3. Channelled
  BY <1>1 DEF Init, Channelled, LastWord, ChangesDiffer, Heard
<1>4. \A g \in Files \ unnoticed : Untouched(g)
  BY <1>1 DEF Init, Untouched
<1> QED BY <1>2, <1>3, <1>4
       DEF Init, FreshInv, StartupFirst, EditsAreNoted, UnsavedIsStale, Answers

LEMMA FreshNext == FreshInv /\ [Next]_vars => FreshInv'
<1> SUFFICES ASSUME FreshInv, [Next]_vars PROVE FreshInv'
  OBVIOUS
<1>1. ASSUME NEW f \in Files, EditorOpens(f) PROVE FreshInv'
  BY <1>1, OpensKeeps
<1>2. ASSUME NEW f \in Files, EditorEdits(f) PROVE FreshInv'
  BY <1>2, EditsKeeps
<1>3. ASSUME NEW f \in Files, EditorSaves(f) PROVE FreshInv'
  BY <1>3, SavesKeeps
<1>4. ASSUME NEW f \in Files, EditorCloses(f) PROVE FreshInv'
  BY <1>4, ClosesKeeps
<1>5. ASSUME NEW f \in Files, BuildWrites(f) PROVE FreshInv'
  BY <1>5, BuildKeeps
<1>14. ASSUME NEW f \in Files, OtherWrites(f) PROVE FreshInv'
  BY <1>14, OthersKeep
<1>6. ASSUME NEW f \in Files, DidOpen(f) PROVE FreshInv'
  BY <1>6, DidOpenKeeps
<1>7. ASSUME NEW f \in Files, DidChange(f) PROVE FreshInv'
  BY <1>7, DidChangeKeeps
<1>8. ASSUME NEW f \in Files, DidClose(f) PROVE FreshInv'
  BY <1>8, DidCloseKeeps
<1>9. CASE WorkerReads
  BY <1>9, ReadsKeeps
<1>10. CASE ReloadStarts
  BY <1>10, StartsKeeps DEF ReloadStarts
<1>11. CASE ExplicitLoadStarts
  BY <1>11, StartsKeeps DEF ExplicitLoadStarts
<1>12. CASE Install
  BY <1>12, InstallKeeps
<1>13. CASE UNCHANGED vars
  <2>1. UNCHANGED <<disk, buffers, channel, documents, vfs, stale_documents, shards, noticed,
                    worker, index, unnoticed, overwritten>>
    BY <1>13 DEF vars
  <2>2. TypeOK' /\ StartupFirst' /\ UnsavedIsStale'
    BY <2>1 DEF FreshInv, TypeOK, StartupFirst, UnsavedIsStale, Answers, Heard
  <2>3. Channelled'
    BY <2>1 DEF FreshInv, Channelled, LastWord, ChangesDiffer, Latest, First, Follows, Heard
  <2>4. EditsAreNoted'
    BY <2>1 DEF FreshInv, EditsAreNoted, Edited, Untouched
  <2> QED BY <2>2, <2>3, <2>4 DEF FreshInv
<1> QED BY <1>1, <1>2, <1>3, <1>4, <1>5, <1>6, <1>7, <1>8, <1>9, <1>10, <1>11, <1>12, <1>13,
          <1>14
       DEF Next, Notified

LEMMA AlwaysFresh == Spec => []FreshInv
  BY FreshInit, FreshNext, PTL DEF Spec

(* The state of the editor, the server and the loads is of its types. *)
THEOREM DocumentsAreTyped == Spec => []TypeOK
<1>1. FreshInv => TypeOK
  BY DEF FreshInv
<1> QED BY <1>1, AlwaysFresh, PTL

(* However notifications queue up, and whatever is saved, built, read or       *)
(* installed meanwhile, the server never answers from an index about an open   *)
(* file whose text is not the one on disk, once it has heard all about it      *)
(* (didOpen, didChange, didClose, refresh_document_freshness), unless another  *)
(* program wrote the file under the buffer.                                    *)
THEOREM UnsavedTextIsStale == Spec => []UnsavedIsStale
<1>1. FreshInv => UnsavedIsStale
  BY DEF FreshInv
<1> QED BY <1>1, AlwaysFresh, PTL

(* Of a file heard all about and not marked, the startup index has the text on *)
(* disk, and so has the document if there is one.                              *)
LEMMA StartupHasDisk ==
  ASSUME FreshInv, index # None, index.kind = "startup", NEW f \in Files \ unnoticed,
         Heard(f), f \notin stale_documents
  PROVE  index.read[f] = disk[f] /\ documents[f] \in {None, disk[f]}
<1>1. ~Edited(f)
  BY DEF Edited, Heard
<1> QED BY <1>1 DEF FreshInv, EditsAreNoted, Untouched

(* Edits made while the startup generation is found, read and installed are    *)
(* not lost: what it answers about an open file is about the document          *)
(* (require_current_document and the startup branch of the install), whatever  *)
(* the shards were built from, unless no notice told of the text on disk.      *)
THEOREM StartupMatchesDocument == Spec => []StartupAnswersMatchDocument
<1>1. FreshInv => StartupAnswersMatchDocument
  BY StartupHasDisk DEF StartupAnswersMatchDocument, MatchesDocument, Answers
<1> QED BY <1>1, AlwaysFresh, PTL

(* Searches and outlines, which do not refuse a stale file, show for every     *)
(* file what its user sees (workspace_symbol, document_symbols): the buffer,   *)
(* or the file on disk if it is closed, whatever the shards were built from,   *)
(* unless no notice told of the text on disk.                                  *)
THEOREM StartupSymbolsAreCurrent == Spec => []SymbolsAreCurrent
<1>1. ASSUME FreshInv, index # None, index.kind = "startup", NEW f \in Files \ unnoticed, Heard(f)
      PROVE  LET seen == IF buffers[f] # None THEN buffers[f] ELSE disk[f]
             IN  /\ {answer \in WorkspaceSymbol : answer.file = f}
                      = {[file |-> f, text |-> seen]}
                 /\ DocumentSymbols(f) = seen
  <2> DEFINE seen == IF buffers[f] # None THEN buffers[f] ELSE disk[f]
  <2>1. documents[f] = buffers[f]
    BY <1>1 DEF FreshInv, Channelled, LastWord
  <2>2. LiveText(f) = seen
    BY <2>1 DEF LiveText
  <2>3. f \notin Shadowed => index.read[f] = seen
    BY <1>1, <2>1, StartupHasDisk DEF Shadowed
  <2>4. DocumentSymbols(f) = seen
    BY <2>1, <2>2, <2>3 DEF DocumentSymbols, LiveText, Shadowed
  <2> HIDE DEF seen
  <2>5. ASSUME NEW answer \in WorkspaceSymbol, answer.file = f
        PROVE  answer = [file |-> f, text |-> seen]
    BY <2>2, <2>3, <2>5 DEF WorkspaceSymbol
  <2>6. [file |-> f, text |-> seen] \in WorkspaceSymbol
    BY <2>2, <2>3 DEF WorkspaceSymbol
  <2>7. {answer \in WorkspaceSymbol : answer.file = f} = {[file |-> f, text |-> seen]}
    <3>1. [file |-> f, text |-> seen].file = f
      OBVIOUS
    <3> QED BY <2>5, <2>6, <3>1
  <2> QED BY <2>4, <2>7 DEF seen
<1>2. FreshInv => SymbolsAreCurrent
  BY <1>1 DEF SymbolsAreCurrent
<1> QED BY <1>2, AlwaysFresh, PTL
=============================================================================
