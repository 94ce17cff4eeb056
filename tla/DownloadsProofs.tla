---------------------------- MODULE DownloadsProofs ----------------------------
(***************************************************************************)
(* The readers of the bucket for any files, contents, sizes and calls, any *)
(* chunk size and any number of faults.  What a reader has is explained by *)
(* what was read from MinIO for it, once and whole (Placed), of which a    *)
(* prefix has been relayed (Passed); what happens in the bucket meanwhile  *)
(* does not matter any more.  The verdict of a check also depends on the   *)
(* local copy, which belongs to all checks of a file: Founded follows it   *)
(* through a check that is alone with its file.                            *)
(***************************************************************************)
EXTENDS Downloads, SequenceTheorems, TLAPS

Saving == {"save", "write", "detached", "look", "delete"}
Checking == Saving \cup {"safe", "explicit"}

\* What a call holds at each place of its handler.
Placed(q) ==
    /\ pc[q] = "idle" <=> kind[q] = None
    /\ pc[q] # "idle" => file[q] \in Files
    /\ pc[q] = "copy" => kind[q] = "hls"
    /\ pc[q] = "fetch" => kind[q] \in {"browser", "check"}
    /\ pc[q] \in Checking => kind[q] = "check"
    /\ pc[q] \in {"idle", "fetch"} => held[q] = <<>>
    /\ pc[q] \in {"idle", "fetch", "copy"} => sent[q] = 0 /\ body[q] = <<>>
    /\ pc[q] \in {"copy", "relay"} \cup Saving => held[q] # <<>>
    /\ held[q] # <<>> => \E c \in Contents : held[q] = Bytes(c)

\* The bytes of a call that have been relayed.
Upto(q) == IF sent[q] <= Len(held[q]) THEN sent[q] ELSE Len(held[q])

Passed(q) ==
    /\ pc[q] = "relay" => body[q] = Prefix(held[q], Upto(q))
    /\ pc[q] \in Saving => body[q] = held[q]

\* What CompleteIsWhole and DownloadIsComplete say of a call.
Answered(q) ==
    pc[q] = "ok" =>
        /\ \E c \in Contents :
              \/ body[q] = Bytes(c)
              \/ \E n \in 0..Size[c] : body[q] = Prefix(Bytes(c), n) \o ErrorText
        /\ kind[q] = "browser" =>
              \/ body[q] = held[q]
              \/ /\ TextLen < Len(held[q])
                 /\ body[q] = Prefix(held[q], Len(held[q]) - TextLen) \o ErrorText

Kept(q) == Placed(q) /\ Passed(q) /\ Answered(q)

\* A copy that is being written is there.
Opened(q) == pc[q] = "write" => disk[file[q]] # None

\* No other check has asked for the file.
Alone(q) == \A p \in Calls \ {q} : kind[p] = "check" => file[p] # file[q]

Founded(q) ==
    kind[q] = "check" /\ faults = 0 /\ held[q] # <<>> /\ Alone(q) =>
        /\ pc[q] \in {"relay"} \cup (Checking \ {"detached"})
        /\ pc[q] = "write" => disk[file[q]] = <<>>
        /\ pc[q] \in {"look", "delete"} => disk[file[q]] = held[q]
        /\ pc[q] \in {"delete", "explicit"} => Shows(held[q])
        /\ pc[q] = "safe" => ~Shows(held[q])

Inv == TypeOK /\ \A q \in Calls : Kept(q) /\ Opened(q) /\ Founded(q)

-----------------------------------------------------------------------------
(* Bytes.                                                                  *)

\* An object is a sequence that is not empty, and None is no sequence.
LEMMA BytesType ==
    ASSUME NEW c \in Contents
    PROVE  /\ Bytes(c) \in Seq(Byte) /\ Len(Bytes(c)) = Size[c] /\ Bytes(c) # <<>>
           /\ Size[c] \in Nat \ {0}
<1>1. Size[c] \in Nat \ {0}
  BY DownloadsAssumption
<1>2. \A i \in 1..Size[c] : <<c, i>> \in Byte
  BY <1>1 DEF Byte
<1>3. Bytes(c) \in [1..Size[c] -> Byte]
  BY <1>2 DEF Bytes
<1>4. Bytes(c) \in Seq(Byte) /\ Len(Bytes(c)) = Size[c]
  BY <1>1, <1>3
<1> QED
  BY <1>1, <1>4, EmptySeq

LEMMA ErrorTextType == ErrorText \in Seq(Byte) /\ Len(ErrorText) = TextLen /\ TextLen \in Nat \ {0}
<1>1. TextLen \in Nat \ {0}
  BY DownloadsAssumption
<1>2. ErrorText \in [1..TextLen -> Byte]
  BY DEF ErrorText, Byte
<1> QED
  BY <1>1, <1>2

LEMMA EmptyIsSeq == <<>> \in Seq(Byte) /\ Len(<<>>) = 0
BY EmptySeq

\* Prefixes.
LEMMA PrefixType ==
    ASSUME NEW s \in Seq(Byte), NEW n \in 0..Len(s)
    PROVE  Prefix(s, n) \in Seq(Byte) /\ Len(Prefix(s, n)) = n
<1>1. Len(s) \in Nat /\ n \in Int /\ 1 \in Int
  BY LenProperties
<1>2. \A i \in 1..n : s[i] \in Byte
  BY <1>1, ElementOfSeq
<1>3. SubSeq(s, 1, n) \in Seq(Byte) /\ Len(SubSeq(s, 1, n)) = IF 1 <= n THEN n - 1 + 1 ELSE 0
  BY <1>1, <1>2, SubSeqProperties
<1> QED
  BY <1>1, <1>3 DEF Prefix

LEMMA WholePrefix ==
    ASSUME NEW s \in Seq(Byte)
    PROVE  Prefix(s, Len(s)) = s
BY SubSeqFull DEF Prefix

LEMMA NoPrefix ==
    ASSUME NEW s
    PROVE  Prefix(s, 0) = <<>>
BY SubSeqEmpty DEF Prefix

\* The next chunk after a prefix makes a longer one.
LEMMA PrefixGrows ==
    ASSUME NEW s \in Seq(Byte), NEW k \in 0..Len(s), NEW n \in k..Len(s)
    PROVE  Prefix(s, k) \o SubSeq(s, k + 1, n) = Prefix(s, n)
<1>1. Len(s) \in Nat
  BY LenProperties
<1>2. 1 \in 1..Len(s) + 1 /\ k \in 1 - 1..Len(s)
  BY <1>1
<1> QED
  BY <1>2, ConcatAdjacentSubSeq DEF Prefix

LEMMA ConcatType ==
    ASSUME NEW s \in Seq(Byte), NEW t \in Seq(Byte)
    PROVE  s \o t \in Seq(Byte) /\ Len(s \o t) = Len(s) + Len(t)
BY ConcatProperties

-----------------------------------------------------------------------------
(* What a step at one call leaves as it was.                               *)

\* Everything about the other calls.
OnlyCall(q) ==
    \A p \in Calls \ {q} :
        /\ pc'[p] = pc[p] /\ kind'[p] = kind[p] /\ file'[p] = file[p]
        /\ held'[p] = held[p] /\ sent'[p] = sent[p] /\ body'[p] = body[p]

LEMMA OthersKept ==
    ASSUME NEW p \in Calls, Kept(p),
           pc'[p] = pc[p] /\ kind'[p] = kind[p] /\ file'[p] = file[p],
           held'[p] = held[p] /\ sent'[p] = sent[p] /\ body'[p] = body[p]
    PROVE  Kept(p)'
<1>1. Placed(p)'
  BY DEF Kept, Placed
<1>2. Passed(p)'
  BY DEF Kept, Passed, Upto
<1>3. Answered(p)'
  BY DEF Kept, Answered
<1> QED
  BY <1>1, <1>2, <1>3 DEF Kept

\* A call is given new values, and the rest of the state has its types.
Becomes(q, s, k, f, h, n, b) ==
    /\ pc' = [pc EXCEPT ![q] = s] /\ kind' = [kind EXCEPT ![q] = k]
    /\ file' = [file EXCEPT ![q] = f] /\ held' = [held EXCEPT ![q] = h]
    /\ sent' = [sent EXCEPT ![q] = n] /\ body' = [body EXCEPT ![q] = b]

RestTyped ==
    /\ bucket' \in [Files -> Contents \cup {None}]
    /\ disk' \in [Files -> Seq(Byte) \cup {None}]
    /\ faults' \in 0..MaxFaults

\* What a call has then.
Has(q, s, k, f, h, n, b) ==
    /\ pc'[q] = s /\ kind'[q] = k /\ file'[q] = f
    /\ held'[q] = h /\ sent'[q] = n /\ body'[q] = b

LEMMA CallTypes ==
    ASSUME TypeOK, RestTyped, NEW q \in Calls,
           NEW s \in States, NEW k \in Kinds \cup {None}, NEW f \in Files \cup {None},
           NEW h \in Seq(Byte), NEW n \in Nat, NEW b \in Seq(Byte), n < Len(h) + ChunkSize,
           Becomes(q, s, k, f, h, n, b)
    PROVE  TypeOK' /\ OnlyCall(q) /\ Has(q, s, k, f, h, n, b)
<1> USE DEF Becomes, Has
<1>1. /\ pc' \in [Calls -> States] /\ kind' \in [Calls -> Kinds \cup {None}]
      /\ file' \in [Calls -> Files \cup {None}]
  BY DEF TypeOK
<1>2. /\ held' \in [Calls -> Seq(Byte)] /\ sent' \in [Calls -> Nat]
      /\ body' \in [Calls -> Seq(Byte)]
  BY DEF TypeOK
<1>3. OnlyCall(q)
  BY DEF OnlyCall, TypeOK
<1>4. Has(q, s, k, f, h, n, b)
  BY DEF TypeOK
<1>5. \A p \in Calls : sent'[p] < Len(held'[p]) + ChunkSize
  <2> SUFFICES ASSUME NEW p \in Calls PROVE sent'[p] < Len(held'[p]) + ChunkSize
    OBVIOUS
  <2>1. CASE p = q
    BY <1>4, <2>1
  <2>2. CASE p # q
    BY <1>3, <2>2 DEF OnlyCall, TypeOK
  <2> QED
    BY <2>1, <2>2
<1> QED
  BY <1>1, <1>2, <1>3, <1>4, <1>5 DEF TypeOK, RestTyped

\* What TypeOK says of one call, and that what a step leaves alone is a value
\* given anew.
LEMMA CallType ==
    ASSUME TypeOK, NEW q \in Calls
    PROVE  /\ pc[q] \in States /\ kind[q] \in Kinds \cup {None}
           /\ file[q] \in Files \cup {None}
           /\ held[q] \in Seq(Byte) /\ sent[q] \in Nat /\ body[q] \in Seq(Byte)
           /\ Len(held[q]) \in Nat /\ Len(body[q]) \in Nat
           /\ sent[q] < Len(held[q]) + ChunkSize
           /\ Upto(q) \in 0..Len(held[q])
           /\ pc = [pc EXCEPT ![q] = pc[q]] /\ kind = [kind EXCEPT ![q] = kind[q]]
           /\ file = [file EXCEPT ![q] = file[q]] /\ held = [held EXCEPT ![q] = held[q]]
           /\ sent = [sent EXCEPT ![q] = sent[q]] /\ body = [body EXCEPT ![q] = body[q]]
<1>1. /\ pc[q] \in States /\ kind[q] \in Kinds \cup {None}
      /\ file[q] \in Files \cup {None}
      /\ held[q] \in Seq(Byte) /\ sent[q] \in Nat /\ body[q] \in Seq(Byte)
      /\ sent[q] < Len(held[q]) + ChunkSize
  BY DEF TypeOK
<1>2. Len(held[q]) \in Nat /\ Len(body[q]) \in Nat
  BY <1>1
<1>3. Upto(q) \in 0..Len(held[q])
  BY <1>1, <1>2 DEF Upto
<1>4. /\ pc = [pc EXCEPT ![q] = pc[q]] /\ kind = [kind EXCEPT ![q] = kind[q]]
      /\ file = [file EXCEPT ![q] = file[q]] /\ held = [held EXCEPT ![q] = held[q]]
      /\ sent = [sent EXCEPT ![q] = sent[q]] /\ body = [body EXCEPT ![q] = body[q]]
  BY DEF TypeOK
<1> QED
  BY <1>1, <1>2, <1>3, <1>4

LEMMA FaultType ==
    ASSUME TypeOK, Fault
    PROVE  faults' \in 0..MaxFaults /\ faults' # 0
BY DownloadsAssumption DEF TypeOK, Fault

-----------------------------------------------------------------------------
(* A call's steps keep what it holds explained.                            *)

LEMMA AskKeeps ==
    ASSUME TypeOK, NEW q \in Calls, Kept(q), NEW f \in Files,
           NEW k \in {"browser", "check"}, Ask(q, f, k)
    PROVE  TypeOK' /\ OnlyCall(q) /\ Kept(q)'
<1> USE DEF Ask, Goto
<1>1. /\ TypeOK' /\ OnlyCall(q) /\ pc[q] = "idle"
      /\ Has(q, "fetch", k, f, held[q], sent[q], body[q])
  <2>1. "fetch" \in States /\ k \in Kinds
    BY DEF States, Kinds
  <2>2. Becomes(q, "fetch", k, f, held[q], sent[q], body[q])
    BY CallType DEF Becomes
  <2>3. RestTyped
    BY DEF RestTyped, TypeOK
  <2> QED
    BY <2>1, <2>2, <2>3, CallType, CallTypes
<1>2. held[q] = <<>> /\ sent[q] = 0 /\ body[q] = <<>>
  BY <1>1 DEF Kept, Placed
<1>3. Placed(q)'
  BY <1>1, <1>2, DownloadsAssumption DEF Has, Placed, Checking, Saving, Kinds
<1>4. Passed(q)' /\ Answered(q)'
  BY <1>1 DEF Has, Passed, Answered, Saving
<1> QED
  BY <1>1, <1>3, <1>4 DEF Kept

LEMMA FetchKeeps ==
    ASSUME TypeOK, NEW q \in Calls, Kept(q), Fetch(q)
    PROVE  TypeOK' /\ OnlyCall(q) /\ Kept(q)'
<1>1. /\ pc[q] = "fetch" /\ held[q] = <<>> /\ sent[q] = 0 /\ body[q] = <<>>
      /\ kind[q] \in {"browser", "check"} /\ file[q] \in Files
      /\ UNCHANGED <<bucket, kind, file, sent, body, disk>>
  BY DEF Fetch, Kept, Placed
<1>2. RestTyped
  BY <1>1, FaultType DEF Fetch, TypeOK, RestTyped
<1>3. CASE pc' = [pc EXCEPT ![q] = "relay"] /\ \E c \in Contents : held' = [held EXCEPT ![q] = Bytes(c)]
  <2>1. PICK c \in Contents : held' = [held EXCEPT ![q] = Bytes(c)]
    BY <1>3
  <2>2. TypeOK' /\ OnlyCall(q) /\ Has(q, "relay", kind[q], file[q], Bytes(c), 0, <<>>)
    <3>1. "relay" \in States /\ Bytes(c) \in Seq(Byte) /\ 0 < Len(Bytes(c)) + ChunkSize
      BY BytesType, DownloadsAssumption DEF States
    <3>2. Becomes(q, "relay", kind[q], file[q], Bytes(c), 0, <<>>)
      BY <1>1, <1>3, <2>1, CallType DEF Becomes
    <3> QED
      BY <1>2, <3>1, <3>2, EmptyIsSeq, CallType, CallTypes
  <2>3. Placed(q)'
    BY <1>1, <2>2, BytesType, DownloadsAssumption DEF Has, Placed, Checking, Saving, Kinds
  <2>4. Passed(q)'
    <3>1. Upto(q)' = 0
      BY <2>2, BytesType DEF Has, Upto
    <3>2. Prefix(held'[q], 0) = <<>>
      BY NoPrefix
    <3> QED
      BY <2>2, <3>1, <3>2 DEF Has, Passed, Saving, Upto
  <2>5. Answered(q)'
    BY <2>2 DEF Has, Answered
  <2> QED
    BY <2>2, <2>3, <2>4, <2>5 DEF Kept
<1>4. CASE /\ held' = held
           /\ \E s \in {"failed", "safe"} :
                 /\ pc' = [pc EXCEPT ![q] = s]
                 /\ s = "safe" => kind[q] = "check"
  <2>1. PICK s \in {"failed", "safe"} :
           /\ pc' = [pc EXCEPT ![q] = s]
           /\ s = "safe" => kind[q] = "check"
    BY <1>4
  <2>2. TypeOK' /\ OnlyCall(q) /\ Has(q, s, kind[q], file[q], held[q], sent[q], body[q])
    <3>1. s \in States
      BY DEF States
    <3>2. Becomes(q, s, kind[q], file[q], held[q], sent[q], body[q])
      BY <1>1, <1>4, <2>1, CallType DEF Becomes
    <3> QED
      BY <1>2, <3>1, <3>2, CallType, CallTypes
  <2>3. Placed(q)'
    BY <1>1, <2>1, <2>2, DownloadsAssumption DEF Has, Placed, Checking, Saving, Kinds
  <2>4. Passed(q)' /\ Answered(q)'
    BY <2>2 DEF Has, Passed, Answered, Saving
  <2> QED
    BY <2>2, <2>3, <2>4 DEF Kept
<1>5. bucket[file[q]] \in Contents \cup {None}
  BY <1>1 DEF TypeOK
<1>6. ~\E n \in 0..Size[bucket[file[q]]] :
          PartialIsKept(bucket[file[q]], SubSeq(Bytes(bucket[file[q]]), 1, n))
  BY DEF PartialIsKept, CopyFails
<1> QED
  BY <1>3, <1>4, <1>5, <1>6 DEF Fetch, Goto

LEMMA RelayKeeps ==
    ASSUME TypeOK, NEW q \in Calls, Kept(q), Relay(q)
    PROVE  TypeOK' /\ OnlyCall(q) /\ Kept(q)'
<1> DEFINE h == held[q]
           k == sent[q]
           n == ChunkEnd(q)
<1>1. /\ pc[q] = "relay" /\ h # <<>> /\ k < Len(h)
      /\ body' = [body EXCEPT ![q] = body[q] \o Chunk(q)]
      /\ sent' = [sent EXCEPT ![q] = k + ChunkSize]
      /\ UNCHANGED <<bucket, kind, file, held, disk, faults>>
  BY DEF Relay, Kept, Placed, More, Advanced, ByChunk
<1>2. /\ h \in Seq(Byte) /\ Len(h) \in Nat /\ k \in Nat /\ ChunkSize \in Nat \ {0}
      /\ body[q] = Prefix(h, k)
  BY <1>1, CallType, DownloadsAssumption DEF Kept, Passed, Upto
<1>3. /\ k \in 0..Len(h) /\ n \in k..Len(h)
      /\ n = IF k + ChunkSize <= Len(h) THEN k + ChunkSize ELSE Len(h)
  BY <1>1, <1>2 DEF ChunkEnd
<1>4. body[q] \o Chunk(q) = Prefix(h, n)
  BY <1>2, <1>3, PrefixGrows DEF Chunk
<1>5. Prefix(h, n) \in Seq(Byte)
  <2>1. n \in 0..Len(h)
    BY <1>2, <1>3
  <2> QED
    BY <1>2, <2>1, PrefixType
<1>6. PICK s \in {"relay", "save"} :
         /\ pc' = [pc EXCEPT ![q] = s]
         /\ s = "save" => kind[q] = "check" /\ n = Len(h)
  BY <1>1, CallType DEF Relay, Goto, IsLast, EndsHere
<1>7. TypeOK' /\ OnlyCall(q) /\ Has(q, s, kind[q], file[q], h, k + ChunkSize, Prefix(h, n))
  <2>1. s \in States /\ k + ChunkSize \in Nat /\ k + ChunkSize < Len(h) + ChunkSize
    BY <1>1, <1>2 DEF States
  <2>2. Becomes(q, s, kind[q], file[q], h, k + ChunkSize, Prefix(h, n))
    BY <1>1, <1>4, <1>6, CallType DEF Becomes
  <2>3. RestTyped
    BY <1>1 DEF TypeOK, RestTyped
  <2> HIDE DEF h, k, n
  <2> QED
    BY <1>2, <1>5, <2>1, <2>2, <2>3, CallType, CallTypes
<1>8. Placed(q)'
  BY <1>1, <1>6, <1>7, DownloadsAssumption DEF Has, Kept, Placed, Checking, Saving, Kinds
<1>9. Passed(q)'
  <2>1. Upto(q)' = n
    BY <1>2, <1>3, <1>7 DEF Has, Upto
  <2>2. s = "save" => Prefix(h, n) = h
    BY <1>2, <1>6, WholePrefix
  <2> HIDE DEF h, n
  <2> QED
    BY <1>6, <1>7, <2>1, <2>2 DEF Has, Passed, Saving, Upto
<1>a. Answered(q)'
  BY <1>6, <1>7 DEF Has, Answered
<1> QED
  BY <1>7, <1>8, <1>9, <1>a DEF Kept

LEMMA EofKeeps ==
    ASSUME TypeOK, NEW q \in Calls, Kept(q), Eof(q)
    PROVE  TypeOK' /\ OnlyCall(q) /\ Kept(q)'
<1>1. /\ pc[q] = "relay" /\ ~More(q)
      /\ UNCHANGED <<bucket, kind, file, held, sent, body, disk, faults>>
  BY DEF Eof
<1>2. held[q] \in Seq(Byte) /\ Len(held[q]) \in Nat /\ sent[q] \in Nat
  BY CallType
<1>3. body[q] = held[q]
  <2>1. Upto(q) = Len(held[q])
    BY <1>1, <1>2 DEF More, Upto
  <2> QED
    BY <1>1, <1>2, <2>1, WholePrefix DEF Kept, Passed
<1>4. PICK s \in {"save", "ok"} :
         pc' = [pc EXCEPT ![q] = s] /\ (s = "save" <=> kind[q] = "check")
  BY DEF Eof, Goto
<1>5. TypeOK' /\ OnlyCall(q) /\ Has(q, s, kind[q], file[q], held[q], sent[q], held[q])
  <2>1. s \in States
    BY DEF States
  <2>2. Becomes(q, s, kind[q], file[q], held[q], sent[q], held[q])
    BY <1>1, <1>3, <1>4, CallType DEF Becomes
  <2>3. RestTyped
    BY <1>1 DEF TypeOK, RestTyped
  <2> QED
    BY <2>1, <2>2, <2>3, CallType, CallTypes
<1>6. Placed(q)'
  BY <1>1, <1>4, <1>5, DownloadsAssumption DEF Has, Kept, Placed, Checking, Saving, Kinds
<1>7. Passed(q)'
  BY <1>4, <1>5 DEF Has, Passed, Saving
<1>8. Answered(q)'
  <2>1. PICK c \in Contents : held[q] = Bytes(c)
    BY <1>1 DEF Kept, Placed
  <2> QED
    BY <1>5, <2>1 DEF Has, Answered
<1> QED
  BY <1>5, <1>6, <1>7, <1>8 DEF Kept

\* The text of an error after a prefix of the object.
LEMMA TextFollows ==
    ASSUME TypeOK, NEW q \in Calls, Kept(q), pc[q] \in {"copy", "relay"}
    PROVE  \E c \in Contents : \E n \in 0..Size[c] :
              /\ held[q] = Bytes(c) /\ Len(held[q]) = Size[c] /\ Size[c] \in Nat
              /\ body[q] = Prefix(Bytes(c), n) /\ Len(body[q]) = n
              /\ body[q] \o ErrorText \in Seq(Byte)
              /\ Len(body[q] \o ErrorText) = n + TextLen
<1>1. PICK c \in Contents : held[q] = Bytes(c)
  BY DEF Kept, Placed
<1>2. Bytes(c) \in Seq(Byte) /\ Len(Bytes(c)) = Size[c] /\ Size[c] \in Nat
  BY BytesType
<1>3. \E n \in 0..Size[c] : body[q] = Prefix(Bytes(c), n)
  <2>1. CASE pc[q] = "copy"
    BY <1>2, <2>1, NoPrefix DEF Kept, Placed
  <2>2. CASE pc[q] = "relay"
    BY <1>1, <1>2, <2>2, CallType DEF Kept, Passed
  <2> QED
    BY <2>1, <2>2
<1>4. PICK n \in 0..Size[c] : body[q] = Prefix(Bytes(c), n)
  BY <1>3
<1>5. Len(body[q]) = n
  BY <1>2, <1>4, PrefixType
<1>6. body[q] \o ErrorText \in Seq(Byte) /\ Len(body[q] \o ErrorText) = n + TextLen
  BY <1>5, CallType, ErrorTextType, ConcatType
<1> QED
  BY <1>1, <1>2, <1>4, <1>5, <1>6

\* A handler moves on with what it has.
LEMMA MoveKeeps ==
    ASSUME TypeOK, RestTyped, NEW q \in Calls, Kept(q), NEW s \in States,
           pc' = [pc EXCEPT ![q] = s], UNCHANGED <<kind, file, held, sent, body>>,
           pc[q] # "idle", s \notin {"idle", "fetch", "copy", "ok"},
           s \in Checking => kind[q] = "check",
           s \in Saving => pc[q] \in Saving,
           s = "relay" => pc[q] = "copy"
    PROVE  TypeOK' /\ OnlyCall(q) /\ Kept(q)'
<1>1. TypeOK' /\ OnlyCall(q) /\ Has(q, s, kind[q], file[q], held[q], sent[q], body[q])
  <2>1. Becomes(q, s, kind[q], file[q], held[q], sent[q], body[q])
    BY CallType DEF Becomes
  <2> QED
    BY <2>1, CallType, CallTypes
<1>2. Placed(q)'
  <2>1. s \in {"relay"} \cup Saving => held[q] # <<>>
    BY DEF Kept, Placed
  <2> QED
    BY <1>1, <2>1 DEF Has, Kept, Placed, Checking
<1>3. Passed(q)'
  <2>1. CASE s = "relay"
    <3>1. sent[q] = 0 /\ body[q] = <<>>
      BY <2>1 DEF Kept, Placed
    <3>2. Upto(q)' = 0
      BY <1>1, <3>1, CallType DEF Has, Upto
    <3>3. Prefix(held[q], 0) = <<>>
      BY NoPrefix
    <3> QED
      BY <1>1, <2>1, <3>1, <3>2, <3>3 DEF Has, Passed, Saving, Upto
  <2>2. CASE s # "relay"
    BY <1>1, <2>2 DEF Has, Kept, Passed
  <2> QED
    BY <2>1, <2>2
<1>4. Answered(q)'
  BY <1>1 DEF Has, Answered
<1> QED
  BY <1>1, <1>2, <1>3, <1>4 DEF Kept

\* A response ends, with or without the text of an error.
LEMMA TextKeeps ==
    ASSUME TypeOK, RestTyped, NEW q \in Calls, Kept(q), pc[q] \in {"copy", "relay"},
           kind[q] = "browser" => body[q] # <<>>,
           NEW s \in {"ok", "cut"}, NEW b \in {body[q], body[q] \o ErrorText},
           Becomes(q, s, kind[q], file[q], held[q], sent[q], b),
           s = "ok" => b = body[q] \o ErrorText \/ Len(b) = Len(held[q]),
           s = "ok" /\ kind[q] = "browser" => Len(b) = Len(held[q])
    PROVE  TypeOK' /\ OnlyCall(q) /\ Kept(q)'
<1>1. PICK c \in Contents : \E n \in 0..Size[c] :
              /\ held[q] = Bytes(c) /\ Len(held[q]) = Size[c] /\ Size[c] \in Nat
              /\ body[q] = Prefix(Bytes(c), n) /\ Len(body[q]) = n
              /\ body[q] \o ErrorText \in Seq(Byte)
              /\ Len(body[q] \o ErrorText) = n + TextLen
  BY TextFollows
<1>2. PICK n \in 0..Size[c] :
              /\ held[q] = Bytes(c) /\ Len(held[q]) = Size[c] /\ Size[c] \in Nat
              /\ body[q] = Prefix(Bytes(c), n) /\ Len(body[q]) = n
              /\ body[q] \o ErrorText \in Seq(Byte)
              /\ Len(body[q] \o ErrorText) = n + TextLen
  BY <1>1
<1>3. TypeOK' /\ OnlyCall(q) /\ Has(q, s, kind[q], file[q], held[q], sent[q], b)
  <2>1. s \in States /\ b \in Seq(Byte)
    BY <1>2, CallType DEF States
  <2> QED
    BY <2>1, CallType, CallTypes
<1>4. Placed(q)'
  BY <1>3 DEF Has, Kept, Placed, Checking, Saving
<1>5. Passed(q)'
  BY <1>3 DEF Has, Passed, Saving
<1>6. Answered(q)'
  <2> SUFFICES ASSUME s = "ok" PROVE Answered(q)'
    BY <1>3 DEF Has, Answered
  <2>1. CASE b = body[q] \o ErrorText
    <3>1. \E m \in 0..Size[c] : b = Prefix(Bytes(c), m) \o ErrorText
      BY <1>2, <2>1
    <3>2. ASSUME kind[q] = "browser"
          PROVE  /\ TextLen < Len(held[q])
                 /\ b = Prefix(held[q], Len(held[q]) - TextLen) \o ErrorText
      <4>1. n + TextLen = Len(held[q])
        BY <1>2, <2>1, <3>2
      <4>2. n # 0
        BY <1>2, <3>2, NoPrefix
      <4>3. TextLen < Len(held[q]) /\ n = Len(held[q]) - TextLen
        BY <1>2, <4>1, <4>2, ErrorTextType
      <4> QED
        BY <1>2, <2>1, <4>3
    <3> QED
      BY <1>3, <3>1, <3>2 DEF Has, Answered
  <2>2. CASE b = body[q] /\ Len(b) = Len(held[q])
    <3>1. n = Size[c] /\ Bytes(c) \in Seq(Byte) /\ Len(Bytes(c)) = Size[c]
      BY <1>2, <2>2, BytesType
    <3>2. b = Bytes(c) /\ b = held[q]
      BY <1>2, <2>2, <3>1, WholePrefix
    <3> QED
      BY <1>3, <3>2 DEF Has, Answered
  <2> QED
    BY <2>1, <2>2
<1> QED
  BY <1>3, <1>4, <1>5, <1>6 DEF Kept

LEMMA BreakRelayKeeps ==
    ASSUME TypeOK, NEW q \in Calls, Kept(q), BreakRelay(q)
    PROVE  TypeOK' /\ OnlyCall(q) /\ Kept(q)'
<1>1. /\ pc[q] = "relay" /\ UNCHANGED <<bucket, kind, file, held, sent, disk>>
      /\ DeclaresLength
  BY DEF BreakRelay, DeclaresLength, LengthSet
<1>2. RestTyped
  BY <1>1, FaultType DEF BreakRelay, TypeOK, RestTyped
<1>3. CASE body[q] = <<>>
  <2>1. pc' = [pc EXCEPT ![q] = "failed"] /\ UNCHANGED body /\ "failed" \in States
    BY <1>3 DEF BreakRelay, Goto, States
  <2> QED
    BY <1>1, <1>2, <2>1, MoveKeeps DEF Checking, Saving
<1>4. CASE body[q] # <<>>
  <2> DEFINE b == WithText(q)
             s == IF LooksComplete(q, b) THEN "ok" ELSE "cut"
  <2>1. Becomes(q, s, kind[q], file[q], held[q], sent[q], b)
    BY <1>1, <1>4, CallType DEF BreakRelay, Goto, Becomes
  <2>2. b \in {body[q], body[q] \o ErrorText}
    BY DEF WithText
  <2>3. s \in {"ok", "cut"} /\ (s = "ok" => Len(b) = Len(held[q]))
    BY <1>1 DEF LooksComplete
  <2> HIDE DEF b, s
  <2> QED
    BY <1>1, <1>2, <1>4, <2>1, <2>2, <2>3, TextKeeps
<1> QED
  BY <1>3, <1>4

LEMMA TimesOutKeeps ==
    ASSUME TypeOK, NEW q \in Calls, Kept(q), TimesOut(q)
    PROVE  TypeOK' /\ OnlyCall(q) /\ Kept(q)'
<1>1. RestTyped /\ "cut" \in States
  BY DEF TimesOut, TypeOK, RestTyped, States
<1> QED
  BY <1>1, MoveKeeps DEF TimesOut, Goto, Checking, Saving

LEMMA StreamHlsKeeps ==
    ASSUME TypeOK, NEW q \in Calls, Kept(q), NEW f \in Files, StreamHls(q, f)
    PROVE  TypeOK' /\ OnlyCall(q) /\ Kept(q)'
<1>1. /\ pc[q] = "idle" /\ held[q] = <<>> /\ sent[q] = 0 /\ body[q] = <<>>
      /\ kind' = [kind EXCEPT ![q] = "hls"] /\ file' = [file EXCEPT ![q] = f]
      /\ UNCHANGED <<bucket, sent, body, disk>>
  BY DEF StreamHls, Kept, Placed
<1>2. RestTyped
  BY <1>1, FaultType DEF StreamHls, TypeOK, RestTyped
<1>3. "hls" \in Kinds /\ "copy" \in States /\ "failed" \in States /\ "hls" # None
  BY DownloadsAssumption DEF Kinds, States
<1>4. CASE bucket[f] # None /\ held' = [held EXCEPT ![q] = Bytes(bucket[f])] /\ Goto(q, "copy")
  <2>1. PICK c \in Contents : bucket[f] = c
    BY <1>4 DEF TypeOK
  <2>2. Bytes(c) \in Seq(Byte) /\ Bytes(c) # <<>> /\ 0 < Len(Bytes(c)) + ChunkSize
    BY BytesType, DownloadsAssumption
  <2>3. Becomes(q, "copy", "hls", f, Bytes(c), 0, <<>>)
    BY <1>1, <1>4, <2>1, CallType DEF Becomes, Goto
  <2>4. TypeOK' /\ OnlyCall(q) /\ Has(q, "copy", "hls", f, Bytes(c), 0, <<>>)
    BY <1>2, <1>3, <2>2, <2>3, EmptyIsSeq, CallTypes
  <2>5. Placed(q)'
    BY <1>3, <2>2, <2>4 DEF Has, Placed, Checking, Saving
  <2>6. Passed(q)' /\ Answered(q)'
    BY <2>4 DEF Has, Passed, Answered, Saving
  <2> QED
    BY <2>4, <2>5, <2>6 DEF Kept
<1>5. CASE Goto(q, "failed") /\ UNCHANGED held
  <2>1. Becomes(q, "failed", "hls", f, held[q], sent[q], body[q])
    BY <1>1, <1>5, CallType DEF Becomes, Goto
  <2>2. TypeOK' /\ OnlyCall(q) /\ Has(q, "failed", "hls", f, held[q], sent[q], body[q])
    BY <1>2, <1>3, <2>1, CallType, CallTypes
  <2>3. Placed(q)'
    BY <1>1, <1>3, <2>2 DEF Has, Placed, Checking, Saving
  <2>4. Passed(q)' /\ Answered(q)'
    BY <2>2 DEF Has, Passed, Answered, Saving
  <2> QED
    BY <2>2, <2>3, <2>4 DEF Kept
<1> QED
  BY <1>4, <1>5 DEF StreamHls

\* The text of an error at the end of an HLS file.
LEMMA EndKeeps ==
    ASSUME TypeOK, RestTyped, NEW q \in Calls, Kept(q), pc[q] \in {"copy", "relay"},
           kind[q] = "hls", EndWithError(q), UNCHANGED <<kind, file, held, sent>>
    PROVE  TypeOK' /\ OnlyCall(q) /\ Kept(q)'
<1> DEFINE b == body[q] \o ErrorText
<1>1. Becomes(q, "ok", kind[q], file[q], held[q], sent[q], b)
  BY CallType DEF EndWithError, Goto, Appended, Becomes
<1>2. kind[q] # "browser" /\ b \in {body[q], body[q] \o ErrorText}
  OBVIOUS
<1> HIDE DEF b
<1> QED
  BY <1>1, <1>2, TextKeeps DEF b

LEMMA HlsKeeps ==
    ASSUME TypeOK, NEW q \in Calls, Kept(q), Hls(q)
    PROVE  TypeOK' /\ OnlyCall(q) /\ Kept(q)'
<1>1. /\ pc[q] \in {"copy", "relay"} /\ kind[q] = "hls"
      /\ UNCHANGED <<bucket, kind, file, held, sent, disk>>
  BY DEF Hls, CopyHls, BreakHls, Kept, Placed
<1>2. RestTyped
  BY <1>1, FaultType DEF Hls, CopyHls, BreakHls, TypeOK, RestTyped
<1>3. CASE EndWithError(q)
  BY <1>1, <1>2, <1>3, EndKeeps
<1>4. CASE pc[q] = "copy" /\ Goto(q, "relay") /\ UNCHANGED body
  <2>1. "relay" \in States
    BY DEF States
  <2> QED
    BY <1>1, <1>2, <1>4, <2>1, MoveKeeps DEF Goto, Checking, Saving
<1> QED
  BY <1>3, <1>4 DEF Hls, CopyHls, BreakHls

LEMMA BreakCheckKeeps ==
    ASSUME TypeOK, NEW q \in Calls, Kept(q), BreakCheck(q)
    PROVE  TypeOK' /\ OnlyCall(q) /\ Kept(q)'
<1>1. RestTyped /\ pc[q] = "relay" /\ kind[q] = "check" /\ UNCHANGED <<kind, file, held, sent, body>>
  BY FaultType DEF BreakCheck, TypeOK, RestTyped
<1>2. PICK s \in {"safe", "failed"} : pc' = [pc EXCEPT ![q] = s]
  BY DEF BreakCheck, Goto
<1>3. s \in States /\ s \notin {"idle", "fetch", "copy", "ok", "relay"} \cup Saving
  BY DEF States, Saving
<1> QED
  BY <1>1, <1>2, <1>3, MoveKeeps

\* One version over another.
LEMMA OverType ==
    ASSUME NEW new \in Seq(Byte), NEW old \in Seq(Byte)
    PROVE  Over(new, old) \in Seq(Byte)
<1>1. Len(new) \in Nat /\ Len(old) \in Nat
  BY LenProperties
<1>2. CASE Len(old) > Len(new)
  <2>1. \A i \in Len(new) + 1..Len(old) : old[i] \in Byte
    BY <1>1, ElementOfSeq
  <2>2. SubSeq(old, Len(new) + 1, Len(old)) \in Seq(Byte)
    BY <1>1, <2>1, SubSeqProperties
  <2> QED
    BY <1>2, <2>2, ConcatType DEF Over
<1>3. CASE ~(Len(old) > Len(new))
  BY <1>3 DEF Over
<1> QED
  BY <1>2, <1>3

LEMMA TruncateKeeps ==
    ASSUME TypeOK, NEW q \in Calls, Kept(q), Truncate(q)
    PROVE  TypeOK' /\ OnlyCall(q) /\ Kept(q)'
<1>1. /\ pc[q] = "save" /\ pc[q] \in Saving /\ pc[q] \in Checking
      /\ UNCHANGED <<bucket, kind, file, held, sent, body, faults>>
  BY DEF Truncate, Saving, Checking
<1>2. RestTyped
  BY <1>1, EmptyIsSeq DEF Truncate, TypeOK, RestTyped
<1>3. kind[q] = "check" /\ "write" \in States
  BY <1>1 DEF Kept, Placed, States
<1> QED
  BY <1>1, <1>2, <1>3, MoveKeeps DEF Truncate, Goto

LEMMA SaveKeeps ==
    ASSUME TypeOK, NEW q \in Calls, Kept(q), Opened(q), Save(q)
    PROVE  TypeOK' /\ OnlyCall(q) /\ Kept(q)'
<1>1. /\ pc[q] \in {"write", "detached"} /\ pc[q] \in Saving /\ pc[q] \in Checking
      /\ UNCHANGED <<bucket, kind, file, held, sent, body, faults>>
  BY DEF Save, Saving, Checking
<1>2. file[q] \in Files
  BY <1>1 DEF Kept, Placed
<1>3. disk' \in [Files -> Seq(Byte) \cup {None}]
  <2>1. CASE pc[q] = "write" /\ disk' = [disk EXCEPT ![Path(q)] = Over(body[q], disk[Path(q)])]
    <3>1. disk[file[q]] \in Seq(Byte)
      BY <1>2, <2>1 DEF Opened, TypeOK
    <3>2. Over(body[q], disk[file[q]]) \in Seq(Byte)
      BY <3>1, CallType, OverType
    <3> QED
      BY <1>2, <2>1, <3>2 DEF Path, TypeOK
  <2>2. CASE UNCHANGED disk
    BY <2>2 DEF TypeOK
  <2> QED
    BY <2>1, <2>2 DEF Save
<1>4. RestTyped
  BY <1>1, <1>3 DEF TypeOK, RestTyped
<1>5. kind[q] = "check" /\ "look" \in States
  BY <1>1 DEF Kept, Placed, States
<1> QED
  BY <1>1, <1>4, <1>5, MoveKeeps DEF Save, Goto

LEMMA SaveFailsKeeps ==
    ASSUME TypeOK, NEW q \in Calls, Kept(q), Opened(q), SaveFails(q)
    PROVE  TypeOK' /\ OnlyCall(q) /\ Kept(q)'
<1>1. /\ pc[q] \in Saving /\ pc[q] \in Checking
      /\ UNCHANGED <<bucket, kind, file, held, sent, body>>
  BY DEF SaveFails, Saving, Checking
<1>2. file[q] \in Files /\ kind[q] = "check"
  BY <1>1 DEF Kept, Placed, Saving
<1>3. disk' \in [Files -> Seq(Byte) \cup {None}]
  <2>1. ASSUME pc[q] = "write", NEW n \in 0..Len(body[q]),
               disk' = [disk EXCEPT ![Path(q)] = Over(SubSeq(body[q], 1, n), disk[Path(q)])]
        PROVE  disk' \in [Files -> Seq(Byte) \cup {None}]
    <3>1. disk[file[q]] \in Seq(Byte)
      BY <1>2, <2>1 DEF Opened, TypeOK
    <3>2. SubSeq(body[q], 1, n) \in Seq(Byte)
      BY CallType, PrefixType DEF Prefix
    <3>3. Over(SubSeq(body[q], 1, n), disk[file[q]]) \in Seq(Byte)
      BY <3>1, <3>2, OverType
    <3> QED
      BY <1>2, <2>1, <3>3 DEF Path, TypeOK
  <2>2. CASE UNCHANGED disk
    BY <2>2 DEF TypeOK
  <2> QED
    BY <2>1, <2>2 DEF SaveFails
<1>4. RestTyped
  BY <1>1, <1>3, FaultType DEF SaveFails, TypeOK, RestTyped
<1>5. PICK s \in {"safe", "failed"} : pc' = [pc EXCEPT ![q] = s]
  BY DEF SaveFails, Goto
<1>6. s \in States /\ s \notin {"idle", "fetch", "copy", "ok", "relay"} \cup Saving
      /\ pc[q] # "idle"
  BY <1>1 DEF States, Saving
<1> QED
  BY <1>1, <1>2, <1>4, <1>5, <1>6, MoveKeeps

LEMMA LookKeeps ==
    ASSUME TypeOK, NEW q \in Calls, Kept(q), Look(q)
    PROVE  TypeOK' /\ OnlyCall(q) /\ Kept(q)'
<1>1. /\ pc[q] = "look" /\ pc[q] \in Saving /\ pc[q] \in Checking
      /\ UNCHANGED <<bucket, kind, file, held, sent, body, disk>>
  BY DEF Look, Saving, Checking
<1>2. RestTyped
  BY <1>1, FaultType DEF Look, TypeOK, RestTyped
<1>3. PICK s \in {"delete", "safe"} : pc' = [pc EXCEPT ![q] = s]
  BY DEF Look, Goto
<1>4. kind[q] = "check" /\ s \in States /\ s \notin {"idle", "fetch", "copy", "ok", "relay"}
  BY <1>1 DEF Kept, Placed, States
<1> QED
  BY <1>1, <1>2, <1>3, <1>4, MoveKeeps

\* os.remove also detaches the copy of those who write it.
DeletedAt(q, p) ==
    /\ kind'[p] = kind[p] /\ file'[p] = file[p]
    /\ held'[p] = held[p] /\ sent'[p] = sent[p] /\ body'[p] = body[p]
    /\ \/ pc'[p] = pc[p] /\ (pc[p] = "write" => file[p] # file[q])
       \/ pc[p] = "write" /\ pc'[p] = "detached" /\ file[p] = file[q]

LEMMA DeleteKeeps ==
    ASSUME TypeOK, NEW q \in Calls, \A p \in Calls : Kept(p), Delete(q)
    PROVE  /\ TypeOK' /\ \A p \in Calls : Kept(p)'
           /\ \A p \in Calls \ {q} : DeletedAt(q, p)
           /\ pc'[q] = IF disk[file[q]] = None THEN "failed" ELSE "explicit"
           /\ \A f \in Files : disk'[f] = IF f = file[q] THEN None ELSE disk[f]
           /\ pc[q] = "delete" /\ kind[q] = "check" /\ file[q] \in Files
           /\ UNCHANGED <<kind, file, held, faults>>
<1>1. /\ pc[q] = "delete" /\ disk' = [disk EXCEPT ![file[q]] = None]
      /\ pc' = [p \in Calls |->
                  IF p = q THEN IF disk[file[q]] = None THEN "failed" ELSE "explicit"
                  ELSE IF pc[p] = "write" /\ file[p] = file[q] THEN "detached" ELSE pc[p]]
      /\ UNCHANGED <<bucket, kind, file, held, sent, body, faults>>
  BY DEF Delete, Path
<1>2. /\ "failed" \in States /\ "explicit" \in States /\ "detached" \in States
      /\ "write" \in Saving /\ "detached" \in Saving /\ "delete" \in Saving
  BY DEF States, Saving
<1>3. pc[q] = "delete" /\ kind[q] = "check" /\ file[q] \in Files
  BY <1>1, <1>2 DEF Kept, Placed, Checking
<1>4. TypeOK'
  <2>1. pc' \in [Calls -> States]
    BY <1>1, <1>2 DEF TypeOK
  <2>2. disk' \in [Files -> Seq(Byte) \cup {None}]
    BY <1>1 DEF TypeOK
  <2> QED
    BY <1>1, <2>1, <2>2 DEF TypeOK
<1>5. \A p \in Calls \ {q} : DeletedAt(q, p)
  BY <1>1 DEF DeletedAt
<1>6. pc'[q] = IF disk[file[q]] = None THEN "failed" ELSE "explicit"
  BY <1>1
<1>7. \A f \in Files : disk'[f] = IF f = file[q] THEN None ELSE disk[f]
  BY <1>1, <1>3 DEF TypeOK
<1>8. \A p \in Calls : Kept(p)'
  <2> SUFFICES ASSUME NEW p \in Calls PROVE Kept(p)'
    OBVIOUS
  <2>1. CASE p # q /\ pc'[p] = pc[p]
    BY <1>1, <2>1, OthersKept
  <2>2. CASE p # q /\ pc[p] = "write" /\ pc'[p] = "detached"
    <3>1. Placed(p)'
      BY <1>1, <2>2 DEF Kept, Placed, Checking, Saving
    <3>2. Passed(p)'
      BY <1>1, <1>2, <2>2 DEF Kept, Passed
    <3>3. Answered(p)'
      BY <2>2 DEF Answered
    <3> QED
      BY <3>1, <3>2, <3>3 DEF Kept
  <2>3. CASE p = q
    <3>1. pc'[q] \in {"failed", "explicit"}
      BY <1>6
    <3>2. Placed(q)'
      BY <1>1, <1>3, <3>1 DEF Kept, Placed, Checking, Saving
    <3>3. Passed(q)' /\ Answered(q)'
      BY <3>1 DEF Passed, Answered, Saving
    <3> QED
      BY <2>3, <3>2, <3>3 DEF Kept
  <2> QED
    BY <1>5, <2>1, <2>2, <2>3 DEF DeletedAt
<1> QED
  BY <1>1, <1>3, <1>4, <1>5, <1>6, <1>7, <1>8

-----------------------------------------------------------------------------
(* The local copies, and the verdicts that depend on them.                 *)

\* A request is made once, faults are not undone, and a call touches only the
\* copy of the file that it checks.
Local(q) ==
    /\ kind[q] # None => kind'[q] = kind[q] /\ file'[q] = file[q]
    /\ faults' = 0 => faults = 0
    /\ \A f \in Files : disk'[f] = disk[f] \/ (kind[q] = "check" /\ file[q] = f)

\* A check that is alone was alone.
LEMMA AloneBefore ==
    ASSUME NEW q \in Calls, NEW p \in Calls, file'[p] = file[p],
           \A r \in Calls \ {q} : kind'[r] = kind[r] /\ file'[r] = file[r],
           Local(q), Alone(p)'
    PROVE  Alone(p)
<1> SUFFICES ASSUME NEW r \in Calls \ {p}, kind[r] = "check" PROVE file[r] # file[p]
  BY DEF Alone
<1>1. kind'[r] = "check" /\ file'[r] = file[r]
  BY DownloadsAssumption DEF Local, Kinds
<1> QED
  BY <1>1 DEF Alone

LEMMA OthersFounded ==
    ASSUME NEW q \in Calls, NEW p \in Calls \ {q}, Kept(p), Opened(p), Founded(p),
           Kept(q), Local(q), OnlyCall(q),
           \A f \in Files : disk[f] # None => disk'[f] # None
    PROVE  Opened(p)' /\ Founded(p)'
<1>1. /\ pc'[p] = pc[p] /\ kind'[p] = kind[p] /\ file'[p] = file[p] /\ held'[p] = held[p]
      /\ \A r \in Calls \ {q} : kind'[r] = kind[r] /\ file'[r] = file[r]
  BY DEF OnlyCall
<1>2. kind[p] = "check" => file[p] \in Files
  BY DownloadsAssumption DEF Kept, Placed, Kinds
<1>3. Opened(p)'
  <2>1. pc[p] = "write" => kind[p] = "check"
    BY DEF Kept, Placed, Checking, Saving
  <2> QED
    BY <1>1, <1>2, <2>1 DEF Opened
<1>4. ASSUME kind[p] = "check", faults' = 0, held[p] # <<>>, Alone(p)'
      PROVE  disk'[file[p]] = disk[file[p]] /\ faults = 0 /\ Alone(p)
  <2>1. Alone(p) /\ faults = 0
    BY <1>1, <1>4, AloneBefore DEF Local
  <2>2. ~(kind[q] = "check" /\ file[q] = file[p])
    BY <2>1 DEF Alone
  <2> QED
    BY <1>2, <1>4, <2>1, <2>2 DEF Local
<1>5. Founded(p)'
  BY <1>1, <1>4 DEF Founded
<1> QED
  BY <1>3, <1>5

\* What a check that is alone finds is what it was given.
LEMMA StillFounded ==
    ASSUME NEW q \in Calls, Founded(q), Local(q), OnlyCall(q),
           kind[q] = "check" /\ held[q] # <<>>, UNCHANGED <<kind, file, held>>,
           faults = 0 /\ Alone(q) =>
              /\ pc'[q] \in {"relay"} \cup (Checking \ {"detached"})
              /\ pc'[q] = "write" => disk'[file[q]] = <<>>
              /\ pc'[q] \in {"look", "delete"} => disk'[file[q]] = held[q]
              /\ pc'[q] \in {"delete", "explicit"} => Shows(held[q])
              /\ pc'[q] = "safe" => ~Shows(held[q])
    PROVE  Founded(q)'
<1>1. Alone(q)' => Alone(q)
  BY DEF Alone
<1>2. faults' = 0 => faults = 0
  BY DEF Local
<1> QED
  BY <1>1, <1>2 DEF Founded, Shows

\* What is left to show of a step at one call.
LEMMA CallStep ==
    ASSUME Inv, NEW q \in Calls, TypeOK' /\ OnlyCall(q) /\ Kept(q)', Local(q),
           \A f \in Files : disk[f] # None => disk'[f] # None,
           Opened(q)', Founded(q)'
    PROVE  Inv'
<1> SUFFICES ASSUME NEW p \in Calls PROVE Kept(p)' /\ Opened(p)' /\ Founded(p)'
  BY DEF Inv
<1>1. Kept(p) /\ Opened(p) /\ Founded(p) /\ Kept(q)
  BY DEF Inv
<1>2. CASE p = q
  BY <1>2
<1>3. CASE p # q
  BY <1>1, <1>3, OthersKept, OthersFounded DEF OnlyCall
<1> QED
  BY <1>2, <1>3

\* A step that changes no local copy and leaves a check nothing to explain.
LEMMA QuietStep ==
    ASSUME Inv, NEW q \in Calls, TypeOK' /\ OnlyCall(q) /\ Kept(q)', UNCHANGED disk,
           kind[q] # None => kind'[q] = kind[q] /\ file'[q] = file[q],
           faults' = 0 => faults = 0,
           pc'[q] # "write",
           \/ kind'[q] # "check" \/ faults' # 0 \/ held'[q] = <<>>
           \/ pc'[q] \in {"relay", "save"}
    PROVE  Inv'
<1>1. Local(q) /\ Opened(q)'
  BY DEF Local, Opened
<1>2. Founded(q)'
  BY DEF Founded, Checking, Saving
<1> QED
  BY <1>1, <1>2, CallStep

LEMMA FaultsStay ==
    ASSUME TypeOK, Fault \/ UNCHANGED faults
    PROVE  faults' = 0 => faults = 0
BY FaultType

LEMMA AskSafe ==
    ASSUME Inv, NEW q \in Calls, NEW f \in Files,
           NEW k \in {"browser", "check"}, Ask(q, f, k)
    PROVE  Inv'
<1>1. TypeOK' /\ OnlyCall(q) /\ Kept(q)'
  BY AskKeeps DEF Inv
<1>2. /\ kind[q] = None /\ pc'[q] = "fetch" /\ held'[q] = <<>>
      /\ UNCHANGED <<disk, faults>>
  BY DEF Inv, TypeOK, Kept, Placed, Ask, Goto
<1> QED
  BY <1>1, <1>2, QuietStep

LEMMA StreamHlsSafe ==
    ASSUME Inv, NEW q \in Calls, NEW f \in Files, StreamHls(q, f)
    PROVE  Inv'
<1>1. TypeOK' /\ OnlyCall(q) /\ Kept(q)'
  BY StreamHlsKeeps DEF Inv
<1>2. /\ kind[q] = None /\ kind'[q] = "hls" /\ pc'[q] \in {"copy", "failed"}
      /\ UNCHANGED disk
  BY DEF Inv, TypeOK, Kept, Placed, StreamHls, Goto
<1>3. faults' = 0 => faults = 0
  BY FaultsStay DEF StreamHls, Inv
<1> QED
  BY <1>1, <1>2, <1>3, QuietStep

LEMMA FetchSafe ==
    ASSUME Inv, NEW q \in Calls, Fetch(q)
    PROVE  Inv'
<1>1. TypeOK' /\ OnlyCall(q) /\ Kept(q)'
  BY FetchKeeps DEF Inv
<1>2. UNCHANGED <<kind, file, disk>> /\ held[q] = <<>>
  BY DEF Fetch, Inv, Kept, Placed
<1>3. faults' = 0 => faults = 0
  BY FaultsStay DEF Fetch, Inv
<1>4. \/ pc'[q] = "relay"
      \/ pc'[q] \in {"failed", "safe"} /\ held' = held
  BY DEF Fetch, Goto, Inv, TypeOK
<1> QED
  BY <1>1, <1>2, <1>3, <1>4, QuietStep

LEMMA RelaySafe ==
    ASSUME Inv, NEW q \in Calls, Relay(q)
    PROVE  Inv'
<1>1. TypeOK' /\ OnlyCall(q) /\ Kept(q)'
  BY RelayKeeps DEF Inv
<1>2. UNCHANGED <<kind, file, disk, faults>> /\ pc'[q] \in {"relay", "save"}
  BY DEF Relay, Goto, Inv, TypeOK
<1> QED
  BY <1>1, <1>2, QuietStep

LEMMA EofSafe ==
    ASSUME Inv, NEW q \in Calls, Eof(q)
    PROVE  Inv'
<1>1. TypeOK' /\ OnlyCall(q) /\ Kept(q)'
  BY EofKeeps DEF Inv
<1>2. /\ UNCHANGED <<kind, file, disk, faults>>
      /\ pc'[q] = IF kind[q] = "check" THEN "save" ELSE "ok"
  BY DEF Eof, Goto, Inv, TypeOK
<1> QED
  BY <1>1, <1>2, QuietStep

LEMMA BreakRelaySafe ==
    ASSUME Inv, NEW q \in Calls, BreakRelay(q)
    PROVE  Inv'
<1>1. TypeOK' /\ OnlyCall(q) /\ Kept(q)'
  BY BreakRelayKeeps DEF Inv
<1>2. UNCHANGED <<kind, file, disk>> /\ kind[q] = "browser"
  BY DEF BreakRelay
<1>3. faults' = 0 => faults = 0
  BY FaultsStay DEF BreakRelay, Inv
<1>4. pc'[q] # "write"
  BY DEF BreakRelay, Goto, Inv, TypeOK
<1> QED
  BY <1>1, <1>2, <1>3, <1>4, QuietStep

LEMMA TimesOutSafe ==
    ASSUME Inv, NEW q \in Calls, TimesOut(q)
    PROVE  Inv'
<1>1. TypeOK' /\ OnlyCall(q) /\ Kept(q)'
  BY TimesOutKeeps DEF Inv
<1>2. UNCHANGED <<kind, file, disk, faults>> /\ kind[q] # "check" /\ pc'[q] = "cut"
  BY DEF TimesOut, Goto, Inv, TypeOK
<1> QED
  BY <1>1, <1>2, QuietStep

LEMMA HlsSafe ==
    ASSUME Inv, NEW q \in Calls, Hls(q)
    PROVE  Inv'
<1>1. TypeOK' /\ OnlyCall(q) /\ Kept(q)'
  BY HlsKeeps DEF Inv
<1>2. UNCHANGED <<kind, file, disk>> /\ kind[q] = "hls"
  BY DEF Hls, CopyHls, BreakHls, Inv, Kept, Placed
<1>3. faults' = 0 => faults = 0
  BY FaultsStay DEF Hls, CopyHls, BreakHls, Inv
<1>4. pc'[q] # "write"
  BY DEF Hls, CopyHls, BreakHls, EndWithError, Goto, Inv, TypeOK
<1> QED
  BY <1>1, <1>2, <1>3, <1>4, QuietStep

LEMMA BreakCheckSafe ==
    ASSUME Inv, NEW q \in Calls, BreakCheck(q)
    PROVE  Inv'
<1>1. TypeOK' /\ OnlyCall(q) /\ Kept(q)'
  BY BreakCheckKeeps DEF Inv
<1>2. UNCHANGED <<kind, file, disk>> /\ faults' # 0
  BY FaultType DEF BreakCheck, Inv
<1>3. pc'[q] # "write"
  BY DEF BreakCheck, Goto, Inv, TypeOK
<1> QED
  BY <1>1, <1>2, <1>3, QuietStep

LEMMA TruncateSafe ==
    ASSUME Inv, NEW q \in Calls, Truncate(q)
    PROVE  Inv'
<1>1. TypeOK' /\ OnlyCall(q) /\ Kept(q)'
  BY TruncateKeeps DEF Inv
<1>2. /\ pc[q] = "save" /\ pc'[q] = "write" /\ UNCHANGED <<kind, file, held, faults>>
      /\ disk' = [disk EXCEPT ![file[q]] = <<>>]
  BY DEF Truncate, Goto, Path, Inv, TypeOK
<1>3. kind[q] = "check" /\ file[q] \in Files /\ held[q] # <<>>
  BY <1>2 DEF Inv, Kept, Placed, Checking, Saving
<1>4. /\ disk'[file[q]] = <<>> /\ <<>> # None
      /\ \A f \in Files : f # file[q] => disk'[f] = disk[f]
  BY <1>2, <1>3, EmptyIsSeq, DownloadsAssumption DEF Inv, TypeOK
<1>5. Local(q) /\ Opened(q)'
  BY <1>2, <1>3, <1>4 DEF Local, Opened
<1>6. Founded(q)'
  BY <1>1, <1>2, <1>3, <1>4, <1>5, StillFounded DEF Inv, Checking, Saving
<1> QED
  BY <1>1, <1>4, <1>5, <1>6, CallStep

LEMMA OverEmpty ==
    ASSUME NEW new \in Seq(Byte)
    PROVE  Over(new, <<>>) = new
BY EmptyIsSeq, LenProperties DEF Over

LEMMA SaveSafe ==
    ASSUME Inv, NEW q \in Calls, Save(q)
    PROVE  Inv'
<1>1. TypeOK' /\ OnlyCall(q) /\ Kept(q)'
  BY SaveKeeps DEF Inv
<1>2. /\ pc[q] \in {"write", "detached"} /\ pc'[q] = "look"
      /\ UNCHANGED <<kind, file, held, faults>>
      /\ pc[q] = "write" => disk' = [disk EXCEPT ![file[q]] = Over(body[q], disk[file[q]])]
      /\ pc[q] = "detached" => UNCHANGED disk
  BY DEF Save, Goto, Path, Inv, TypeOK
<1>3. kind[q] = "check" /\ file[q] \in Files /\ held[q] # <<>> /\ body[q] = held[q]
  BY <1>2 DEF Inv, Kept, Placed, Passed, Checking, Saving
<1>4. /\ pc[q] = "write" => disk'[file[q]] = Over(held[q], disk[file[q]])
      /\ \A f \in Files : f # file[q] => disk'[f] = disk[f]
      /\ pc[q] = "write" => disk[file[q]] # None
  BY <1>2, <1>3 DEF Inv, TypeOK, Opened
<1>5. \A f \in Files : disk[f] # None => disk'[f] # None
  BY <1>1, <1>2, <1>3, <1>4, CallType, OverType, DownloadsAssumption DEF Inv, TypeOK
<1>6. Local(q) /\ Opened(q)'
  BY <1>2, <1>3, <1>4 DEF Local, Opened
<1>7. faults = 0 /\ Alone(q) => disk'[file[q]] = held[q]
  <2> HAVE faults = 0 /\ Alone(q)
  <2>1. pc[q] = "write" /\ disk[file[q]] = <<>>
    BY <1>2, <1>3 DEF Inv, Founded
  <2> QED
    BY <1>4, <2>1, CallType, OverEmpty DEF Inv
<1>8. Founded(q)'
  BY <1>1, <1>2, <1>3, <1>6, <1>7, StillFounded DEF Inv, Checking, Saving
<1> QED
  BY <1>1, <1>5, <1>6, <1>8, CallStep

LEMMA SaveFailsSafe ==
    ASSUME Inv, NEW q \in Calls, SaveFails(q)
    PROVE  Inv'
<1>1. TypeOK' /\ OnlyCall(q) /\ Kept(q)'
  BY SaveFailsKeeps DEF Inv
<1>2. /\ pc[q] \in {"save", "write", "detached"} /\ pc'[q] \in {"safe", "failed"}
      /\ UNCHANGED <<kind, file>> /\ faults' # 0
  BY FaultType DEF SaveFails, Goto, Inv, TypeOK
<1>3. kind[q] = "check"
  BY <1>2 DEF Inv, Kept, Placed, Checking, Saving
<1>4. \A f \in Files : f # file[q] => disk'[f] = disk[f]
  BY DEF SaveFails, Path, Inv, TypeOK
<1>5. \A f \in Files : disk[f] # None => disk'[f] # None
  <2>1. CASE pc[q] = "write"
    <3>1. disk[file[q]] # None /\ disk[file[q]] \in Seq(Byte) /\ file[q] \in Files
      BY <1>2, <1>3, <2>1 DEF Inv, Opened, TypeOK, Kept, Placed
    <3>2. PICK n \in 0..Len(body[q]) :
             disk' = [disk EXCEPT ![file[q]] = Over(SubSeq(body[q], 1, n), disk[file[q]])]
      BY <2>1 DEF SaveFails, Path
    <3>3. SubSeq(body[q], 1, n) \in Seq(Byte)
      BY CallType, PrefixType DEF Prefix, Inv
    <3>4. Over(SubSeq(body[q], 1, n), disk[file[q]]) # None
      BY <3>1, <3>3, OverType, DownloadsAssumption
    <3> QED
      BY <1>4, <3>1, <3>2, <3>4 DEF Inv, TypeOK
  <2>2. CASE pc[q] # "write"
    BY <2>2 DEF SaveFails
  <2> QED
    BY <2>1, <2>2
<1>6. Local(q) /\ Opened(q)' /\ Founded(q)'
  BY <1>2, <1>3, <1>4 DEF Local, Opened, Founded
<1> QED
  BY <1>1, <1>5, <1>6, CallStep

LEMMA LookSafe ==
    ASSUME Inv, NEW q \in Calls, Look(q)
    PROVE  Inv'
<1> DEFINE found == disk[file[q]] # None /\ Shows(disk[file[q]])
<1>1. TypeOK' /\ OnlyCall(q) /\ Kept(q)'
  BY LookKeeps DEF Inv
<1>2. /\ pc[q] = "look" /\ UNCHANGED <<kind, file, held, disk>>
      /\ \/ found /\ pc'[q] = "delete" /\ UNCHANGED faults
         \/ ~found /\ pc'[q] = "safe" /\ UNCHANGED faults
         \/ found /\ Fault /\ pc'[q] = "safe"
  BY DEF Look, Goto, Path, Inv, TypeOK
<1>3. kind[q] = "check" /\ held[q] # <<>>
  BY <1>2 DEF Inv, Kept, Placed, Checking, Saving
<1>4. faults' = 0 => faults = 0
  BY <1>2, FaultsStay DEF Inv
<1>5. Local(q) /\ Opened(q)'
  BY <1>2, <1>4 DEF Local, Opened
<1>6. faults = 0 /\ Alone(q) => (found <=> Shows(held[q]))
  <2> HAVE faults = 0 /\ Alone(q)
  <2>1. disk[file[q]] = held[q]
    BY <1>2, <1>3 DEF Inv, Founded
  <2>2. held[q] # None
    BY CallType, DownloadsAssumption DEF Inv
  <2> QED
    BY <2>1, <2>2
<1>7. CASE Fault /\ pc'[q] = "safe"
  BY <1>1, <1>2, <1>4, <1>7, FaultType, QuietStep DEF Inv
<1>8. CASE UNCHANGED faults /\ pc'[q] = IF found THEN "delete" ELSE "safe"
  <2>1. faults = 0 /\ Alone(q) => pc[q] = "look" /\ disk'[file[q]] = held[q]
    BY <1>2, <1>3 DEF Inv, Founded
  <2>2. Founded(q)'
    <3> HIDE DEF found
    <3>1. faults = 0 /\ Alone(q) =>
             /\ pc'[q] \in {"relay"} \cup (Checking \ {"detached"})
             /\ pc'[q] = "write" => disk'[file[q]] = <<>>
             /\ pc'[q] \in {"look", "delete"} => disk'[file[q]] = held[q]
             /\ pc'[q] \in {"delete", "explicit"} => Shows(held[q])
             /\ pc'[q] = "safe" => ~Shows(held[q])
      BY <1>6, <1>8, <2>1 DEF Checking, Saving
    <3> QED
      BY <1>1, <1>2, <1>3, <1>5, <3>1, StillFounded DEF Inv
  <2> QED
    BY <1>1, <1>2, <1>5, <2>2, CallStep
<1> QED
  BY <1>2, <1>7, <1>8

LEMMA DeleteSafe ==
    ASSUME Inv, NEW q \in Calls, Delete(q)
    PROVE  Inv'
<1>1. /\ TypeOK' /\ \A p \in Calls : Kept(p)'
      /\ \A p \in Calls \ {q} : DeletedAt(q, p)
      /\ pc'[q] = IF disk[file[q]] = None THEN "failed" ELSE "explicit"
      /\ \A f \in Files : disk'[f] = IF f = file[q] THEN None ELSE disk[f]
      /\ pc[q] = "delete" /\ kind[q] = "check" /\ file[q] \in Files
      /\ UNCHANGED <<kind, file, held, faults>>
  BY DeleteKeeps DEF Inv
<1>2. \A p \in Calls : Opened(p)'
  <2> SUFFICES ASSUME NEW p \in Calls, pc'[p] = "write" PROVE disk'[file[p]] # None
    BY <1>1 DEF Opened
  <2>1. pc[p] = "write" /\ file[p] # file[q]
    BY <1>1 DEF DeletedAt
  <2>2. file[p] \in Files /\ disk[file[p]] # None
    BY <2>1 DEF Inv, Opened, Kept, Placed
  <2> QED
    BY <1>1, <2>1, <2>2
<1>3. \A p \in Calls : Founded(p)'
  <2> SUFFICES ASSUME NEW p \in Calls, kind[p] = "check", faults = 0, held[p] # <<>>, Alone(p)'
               PROVE  Founded(p)'
    BY <1>1 DEF Founded
  <2>1. Alone(p) /\ Founded(p)
    BY <1>1 DEF Alone, Inv
  <2>2. CASE p = q
    <3>1. disk[file[q]] = held[q] /\ Shows(held[q]) /\ held[q] # None
      BY <1>1, <2>1, <2>2, CallType, DownloadsAssumption DEF Founded, Inv
    <3>2. pc'[q] = "explicit"
      BY <1>1, <3>1
    <3> QED
      BY <1>1, <2>2, <3>1, <3>2 DEF Founded, Checking, Saving, Shows
  <2>3. CASE p # q
    <3>1. file[q] # file[p]
      BY <1>1, <2>1, <2>3 DEF Alone
    <3>2. pc'[p] = pc[p] /\ file[p] \in Files
      BY <1>1, <2>3, <3>1, DownloadsAssumption DEF DeletedAt, Inv, Kept, Placed, Kinds
    <3>3. disk'[file[p]] = disk[file[p]]
      BY <1>1, <3>1, <3>2
    <3> QED
      BY <1>1, <2>1, <3>2, <3>3 DEF Founded, Shows
  <2> QED
    BY <2>2, <2>3
<1> QED
  BY <1>1, <1>2, <1>3 DEF Inv

\* What happens in the bucket does not reach those who read from it.
LEMMA ChangeSafe ==
    ASSUME Inv, NEW f \in Files, Change(f)
    PROVE  Inv'
<1>1. UNCHANGED <<pc, kind, file, held, sent, body, disk, faults>>
  BY DEF Change, callVars
<1>2. TypeOK'
  BY <1>1 DEF Change, Inv, TypeOK
<1>3. \A p \in Calls : Kept(p)'
  BY <1>1, OthersKept DEF Inv
<1>4. \A p \in Calls : Opened(p)' /\ Founded(p)'
  BY <1>1 DEF Inv, Opened, Founded, Alone, Shows
<1> QED
  BY <1>2, <1>3, <1>4 DEF Inv

-----------------------------------------------------------------------------
LEMMA InitInv == Init => Inv
<1> SUFFICES ASSUME Init PROVE Inv
  OBVIOUS
<1> USE DEF Init
<1>1. TypeOK
  <2>1. /\ pc \in [Calls -> States] /\ kind \in [Calls -> Kinds \cup {None}]
        /\ file \in [Calls -> Files \cup {None}]
    BY DEF States
  <2>2. /\ held \in [Calls -> Seq(Byte)] /\ sent \in [Calls -> Nat]
        /\ body \in [Calls -> Seq(Byte)]
    BY EmptyIsSeq
  <2>3. \A q \in Calls : sent[q] < Len(held[q]) + ChunkSize
    BY EmptyIsSeq, DownloadsAssumption
  <2>4. disk \in [Files -> Seq(Byte) \cup {None}] /\ faults \in 0..MaxFaults
    BY DownloadsAssumption
  <2> QED
    BY <2>1, <2>2, <2>3, <2>4 DEF TypeOK
<1>2. ASSUME NEW q \in Calls PROVE Kept(q) /\ Opened(q) /\ Founded(q)
  <2>1. pc[q] = "idle" /\ kind[q] = None /\ held[q] = <<>> /\ sent[q] = 0 /\ body[q] = <<>>
    OBVIOUS
  <2>2. Kept(q)
    BY <2>1 DEF Kept, Placed, Passed, Answered, Checking, Saving
  <2>3. Opened(q) /\ Founded(q)
    BY <2>1 DEF Opened, Founded
  <2> QED
    BY <2>2, <2>3
<1> QED
  BY <1>1, <1>2 DEF Inv

LEMMA NextInv == Inv /\ [Next]_vars => Inv'
<1> SUFFICES ASSUME Inv, [Next]_vars PROVE Inv'
  OBVIOUS
<1>1. CASE \E f \in Files : Change(f)
  BY <1>1, ChangeSafe
<1>2. ASSUME NEW q \in Calls, NEW f \in Files,
             DownloadVideo(q, f) \/ GetVideoById(q, f) \/ StreamHls(q, f)
      PROVE  Inv'
  BY <1>2, AskSafe, StreamHlsSafe DEF DownloadVideo, GetVideoById
<1>3. ASSUME NEW q \in Calls, Stream(q) \/ Hls(q)
      PROVE  Inv'
  BY <1>3, FetchSafe, RelaySafe, EofSafe, HlsSafe DEF Stream
<1>4. ASSUME NEW q \in Calls, Check(q)
      PROVE  Inv'
  BY <1>4, TruncateSafe, SaveSafe, SaveFailsSafe, LookSafe, DeleteSafe DEF Check
<1>5. ASSUME NEW q \in Calls, BreakRelay(q) \/ TimesOut(q) \/ BreakCheck(q)
      PROVE  Inv'
  BY <1>5, BreakRelaySafe, TimesOutSafe, BreakCheckSafe
<1>6. CASE UNCHANGED vars
  <2>1. UNCHANGED <<bucket, pc, kind, file, held, sent, body, disk, faults>>
    BY <1>6 DEF vars, callVars
  <2>2. TypeOK'
    BY <2>1 DEF Inv, TypeOK
  <2>3. \A p \in Calls : Kept(p)'
    BY <2>1, OthersKept DEF Inv
  <2>4. \A p \in Calls : Opened(p)' /\ Founded(p)'
    BY <2>1 DEF Inv, Opened, Founded, Alone, Shows
  <2> QED
    BY <2>2, <2>3, <2>4 DEF Inv
<1> QED
  BY <1>1, <1>2, <1>3, <1>4, <1>5, <1>6 DEF Next

LEMMA Invariant == Spec => []Inv
BY InitInv, NextInv, PTL DEF Spec

\* Calls are where a handler can be, with bytes of objects or of error texts, for
\* any number of them and any sizes: in particular the local copy is there
\* whenever a check writes into it.
THEOREM TypesHold == Spec => []TypeOK
<1>1. Inv => TypeOK
  BY DEF Inv
<1> QED
  BY <1>1, Invariant, PTL

\* Whatever breaks, times out, is replaced or is removed, a response that ends
\* properly is one object of one version, or a beginning of it with the text of
\* an error: repo reads an object whole before it streams it, and what is
\* relayed is a prefix of what was read.
THEOREM CompleteResponsesAreWhole == Spec => []CompleteIsWhole
<1>1. Inv => CompleteIsWhole
  BY DEF Inv, Kept, Answered, CompleteIsWhole
<1> QED
  BY <1>1, Invariant, PTL

\* A browser that was given as many bytes as Content-Length promised has the
\* object byte for byte, or lacks exactly as many at its end as the text of an
\* error took the place of.
THEOREM DownloadsAreComplete == Spec => []DownloadIsComplete
<1>1. Inv => DownloadIsComplete
  BY DEF Inv, Kept, Answered, DownloadIsComplete
<1> QED
  BY <1>1, Invariant, PTL

\* A check that no fault met and no other check disturbed answers by the object
\* it asked for: it saves all of it over nothing, and looks at what it saved.
THEOREM VerdictsAreFounded == Spec => []VerdictIsFounded
<1>1. Inv => VerdictIsFounded
  <2> SUFFICES ASSUME Inv, NEW q \in Calls, kind[q] = "check", faults = 0, held[q] # <<>>,
                      \A p \in Calls \ {q} : kind[p] = "check" => file[p] # file[q]
               PROVE  /\ pc[q] # "failed"
                      /\ pc[q] = "safe" => ~Shows(held[q])
                      /\ pc[q] = "explicit" => Shows(held[q])
    BY DEF VerdictIsFounded
  <2>1. Founded(q) /\ Alone(q)
    BY DEF Inv, Alone
  <2> QED
    BY <2>1 DEF Founded, Checking, Saving
<1> QED
  BY <1>1, Invariant, PTL
=============================================================================
