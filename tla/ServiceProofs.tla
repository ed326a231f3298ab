---------------------------- MODULE ServiceProofs ----------------------------
(* Commits, upload sessions and consolidated copies, for every value of    *)
(* their constants.  The three share nothing; each has a section.          *)
EXTENDS VersionCommit, UploadSession, Consolidation,
        FiniteSetTheorems, TLAPS

-----------------------------------------------------------------------------
(* Proof, for every number of editors, requests, contents, versions and    *)
(* faults, that no committed save is lost: a version is made from the      *)
(* bytes of the version before it, and what was reported as committed is   *)
(* in a version the head has reached.                                      *)
(*                                                                         *)
(* The versions up to the head, and at most the one after it, are won      *)
(* (Chain). A request names a base the head has reached, so what it saw of *)
(* the base still stands (Honest), and the one version it may win is the   *)
(* next. Whoever won it is the only request at work on it (Winner, Alone). *)

Asking == {"read", "resolve", "insert", "lost"}
Keeping == Winning \cup Projecting
CommitSteps == {"idle", "answered"} \cup Asking \cup Winning \cup Projecting
Bits == Contents \cup {0}
Request == [pc : CommitSteps, base : Nat, seen : Bits, bytes : Bits, file : Nat, at : Nat,
            verdict : {"none", "new", "duplicate", "conflict"}, told : Nat]

VersionTypes ==
  /\ MaxVersion \in Nat \ {0}
  /\ row \in [Versions -> [bytes : Bits, from : Bits, won : BOOLEAN]]
  /\ head \in 0..MaxVersion /\ file \in Versions
  /\ shown \in [Editors -> [version : Versions, bytes : Bits]]
  /\ request \in [Requests -> Request]
  /\ credit \in [Versions -> Nat]

(* The original has no row; the head runs through versions that were won,  *)
(* at most one of which is beyond it.                                      *)
Chain ==
  /\ head # 1 /\ (head = 0 => file = 1)
  /\ row[1] = NoRow
  /\ \A v \in Versions : row[v].won => v <= Current + 1
  /\ \A v \in Versions : 2 <= v /\ v <= head => row[v].won
  /\ MadeFromTheVersionBefore

(* What an editor shows is of a version the head has reached.              *)
Loaded ==
  \A e \in Editors :
    /\ shown[e].version <= Current
    /\ shown[e].bytes = Bytes(shown[e].version)

(* A save under way saw its base.                                          *)
Honest(r) ==
  request[r].pc \in Asking \cup Winning \cup Projecting =>
    /\ request[r].base \in Versions /\ Written(r) \in Versions
    /\ request[r].base <= Current
    /\ request[r].seen = Bytes(request[r].base)

(* A save at work on its version has won it, and its blocks are not yet    *)
(* counted; once it writes the rows the head is there.                     *)
Winner(r) ==
  /\ request[r].pc \in Winning \cup Projecting =>
       /\ row[Written(r)].won
       /\ Bytes(Written(r)) = request[r].bytes
       /\ credit[Written(r)] = 0
  /\ request[r].pc = "cas" => request[r].at <= request[r].base
  /\ request[r].pc \in Projecting => Written(r) <= head

Told(r) ==
  request[r].verdict \in {"new", "duplicate"} =>
    /\ request[r].pc = "answered" /\ request[r].told \in Versions
    /\ request[r].told <= Current
    /\ Bytes(request[r].told) = request[r].bytes

Alone ==
  \A r, q \in Requests :
    /\ r # q
    /\ request[r].pc \in Winning \cup Projecting
    /\ request[q].pc \in Winning \cup Projecting
    => request[r].base # request[q].base

Credits ==
  \A v \in Versions : credit[v] <= 1 /\ (credit[v] # 0 => row[v].won)

VersionInv ==
  /\ VersionTypes /\ Chain /\ Loaded /\ Alone /\ Credits
  /\ \A r \in Requests : Honest(r) /\ Winner(r) /\ Told(r)

-----------------------------------------------------------------------------
LEMMA CurrentIsVersion ==
  ASSUME VersionTypes, Chain PROVE Current \in Versions /\ Current # 0
  BY DEF VersionTypes, Current, Versions

(* One request goes on and nothing else changes.                           *)
LEMMA OneRequestMoves ==
  ASSUME VersionInv, NEW r \in Requests, request' \in [Requests -> Request],
         \A q \in Requests \ {r} : request'[q] = request[q],
         UNCHANGED <<row, head, file, shown, credit>>,
         Honest(r)', Winner(r)', Told(r)',
         request'[r].pc \in Keeping =>
           request[r].pc \in Keeping /\ request'[r].base = request[r].base
  PROVE  VersionInv'
<1>1. VersionTypes' /\ Chain' /\ Loaded' /\ Credits'
  BY DEF VersionInv, VersionTypes, Chain, Loaded, Credits, Current, Bytes, MadeFromTheVersionBefore
<1>2. Alone'
  BY DEF VersionInv, Alone, Keeping
<1>3. \A q \in Requests : Honest(q)' /\ Winner(q)' /\ Told(q)'
  BY DEF VersionInv, Honest, Winner, Told, Written, Current, Bytes
<1> QED BY <1>1, <1>2, <1>3 DEF VersionInv

(* A step of one request between two places of the same kind.              *)
LEMMA RequestMoves ==
  ASSUME VersionInv, NEW r \in Requests, NEW step \in CommitSteps, Goto(r, step),
         UNCHANGED <<row, head, file, shown, credit>>,
         \/ request[r].pc \in Asking /\ step \in Asking
         \/ request[r].pc \in Keeping /\ step = "advance"
         \/ request[r].pc \in Keeping /\ step \in Projecting /\ Written(r) <= head
  PROVE  VersionInv'
<1>1. request' = [request EXCEPT ![r] = [request[r] EXCEPT !.pc = step]]
  BY DEF Goto, VersionInv, VersionTypes
<1>2. request' \in [Requests -> Request]
  <2>1. request \in [Requests -> Request] /\ request[r] \in Request
    BY DEF VersionInv, VersionTypes
  <2>2. [request[r] EXCEPT !.pc = step] \in Request
    BY <2>1 DEF Request
  <2> QED BY <1>1, <2>1, <2>2
<1>3. request'[r] = [request[r] EXCEPT !.pc = step]
      /\ \A q \in Requests \ {r} : request'[q] = request[q]
  BY <1>1 DEF VersionInv, VersionTypes
<1>4. request[r] \in Request /\ request[r].verdict \notin {"new", "duplicate"}
  BY DEF VersionInv, VersionTypes, Told, Asking, Keeping, Winning, Projecting
<1>5. /\ request'[r].pc = step /\ request'[r].base = request[r].base
      /\ request'[r].seen = request[r].seen /\ request'[r].bytes = request[r].bytes
      /\ request'[r].verdict = request[r].verdict
  BY <1>3, <1>4 DEF Request
<1>6. Honest(r)' /\ Winner(r)' /\ Told(r)'
  BY <1>4, <1>5 DEF VersionInv, Honest, Winner, Told, Written, Current, Bytes, Keeping,
     Asking, Winning, Projecting
<1>7. request'[r].pc \in Keeping =>
           request[r].pc \in Keeping /\ request'[r].base = request[r].base
  BY <1>5 DEF Keeping, Asking, Winning, Projecting
<1> QED BY <1>2, <1>3, <1>6, <1>7, OneRequestMoves

(* An answer, or the end of a save that is not at work on a version.       *)
LEMMA Refuses ==
  ASSUME VersionInv, NEW r \in Requests, request[r].pc \in Asking, Refuse(r),
         UNCHANGED <<row, head, file, shown, credit>>
  PROVE  VersionInv'
<1> DEFINE verdict == IF Bytes(Current) = request[r].bytes THEN "duplicate" ELSE "conflict"
           answer == [request[r] EXCEPT !.pc = "answered", !.verdict = verdict, !.told = Current]
<1>1. request' = [request EXCEPT ![r] = answer]
  BY DEF Refuse, Answer, VersionInv, VersionTypes
<1>2. Current \in Versions /\ Current \in Nat /\ UNCHANGED Current
  BY CurrentIsVersion DEF VersionInv, Versions, Current
<1>3. answer \in Request
  <2>1. request[r] \in Request
    BY DEF VersionInv, VersionTypes
  <2>2. verdict \in {"none", "new", "duplicate", "conflict"} /\ "answered" \in CommitSteps
    BY DEF CommitSteps
  <2> HIDE DEF verdict
  <2> QED BY <1>2, <2>1, <2>2 DEF Request
<1>4. request' \in [Requests -> Request] /\ request'[r] = answer
      /\ \A q \in Requests \ {r} : request'[q] = request[q]
  BY <1>1, <1>3 DEF VersionInv, VersionTypes
<1>5. request[r] \in Request
  BY DEF VersionInv, VersionTypes
<1>6. /\ answer.pc = "answered" /\ answer.verdict = verdict /\ answer.told = Current
      /\ answer.bytes = request[r].bytes
  BY <1>5 DEF Request
<1>7. Honest(r)' /\ Winner(r)' /\ Told(r)' /\ request'[r].pc \notin Keeping
  BY <1>2, <1>4, <1>6 DEF Honest, Winner, Told, Bytes, Keeping, Asking, Winning, Projecting
<1> QED BY <1>4, <1>7, OneRequestMoves

LEMMA SaveStep ==
  ASSUME VersionInv, NEW e \in Editors, NEW r \in Requests, NEW x \in Contents, Save(e, r, x)
  PROVE  VersionInv'
<1> DEFINE begun == [Idle EXCEPT !.pc = "read", !.base = shown[e].version,
                                 !.seen = shown[e].bytes, !.bytes = x]
<1>1. /\ request' = [request EXCEPT ![r] = begun] /\ shown[e].version < MaxVersion
      /\ UNCHANGED <<row, head, file, shown, credit>>
  BY DEF Save, rows, history
<1>2. shown[e] \in [version : Versions, bytes : Bits] /\ MaxVersion \in Nat
  BY DEF VersionInv, VersionTypes
<1>3. /\ begun \in Request /\ begun.pc = "read" /\ begun.verdict = "none"
      /\ begun.base = shown[e].version /\ begun.seen = shown[e].bytes
      /\ begun.base \in Versions /\ begun.base + 1 \in Versions
  <2>1. shown[e].version \in Versions /\ shown[e].version \in Nat /\ shown[e].bytes \in Bits
        /\ shown[e].version + 1 \in Versions /\ x \in Bits
    BY <1>1, <1>2 DEF Versions, Bits
  <2>2. Idle \in Request /\ Idle.verdict = "none"
    BY DEF Idle, Request, Bits, CommitSteps
  <2>3. "read" \in CommitSteps
    BY DEF CommitSteps, Asking
  <2> QED BY <2>1, <2>2, <2>3 DEF Request
<1>4. /\ request' \in [Requests -> Request] /\ request'[r] = begun
      /\ \A q \in Requests \ {r} : request'[q] = request[q]
  BY <1>1, <1>3 DEF VersionInv, VersionTypes
<1>5. Honest(r)' /\ Winner(r)' /\ Told(r)' /\ request'[r].pc \notin Keeping
  BY <1>1, <1>3, <1>4 DEF VersionInv, Loaded, Honest, Winner, Told, Written, Current, Bytes,
     Keeping, Winning, Projecting
<1> QED BY <1>1, <1>4, <1>5, OneRequestMoves

LEMMA LoadStep ==
  ASSUME VersionInv, NEW e \in Editors, GetEditSession(e)
  PROVE  VersionInv'
<1>1. /\ shown' = [shown EXCEPT ![e] = [version |-> Current, bytes |-> Bytes(Current)]]
      /\ UNCHANGED <<row, head, file, request, credit>>
  BY DEF GetEditSession, rows, history
<1>2. Current \in Versions /\ Current \in Nat /\ Bytes(Current) \in Bits
  BY CurrentIsVersion DEF VersionInv, Versions, VersionTypes, Bytes
<1>3. VersionTypes' /\ Loaded'
  BY <1>1, <1>2 DEF VersionInv, VersionTypes, Loaded, Current, Bytes
<1>4. Chain' /\ Alone' /\ Credits'
      /\ \A r \in Requests : Honest(r)' /\ Winner(r)' /\ Told(r)'
  BY <1>1 DEF VersionInv, Chain, Alone, Credits, Honest, Winner, Told, Written, Current, Bytes,
     MadeFromTheVersionBefore
<1> QED BY <1>3, <1>4 DEF VersionInv

LEMMA RequestReads ==
  ASSUME VersionInv, NEW r \in Requests, GetFileOwned(r) \/ GetFileHead(r)
  PROVE  VersionInv'
<1>1. UNCHANGED <<row, head, file, shown, credit>> /\ file \in Nat /\ head \in Nat
  BY DEF GetFileOwned, GetFileHead, rows, history, VersionInv, VersionTypes, Versions
<1>2. request[r] \in Request
  BY DEF VersionInv, VersionTypes
<1>3. CASE GetFileOwned(r)
  <2> DEFINE next == [request[r] EXCEPT !.pc = "resolve", !.file = file]
  <2>1. request' = [request EXCEPT ![r] = next]
    BY <1>3 DEF GetFileOwned, VersionInv, VersionTypes
  <2>2. /\ next \in Request /\ next.pc = "resolve" /\ next.verdict = request[r].verdict
        /\ next.base = request[r].base /\ next.seen = request[r].seen
        /\ next.bytes = request[r].bytes
    BY <1>1, <1>2 DEF Request, CommitSteps, Asking
  <2>3. /\ request' \in [Requests -> Request] /\ request'[r] = next
        /\ \A q \in Requests \ {r} : request'[q] = request[q]
    BY <2>1, <2>2 DEF VersionInv, VersionTypes
  <2>4. Honest(r)' /\ Winner(r)' /\ Told(r)' /\ request'[r].pc \notin Keeping
    BY <1>1, <1>3, <2>2, <2>3 DEF VersionInv, GetFileOwned, At, Honest, Winner, Told, Written,
       Current, Bytes, Asking, Keeping, Winning, Projecting
  <2> QED BY <1>1, <2>3, <2>4, OneRequestMoves
<1>4. CASE GetFileHead(r)
  <2> DEFINE step == IF head > request[r].base THEN "file" ELSE "cas"
             next == [request[r] EXCEPT !.pc = step, !.at = head]
  <2>1. request' = [request EXCEPT ![r] = next] /\ request[r].pc = "advance"
    BY <1>4 DEF GetFileHead, At, VersionInv, VersionTypes
  <2>2. /\ next \in Request /\ next.pc = step /\ next.verdict = request[r].verdict
        /\ next.base = request[r].base /\ next.seen = request[r].seen
        /\ next.bytes = request[r].bytes /\ next.at = head
    BY <1>1, <1>2 DEF Request, CommitSteps, Winning, Projecting
  <2>3. /\ request' \in [Requests -> Request] /\ request'[r] = next
        /\ \A q \in Requests \ {r} : request'[q] = request[q]
    BY <2>1, <2>2 DEF VersionInv, VersionTypes
  <2>4. step = "cas" => head <= request[r].base
    BY <1>1, <1>2 DEF Request
  <2>5. step = "file" => request[r].base + 1 <= head
    BY <1>1, <1>2 DEF Request
  <2>6. Honest(r)' /\ Winner(r)' /\ Told(r)'
    BY <1>1, <2>1, <2>2, <2>3, <2>4, <2>5 DEF VersionInv, Honest, Winner, Told, Written,
       Current, Bytes, Asking, Winning, Projecting
  <2>7. request[r].pc \in Keeping /\ request'[r].base = request[r].base
    BY <2>1, <2>2, <2>3 DEF Keeping, Winning
  <2> QED BY <1>1, <2>3, <2>6, <2>7, OneRequestMoves
<1> QED BY <1>3, <1>4

(* The next version, and only it, is won, by one request.                  *)
LEMMA WinStep ==
  ASSUME VersionInv, NEW r \in Requests, InsertFileVersionIfAbsent(r),
         ~row[request[r].base + 1].won
  PROVE  VersionInv'
<1> DEFINE v == request[r].base + 1
           won == [bytes |-> request[r].bytes, from |-> request[r].seen, won |-> TRUE]
<1>1. /\ request[r].pc = "insert" /\ row' = [row EXCEPT ![v] = won]
      /\ request' = [request EXCEPT ![r].pc = "advance"]
      /\ UNCHANGED <<head, file, shown, credit>>
  BY DEF InsertFileVersionIfAbsent, Goto, At, rows, history
<1>2. /\ request[r] \in Request /\ v \in Versions /\ request[r].base \in Versions
      /\ request[r].base <= Current /\ request[r].seen = Bytes(request[r].base)
      /\ request[r].verdict \notin {"new", "duplicate"}
  BY <1>1 DEF VersionInv, VersionTypes, Honest, Told, Asking, Written
<1>3. /\ Current \in Versions /\ Current \in Nat /\ UNCHANGED Current
      /\ request[r].base \in Nat /\ request[r].base >= 1 /\ v \in Nat
      /\ \A u \in Versions : u \in Nat /\ u >= 1
  BY <1>1, <1>2, CurrentIsVersion DEF VersionInv, Versions, Current
<1>4. v = Current + 1
  <2> SUFFICES ASSUME v <= Current PROVE FALSE
    BY <1>2, <1>3
  <2>1. v >= 2
    BY <1>2, <1>3
  <2>2. head # 0 /\ head \in Nat
    BY <1>2, <1>3, <2>1 DEF VersionInv, VersionTypes, Chain, Current
  <2>3. v <= head
    BY <2>2 DEF Current
  <2> QED BY <1>2, <2>1, <2>3 DEF VersionInv, Chain
<1>5. /\ row'[v] = won /\ \A u \in Versions \ {v} : row'[u] = row[u]
      /\ row' \in [Versions -> [bytes : Bits, from : Bits, won : BOOLEAN]]
  BY <1>1, <1>2 DEF VersionInv, VersionTypes, Request
<1>6. \A u \in Versions : u <= Current => row'[u] = row[u]
  BY <1>3, <1>4, <1>5
<1>7. \A q \in Requests \ {r} : request'[q] = request[q]
  BY <1>1 DEF VersionInv, VersionTypes
<1>8. /\ request' \in [Requests -> Request] /\ request'[r].pc = "advance"
      /\ request'[r].base = request[r].base /\ request'[r].bytes = request[r].bytes
      /\ request'[r].seen = request[r].seen /\ request'[r].verdict = request[r].verdict
  <2>1. request' = [request EXCEPT ![r] = [request[r] EXCEPT !.pc = "advance"]]
    BY <1>1 DEF VersionInv, VersionTypes
  <2>2. "advance" \in CommitSteps
    BY DEF CommitSteps, Winning
  <2> QED BY <1>2, <2>1, <2>2 DEF VersionInv, VersionTypes, Request
<1>9. VersionTypes' /\ Loaded'
  BY <1>1, <1>3, <1>5, <1>6, <1>8 DEF VersionInv, VersionTypes, Loaded, Current, Bytes
<1>10. Chain'
  <2>1. head' # 1 /\ (head' = 0 => file' = 1) /\ row'[1] = NoRow
    BY <1>1, <1>2, <1>3, <1>4, <1>5 DEF VersionInv, VersionTypes, Chain, Versions
  <2>2. \A u \in Versions : row'[u].won => u <= Current' + 1
    BY <1>3, <1>4, <1>5 DEF VersionInv, Chain
  <2>3. \A u \in Versions : 2 <= u /\ u <= head' => row'[u].won
    BY <1>1, <1>5 DEF VersionInv, Chain
  <2>4. ASSUME NEW u \in Versions \ {1}, row'[u].won PROVE row'[u].from = row'[u - 1].bytes
    <3>1. u - 1 \in Versions /\ u \in Nat
      BY <1>3 DEF VersionInv, VersionTypes, Versions
    <3>2. CASE u = v
      BY <1>2, <1>3, <1>4, <1>5, <1>6, <3>1, <3>2 DEF Bytes
    <3>3. CASE u # v
      <4>1. row[u].won /\ row'[u] = row[u]
        BY <1>5, <2>4, <3>3
      <4>2. u - 1 <= Current
        BY <1>3, <3>1, <4>1 DEF VersionInv, Chain
      <4> QED BY <1>6, <3>1, <4>1, <4>2 DEF VersionInv, Chain, MadeFromTheVersionBefore, Bytes
    <3> QED BY <3>2, <3>3
  <2> QED BY <2>1, <2>2, <2>3, <2>4 DEF Chain, MadeFromTheVersionBefore, Bytes
<1>11. \A q \in Requests \ {r} :
         request[q].pc \in Keeping => Written(q) \in Versions /\ Written(q) # v
  BY <1>2 DEF VersionInv, Honest, Winner, Written, Keeping
<1>12. Alone'
  BY <1>2, <1>7, <1>8, <1>11 DEF VersionInv, Alone, Written, Keeping
<1>13. credit[v] = 0 /\ Credits'
  BY <1>1, <1>2, <1>5 DEF VersionInv, Credits, VersionTypes
<1>14. Honest(r)' /\ Winner(r)' /\ Told(r)'
  BY <1>1, <1>2, <1>3, <1>5, <1>6, <1>8, <1>13 DEF Honest, Winner, Told, Written, Bytes,
     Winning, Projecting
<1>15. ASSUME NEW q \in Requests \ {r} PROVE Honest(q)' /\ Winner(q)' /\ Told(q)'
  <2>1. request'[q] = request[q]
    BY <1>7
  <2>0. Honest(q) /\ Winner(q) /\ Told(q)
    BY DEF VersionInv
  <2>2. Honest(q)'
    BY <1>3, <1>6, <2>0, <2>1 DEF Honest, Written, Bytes
  <2>3. Told(q)'
    BY <1>3, <1>6, <2>0, <2>1 DEF Told, Bytes
  <2>4. Winner(q)'
    BY <1>1, <1>5, <1>11, <2>0, <2>1 DEF Winner, Written, Bytes, Keeping
  <2> QED BY <2>2, <2>3, <2>4
<1> QED BY <1>9, <1>10, <1>12, <1>13, <1>14, <1>15 DEF VersionInv

(* The head moves to a version that was won, and never back.               *)
LEMMA HeadStep ==
  ASSUME VersionInv, NEW r \in Requests, AdvanceFileHead(r), head = request[r].at
  PROVE  VersionInv'
<1> DEFINE v == request[r].base + 1
<1>1. /\ request[r].pc = "cas" /\ head' = v
      /\ request' = [request EXCEPT ![r].pc = "file"]
      /\ UNCHANGED <<row, file, shown, credit>>
  BY DEF AdvanceFileHead, Goto, At, rows, history
<1>2. /\ request[r] \in Request /\ v \in Versions /\ request[r].base \in Versions
      /\ head <= request[r].base /\ request[r].base <= Current /\ row[v].won
      /\ Bytes(v) = request[r].bytes /\ credit[v] = 0
      /\ request[r].seen = Bytes(request[r].base)
      /\ request[r].verdict \notin {"new", "duplicate"}
  BY <1>1 DEF VersionInv, VersionTypes, Honest, Winner, Told, Winning, Written
<1>3. /\ Current \in Versions /\ Current \in Nat /\ head \in Nat
      /\ request[r].base \in Nat /\ v \in Nat /\ v \in 0..MaxVersion /\ v >= 2
      /\ \A u \in Versions : u \in Nat /\ u >= 1
  <2>1. Current \in Versions /\ head \in 0..MaxVersion
    BY CurrentIsVersion DEF VersionInv, VersionTypes
  <2>2. \A u \in Versions : u \in Nat /\ u >= 1
    BY DEF Versions
  <2>3. v \in 0..MaxVersion
    BY <1>2 DEF Versions
  <2> QED BY <1>2, <2>1, <2>2, <2>3
<1>4. Current' = v /\ Current <= v /\ v <= Current + 1
  <2>1. Current' = v
    BY <1>1, <1>3 DEF Current
  <2>2. Current <= request[r].base
    BY <1>2, <1>3 DEF VersionInv, VersionTypes, Chain, Current
  <2> QED BY <1>2, <1>3, <2>1, <2>2
<1>5. \A q \in Requests \ {r} : request'[q] = request[q]
  BY <1>1 DEF VersionInv, VersionTypes
<1>6. /\ request' \in [Requests -> Request] /\ request'[r].pc = "file"
      /\ request'[r].base = request[r].base /\ request'[r].bytes = request[r].bytes
      /\ request'[r].seen = request[r].seen /\ request'[r].verdict = request[r].verdict
  <2>1. request' = [request EXCEPT ![r] = [request[r] EXCEPT !.pc = "file"]]
    BY <1>1 DEF VersionInv, VersionTypes
  <2>2. "file" \in CommitSteps
    BY DEF CommitSteps, Projecting
  <2> QED BY <1>2, <2>1, <2>2 DEF VersionInv, VersionTypes, Request
<1>7. VersionTypes' /\ Loaded' /\ Credits'
  BY <1>1, <1>3, <1>4, <1>6 DEF VersionInv, VersionTypes, Loaded, Credits, Bytes
<1>8. Chain'
  <2>1. head' # 1 /\ (head' = 0 => file' = 1) /\ row'[1] = NoRow
    BY <1>1, <1>3 DEF VersionInv, Chain
  <2>2. \A u \in Versions : row'[u].won => u <= Current' + 1
    BY <1>1, <1>3, <1>4 DEF VersionInv, Chain
  <2>3. \A u \in Versions : 2 <= u /\ u <= head' => row'[u].won
    <3>1. \A u \in Versions : 2 <= u /\ u <= Current => row[u].won
      BY <1>3 DEF VersionInv, Chain, Current
    <3> QED BY <1>1, <1>2, <1>3, <1>4, <3>1
  <2> QED BY <1>1, <2>1, <2>2, <2>3 DEF VersionInv, Chain, MadeFromTheVersionBefore, Bytes
<1>9. Alone'
  BY <1>1, <1>5, <1>6 DEF VersionInv, Alone, Winning, Projecting
<1>10. Honest(r)' /\ Winner(r)' /\ Told(r)'
  BY <1>1, <1>2, <1>3, <1>4, <1>6 DEF Honest, Winner, Told, Written, Bytes,
     Asking, Winning, Projecting
<1>11. ASSUME NEW q \in Requests \ {r} PROVE Honest(q)' /\ Winner(q)' /\ Told(q)'
  <2>1. request'[q] = request[q] /\ request[q] \in Request
    BY <1>5 DEF VersionInv, VersionTypes
  <2>2. Honest(q)' /\ Told(q)'
    BY <1>1, <1>3, <1>4, <2>1 DEF VersionInv, Honest, Told, Written, Bytes
  <2>3. Written(q) \in Nat /\ head <= v /\ head' = v
    BY <1>1, <1>2, <1>3, <2>1 DEF Written, Request
  <2>4. Winner(q)'
    BY <1>1, <1>3, <2>1, <2>3 DEF VersionInv, Winner, Written, Bytes
  <2> QED BY <2>2, <2>4
<1> QED BY <1>7, <1>8, <1>9, <1>10, <1>11 DEF VersionInv

(* The rows that describe the file are written with the head in place.     *)
LEMMA ProjectStep ==
  ASSUME VersionInv, NEW r \in Requests,
         \/ UpdateFile(r) \/ UpdateFolderFile(r)
         \/ InsertFilesByFolderUpdated(r) \/ DeleteFilesByFolderUpdated(r)
         \/ DeleteFileManifest(r)
  PROVE  VersionInv'
<1>1. PICK step \in Projecting : Goto(r, step)
  BY DEF UpdateFile, UpdateFolderFile, InsertFilesByFolderUpdated, DeleteFilesByFolderUpdated,
     DeleteFileManifest, Projecting
<1>2. request[r].pc \in Projecting /\ UNCHANGED <<row, head, shown, credit>>
  BY DEF UpdateFile, UpdateFolderFile, InsertFilesByFolderUpdated, DeleteFilesByFolderUpdated,
     DeleteFileManifest, At, Projecting, history
<1>3. Written(r) <= head /\ Written(r) \in Versions /\ request[r].pc \in Keeping
      /\ step \in CommitSteps
  BY <1>1, <1>2 DEF VersionInv, Winner, Honest, Keeping, CommitSteps
<1>4. CASE UNCHANGED file
  BY <1>1, <1>2, <1>3, <1>4, RequestMoves
<1>5. CASE file' = Written(r)
  <2>1. head # 0 /\ UNCHANGED Current
    BY <1>2, <1>3 DEF VersionInv, VersionTypes, Versions, Current
  <2>2. /\ request' \in [Requests -> Request]
        /\ request' = [request EXCEPT ![r] = [request[r] EXCEPT !.pc = step]]
    <3>1. request \in [Requests -> Request] /\ request[r] \in Request
      BY DEF VersionInv, VersionTypes
    <3>2. [request[r] EXCEPT !.pc = step] \in Request
      BY <1>3, <3>1 DEF Request
    <3> QED BY <1>1, <3>1, <3>2 DEF Goto
  <2>3. VersionTypes'
    BY <1>2, <1>3, <1>5, <2>2 DEF VersionInv, VersionTypes
  <2>4. Chain' /\ Loaded' /\ Credits'
    BY <1>2, <2>1 DEF VersionInv, Chain, Loaded, Credits, Bytes, MadeFromTheVersionBefore
  <2>5. \A q \in Requests :
          /\ request'[q].base = request[q].base /\ request'[q].seen = request[q].seen
          /\ request'[q].bytes = request[q].bytes /\ request'[q].at = request[q].at
          /\ request'[q].verdict = request[q].verdict /\ request'[q].told = request[q].told
          /\ request'[q].pc = IF q = r THEN step ELSE request[q].pc
    BY <2>2 DEF VersionInv, VersionTypes, Request
  <2>6. Alone'
    BY <1>1, <1>2, <2>5 DEF VersionInv, Alone, Keeping
  <2>7. ASSUME NEW q \in Requests PROVE Honest(q)' /\ Winner(q)' /\ Told(q)'
    <3>1. Honest(q)'
      BY <1>2, <1>3, <2>1, <2>5 DEF VersionInv, Honest, Written, Bytes, Keeping
    <3>2. Winner(q)'
      BY <1>1, <1>2, <1>3, <2>5 DEF VersionInv, Winner, Written, Bytes, Keeping, Projecting
    <3>3. Told(q)'
      BY <1>2, <2>1, <2>5 DEF VersionInv, Told, Bytes, Projecting
    <3> QED BY <3>1, <3>2, <3>3
  <2> QED BY <2>3, <2>4, <2>6, <2>7 DEF VersionInv
<1> QED BY <1>4, <1>5 DEF UpdateFile, UpdateFolderFile, InsertFilesByFolderUpdated,
     DeleteFilesByFolderUpdated, DeleteFileManifest

(* A version is reported as new, by the one request that won it.           *)
LEMMA ReportStep ==
  ASSUME VersionInv, NEW r \in Requests, request[r].pc \in Projecting,
         Answer(r, "new", Written(r)),
         credit' = [credit EXCEPT ![Written(r)] = @ + 1],
         UNCHANGED <<row, head, file, shown>>
  PROVE  VersionInv'
<1> DEFINE v == Written(r)
           answer == [request[r] EXCEPT !.pc = "answered", !.verdict = "new", !.told = v]
<1>1. /\ v \in Versions /\ v \in Nat /\ v <= head /\ row[v].won /\ credit[v] = 0
      /\ Bytes(v) = request[r].bytes /\ request[r] \in Request /\ head \in Nat
      /\ request[r].base \in Nat
  BY DEF VersionInv, VersionTypes, Honest, Winner, Versions, Request
<1>2. v <= Current /\ UNCHANGED Current
  BY <1>1 DEF VersionInv, VersionTypes, Versions, Current
<1>3. request' = [request EXCEPT ![r] = answer]
  BY DEF Answer, VersionInv, VersionTypes
<1>4. /\ answer \in Request /\ answer.pc = "answered" /\ answer.verdict = "new"
      /\ answer.told = v /\ answer.bytes = request[r].bytes
  BY <1>1 DEF Request, CommitSteps
<1>5. /\ request' \in [Requests -> Request] /\ request'[r] = answer
      /\ \A q \in Requests \ {r} : request'[q] = request[q]
  BY <1>3, <1>4 DEF VersionInv, VersionTypes
<1>6. /\ credit' \in [Versions -> Nat] /\ credit'[v] = 1
      /\ \A u \in Versions \ {v} : credit'[u] = credit[u]
  BY <1>1 DEF VersionInv, VersionTypes
<1>7. VersionTypes' /\ Chain' /\ Loaded' /\ Credits'
  BY <1>1, <1>2, <1>5, <1>6 DEF VersionInv, VersionTypes, Chain, Loaded, Credits, Bytes,
     MadeFromTheVersionBefore
<1>8. Alone'
  <2>1. request'[r].pc \notin Keeping
    BY <1>4, <1>5 DEF Keeping, Winning, Projecting
  <2>2. \A q \in Requests \ {r} : request'[q] = request[q]
    BY <1>5
  <2> QED BY <2>1, <2>2 DEF VersionInv, Alone, Keeping
<1>9. Honest(r)' /\ Winner(r)' /\ Told(r)'
  BY <1>1, <1>2, <1>4, <1>5 DEF Honest, Winner, Told, Bytes, Asking, Winning, Projecting
<1>10. ASSUME NEW q \in Requests \ {r} PROVE Honest(q)' /\ Winner(q)' /\ Told(q)'
  <2>1. request'[q] = request[q]
    BY <1>5
  <2>2. Honest(q)' /\ Told(q)'
    BY <1>2, <2>1 DEF VersionInv, Honest, Told, Written, Bytes
  <2>3. request[q].pc \in Keeping => Written(q) \in Versions /\ Written(q) # v
    <3>1. request[q].pc \in Keeping =>
            /\ Written(q) \in Versions /\ request[q].base \in Nat
            /\ request[q].base # request[r].base
      BY DEF VersionInv, VersionTypes, Request, Honest, Alone, Keeping
    <3> QED BY <1>1, <3>1 DEF Written
  <2>4. Winner(q)'
    BY <1>6, <2>1, <2>3 DEF VersionInv, Winner, Written, Bytes, Keeping
  <2> QED BY <2>2, <2>4
<1> QED BY <1>7, <1>8, <1>9, <1>10 DEF VersionInv

LEMMA RequestFails ==
  ASSUME VersionInv, NEW r \in Requests, Fail(r)
  PROVE  VersionInv'
<1>1. CASE request' = [request EXCEPT ![r] = Idle] /\ UNCHANGED credit
  <2>1. UNCHANGED <<row, head, file, shown, credit>>
    BY <1>1 DEF Fail, rows
  <2>2. Idle \in Request /\ Idle.pc = "idle" /\ Idle.verdict = "none"
    BY DEF Idle, Request, Bits, CommitSteps
  <2>3. /\ request' \in [Requests -> Request] /\ request'[r] = Idle
        /\ \A q \in Requests \ {r} : request'[q] = request[q]
    BY <1>1, <2>2 DEF VersionInv, VersionTypes
  <2>4. Honest(r)' /\ Winner(r)' /\ Told(r)' /\ request'[r].pc \notin Keeping
    BY <2>2, <2>3 DEF Honest, Winner, Told, Asking, Keeping, Winning, Projecting
  <2> QED BY <2>1, <2>3, <2>4, OneRequestMoves
<1>2. CASE request[r].pc \in Projecting /\ Answer(r, "new", Written(r))
           /\ credit' = [credit EXCEPT ![Written(r)] = @ + 1]
  <2>1. UNCHANGED <<row, head, file, shown>>
    BY DEF Fail, rows
  <2> QED BY <1>2, <2>1, ReportStep
<1> QED BY <1>1, <1>2 DEF Fail

LEMMA CommitStep ==
  ASSUME VersionInv, NEW r \in Requests, CommitVersion(r)
  PROVE  VersionInv'
<1>1. CASE Resolve(r)
  <2>1. request[r].pc \in Asking /\ UNCHANGED <<row, head, file, shown, credit>>
    BY <1>1 DEF Resolve, At, Asking, rows
  <2>2. CASE Refuse(r)
    BY <2>1, <2>2, Refuses
  <2>3. CASE Goto(r, "insert")
    BY <2>1, <2>3, RequestMoves DEF Asking, CommitSteps
  <2> QED BY <1>1, <2>2, <2>3 DEF Resolve
<1>2. CASE InsertFileVersionIfAbsent(r) /\ row[request[r].base + 1].won
  <2>1. /\ request[r].pc \in Asking /\ Goto(r, "lost")
        /\ UNCHANGED <<row, head, file, shown, credit>>
    BY <1>2 DEF InsertFileVersionIfAbsent, At, Asking, rows, history
  <2> QED BY <2>1, RequestMoves DEF Asking, CommitSteps
<1>3. CASE ResolveLost(r)
  <2>1. /\ request[r].pc \in Asking /\ Refuse(r)
        /\ UNCHANGED <<row, head, file, shown, credit>>
    BY <1>3 DEF ResolveLost, At, Asking, rows, history
  <2> QED BY <2>1, Refuses
<1>4. CASE AdvanceFileHead(r) /\ head # request[r].at
  <2>1. /\ request[r].pc \in Keeping /\ Goto(r, "advance")
        /\ UNCHANGED <<row, head, file, shown, credit>>
    BY <1>4 DEF AdvanceFileHead, At, Keeping, Winning, rows, history
  <2> QED BY <2>1, RequestMoves DEF Winning, CommitSteps
<1>5. CASE WriteFileManifest(r)
  <2>1. /\ request[r].pc \in Projecting /\ Answer(r, "new", Written(r))
        /\ credit' = [credit EXCEPT ![Written(r)] = @ + 1]
        /\ UNCHANGED <<row, head, file, shown>>
    BY <1>5 DEF WriteFileManifest, At, Projecting
  <2> QED BY <2>1, ReportStep
<1> QED BY <1>1, <1>2, <1>3, <1>4, <1>5, RequestReads, WinStep, HeadStep, ProjectStep
        DEF CommitVersion

-----------------------------------------------------------------------------
LEMMA VersionInitInv == MaxVersion \in Nat \ {0} /\ VersionInit => VersionInv
<1> SUFFICES ASSUME MaxVersion \in Nat \ {0}, VersionInit PROVE VersionInv
  OBVIOUS
<1>1. NoRow \in [bytes : Bits, from : Bits, won : BOOLEAN] /\ NoRow.bytes = 0 /\ ~NoRow.won
  BY DEF NoRow, Bits
<1>2. Idle \in Request /\ Idle.pc = "idle" /\ Idle.verdict = "none"
  BY DEF Idle, Request, Bits, CommitSteps
<1>3. 1 \in Versions /\ Current = 1
  BY DEF VersionInit, Versions, Current
<1>4. VersionTypes
  BY <1>1, <1>2, <1>3 DEF VersionInit, VersionTypes, Bits
<1>5. Chain /\ Loaded /\ Credits
  BY <1>1, <1>3 DEF VersionInit, Chain, Loaded, Credits, Versions, Bytes,
     MadeFromTheVersionBefore
<1>6. Alone /\ \A r \in Requests : Honest(r) /\ Winner(r) /\ Told(r)
  BY <1>2 DEF VersionInit, Alone, Honest, Winner, Told, Asking, Winning, Projecting
<1> QED BY <1>4, <1>5, <1>6 DEF VersionInv

LEMMA VersionNextInv == VersionInv /\ [VersionNext]_versionVars => VersionInv'
<1> SUFFICES ASSUME VersionInv, [VersionNext]_versionVars PROVE VersionInv'
  OBVIOUS
<1>1. CASE UNCHANGED versionVars
  BY <1>1 DEF versionVars, rows, history, VersionInv, VersionTypes, Chain, Loaded, Credits, Alone,
     Honest, Winner, Told, Written, Current, Bytes, MadeFromTheVersionBefore
<1> QED BY <1>1, LoadStep, SaveStep, CommitStep, RequestFails DEF VersionNext

LEMMA VersionInvariance == MaxVersion \in Nat \ {0} /\ VersionSpec => []VersionInv
  BY VersionInitInv, VersionNextInv, PTL DEF VersionSpec

(* No update is lost, whatever saves overlap, retry or die: every version  *)
(* was made from the bytes of the version before it (CommitVersion,        *)
(* InsertFileVersionIfAbsent).                                             *)
THEOREM NoLostUpdate ==
  MaxVersion \in Nat \ {0} /\ VersionSpec => []MadeFromTheVersionBefore
<1>1. VersionInv => MadeFromTheVersionBefore
  BY DEF VersionInv, Chain
<1> QED BY <1>1, VersionInvariance, PTL

(* A save that was told it is committed is: its bytes are a version the    *)
(* head has reached, and each version's blocks are counted at most once    *)
(* (CommitVersion, AdvanceFileHead).                                       *)
THEOREM CommittedStays == MaxVersion \in Nat \ {0} /\ VersionSpec => []CommittedIsKept
<1>1. VersionInv => CommittedIsKept
  BY DEF VersionInv, Told, Credits, CommittedIsKept
<1> QED BY <1>1, VersionInvariance, PTL

-----------------------------------------------------------------------------
(* Proof, for every number of calls, chunks and hashes, that an upload     *)
(* session keeps what it answered for and takes one reference per chunk,   *)
(* as long as no two calls recorded chunks at the same time (overlap) and  *)
(* none took a reference for a chunk another one was about (doubled).      *)
(*                                                                         *)
(* Then a call that is about to write the chunk map holds the map as it is *)
(* (Fresh), and the chunk it writes is absent and its own (Claims).        *)

HashesAreReal == \A c \in Index : 0 \notin Hashes[c]

Flags == {0} \cup UNION {Hashes[c] : c \in Index}
Claiming == {"block", "map", "record"}
Recorded == {"begin", "count", "load", "create", "complete"}
Statuses == {"none", "pending", "in_progress", "completed", "aborted"}
Call == [pc : {"idle", "get"} \cup Claiming \cup Recorded, chunk : Index \cup {1},
         hash : Flags, status : Statuses, map : [Index -> Flags]]

SessionTypes ==
  /\ HashesAreReal
  /\ status \in Statuses /\ map \in [Index -> Flags]
  /\ call \in [Calls -> Call] /\ deaths \in Nat
  /\ refs \in [Index -> Nat]

(* What a call carries.                                                    *)
Carries(k) ==
  ~CallAt(k, "idle") => call[k].chunk \in Index /\ call[k].hash # 0

Calm == ~overlap /\ ~doubled

Claims ==
  \A k \in Calls : call[k].pc \in Claiming =>
    /\ map[call[k].chunk] = 0
    /\ \A q \in Others(k) : call[q].pc \in Claiming => call[q].chunk # call[k].chunk

Fresh ==
  \A k \in Calls : CallAt(k, "record") =>
    call[k].map = map /\ \A q \in Others(k) : ~CallAt(q, "record")

(* What was answered for.                                                  *)
Answers == \A a \in acked : a[1] \in Index /\ a[2] # 0

RecordIsWritten == \A k \in Calls : call[k].pc \in Recorded => map[call[k].chunk] = call[k].hash

SessionInv ==
  /\ SessionTypes
  /\ (\A k \in Calls : Carries(k)) /\ Answers
  /\ Calm => Claims /\ Fresh /\ RecordIsWritten
  /\ AckedIsRecorded /\ ReferencesAreNamed

-----------------------------------------------------------------------------
LEMMA SessionInitInv == HashesAreReal /\ SessionInit => SessionInv
<1> SUFFICES ASSUME HashesAreReal, SessionInit PROVE SessionInv
  OBVIOUS
<1>1. Empty \in [Index -> Flags] /\ Empty \in [Index -> Nat]
  BY DEF Empty, Flags
<1>2. IdleCall \in Call /\ IdleCall.pc = "idle"
  <2>1. 0 \in Flags
    BY DEF Flags
  <2> QED BY <1>1, <2>1 DEF IdleCall, Call, Statuses
<1>3. SessionTypes
  BY <1>1, <1>2 DEF SessionInit, SessionTypes, Statuses
<1>4. (\A k \in Calls : Carries(k)) /\ Claims /\ Fresh /\ RecordIsWritten
  BY <1>2 DEF SessionInit, Carries, CallAt, Claims, Fresh, RecordIsWritten, Claiming, Recorded
<1>5. Answers /\ AckedIsRecorded /\ ReferencesAreNamed
  BY <1>2 DEF SessionInit, Answers, AckedIsRecorded, ReferencesAreNamed, Empty, Taking
<1> QED BY <1>3, <1>4, <1>5 DEF SessionInv

(* One call goes on, from a place to one of the same kind, or ends.        *)
LEMMA OneGoesOn ==
  ASSUME SessionInv, NEW k \in Calls, call' \in [Calls -> Call],
         \A q \in Others(k) : call'[q] = call[q],
         UNCHANGED <<map, deaths, refs, acked, overlap, doubled>>, status' \in Statuses,
         \/ call'[k].pc = "idle" /\ call[k].pc \notin Claiming
         \/ /\ call'[k].chunk = call[k].chunk /\ call'[k].hash = call[k].hash
            /\ call[k].pc \in Recorded /\ call'[k].pc \in Recorded
         \/ /\ call[k].pc = "idle" /\ call'[k].pc = "get"
            /\ call'[k].chunk \in Index /\ call'[k].hash # 0
  PROVE  SessionInv'
<1>1. SessionTypes' /\ Answers' /\ \A q \in Calls : Carries(q)'
  BY DEF SessionInv, SessionTypes, Answers, HashesAreReal, Carries, CallAt, Others, Recorded
<1>2. Claims /\ Fresh /\ RecordIsWritten => Claims' /\ Fresh' /\ RecordIsWritten'
  BY DEF Claims, Fresh, RecordIsWritten, CallAt, Others, Claiming, Recorded
<1>3. AckedIsRecorded'
  BY DEF SessionInv, AckedIsRecorded
<1>4. \A q \in Calls, c \in Index : (Taking(q, c) /\ ~CallAt(q, "block"))'
                                   <=> Taking(q, c) /\ ~CallAt(q, "block")
  BY DEF Taking, CallAt, Others, Claiming, Recorded
<1>5. ReferencesAreNamed'
  BY <1>4 DEF SessionInv, ReferencesAreNamed, Died
<1> QED BY <1>1, <1>2, <1>3, <1>5 DEF SessionInv, Calm

(* A call's next state as one record.                                      *)
LEMMA Going ==
  ASSUME SessionTypes, NEW k \in Calls, NEW step \in {"idle", "get"} \cup Claiming \cup Recorded,
         NEW s \in Statuses, NEW m \in [Index -> Flags],
         call' = [call EXCEPT ![k] = [call[k] EXCEPT !.pc = step, !.status = s, !.map = m]]
  PROVE  /\ call' \in [Calls -> Call]
         /\ call'[k].pc = step /\ call'[k].map = m
         /\ call'[k].chunk = call[k].chunk /\ call'[k].hash = call[k].hash
         /\ \A q \in Others(k) : call'[q] = call[q]
<1>1. call[k] \in Call
  BY DEF SessionTypes
<1>2. [call[k] EXCEPT !.pc = step, !.status = s, !.map = m] \in Call
  BY <1>1 DEF Call
<1> QED BY <1>1, <1>2 DEF SessionTypes, Others, Call

LEMMA SendStep ==
  ASSUME SessionInv, NEW k \in Calls, NEW c \in Index, NEW h \in Hashes[c], SendChunk(k, c, h)
  PROVE  SessionInv'
<1> DEFINE sent == [IdleCall EXCEPT !.pc = "get", !.chunk = c, !.hash = h]
<1>1. /\ call[k].pc = "idle" /\ call' = [call EXCEPT ![k] = sent]
      /\ UNCHANGED <<status, map, deaths, refs, acked, overlap, doubled>>
  BY DEF SendChunk, CallAt, sessionHistory
<1>2. h \in Flags /\ h # 0 /\ 0 \in Flags
  BY DEF SessionInv, SessionTypes, HashesAreReal, Flags
<1>3. IdleCall \in Call
  BY <1>2 DEF IdleCall, Call, Statuses, Empty
<1>4. sent \in Call /\ sent.pc = "get" /\ sent.chunk = c /\ sent.hash = h
  BY <1>2, <1>3 DEF Call
<1>5. /\ call' \in [Calls -> Call] /\ call'[k] = sent
      /\ \A q \in Others(k) : call'[q] = call[q]
  BY <1>1, <1>4 DEF SessionInv, SessionTypes, Others
<1> QED BY <1>1, <1>2, <1>4, <1>5, OneGoesOn DEF SessionInv, SessionTypes

LEMMA GetStep ==
  ASSUME SessionInv, NEW k \in Calls, GetSession(k)
  PROVE  SessionInv'
<1> DEFINE c == call[k].chunk
<1>1. /\ call[k].pc = "get" /\ c \in Index /\ call[k].hash # 0 /\ call[k] \in Call
      /\ UNCHANGED <<status, map, deaths, refs, acked, overlap>>
  BY DEF GetSession, CallAt, SessionInv, Carries, SessionTypes
<1>2. CASE call' = [call EXCEPT ![k] = IdleCall] /\ UNCHANGED doubled
  <2>1. IdleCall \in Call /\ IdleCall.pc = "idle"
    <3>1. 0 \in Flags /\ Empty \in [Index -> Flags]
      BY DEF Flags, Empty
    <3> QED BY <3>1 DEF IdleCall, Call, Statuses
  <2>2. /\ call' \in [Calls -> Call] /\ call'[k].pc = "idle"
        /\ \A q \in Others(k) : call'[q] = call[q]
    BY <1>2, <2>1 DEF SessionInv, SessionTypes, Others
  <2> QED BY <1>1, <1>2, <2>2, OneGoesOn DEF SessionInv, SessionTypes, Claiming
<1>3. CASE /\ map[c] \in {0, call[k].hash} /\ status \in Statuses
           /\ call' = [call EXCEPT ![k].pc = IF map[c] = 0 THEN "block" ELSE "begin",
                                   ![k].status = status]
           /\ doubled' = (doubled \/ \E q \in Others(k) : map[c] = 0 /\ Taking(q, c))
  <2> DEFINE step == IF map[c] = 0 THEN "block" ELSE "begin"
  <2>1. call' = [call EXCEPT ![k] =
                   [call[k] EXCEPT !.pc = step, !.status = status, !.map = call[k].map]]
    BY <1>1, <1>3 DEF SessionInv, SessionTypes, Call
  <2>2. step \in {"idle", "get"} \cup Claiming \cup Recorded /\ call[k].map \in [Index -> Flags]
    BY <1>1 DEF Claiming, Recorded, Call
  <2>3. /\ call' \in [Calls -> Call] /\ call'[k].pc = step
        /\ call'[k].chunk = c /\ call'[k].hash = call[k].hash
        /\ \A q \in Others(k) : call'[q] = call[q]
    <3>1. SessionTypes /\ status \in Statuses
      BY <1>3 DEF SessionInv
    <3> HIDE DEF step
    <3> QED BY <2>1, <2>2, <3>1, Going
  <2>4. SessionTypes' /\ Answers' /\ \A q \in Calls : Carries(q)'
    BY <1>1, <2>3 DEF SessionInv, SessionTypes, Answers, HashesAreReal, Carries, CallAt, Others
  <2>5. ASSUME Calm' PROVE Claims' /\ Fresh' /\ RecordIsWritten'
    <3>1. Calm /\ (step = "block" => \A q \in Others(k) : ~Taking(q, c))
      BY <1>1, <1>3, <2>5 DEF Calm
    <3>2. step = "block" =>
            \A q \in Others(k) : call[q].pc \in Claiming => call[q].chunk # c
      BY <3>1 DEF Taking, Claiming
    <3>3. Claims'
      BY <1>1, <2>3, <3>1, <3>2 DEF SessionInv, Claims, Others, Claiming
    <3>4. Fresh'
      BY <1>1, <2>3, <3>1 DEF SessionInv, Fresh, CallAt, Others
    <3>5. RecordIsWritten'
      BY <1>1, <1>3, <2>3, <3>1 DEF SessionInv, RecordIsWritten, Others, Recorded
    <3> QED BY <3>3, <3>4, <3>5
  <2>6. AckedIsRecorded'
    BY <1>1, <1>3 DEF SessionInv, AckedIsRecorded
  <2>7. \A q \in Calls, d \in Index : (Taking(q, d) /\ ~CallAt(q, "block"))'
                                     <=> Taking(q, d) /\ ~CallAt(q, "block")
    BY <1>1, <2>3 DEF Taking, CallAt, Others
  <2>8. ReferencesAreNamed'
    BY <1>1, <1>3, <2>7 DEF SessionInv, ReferencesAreNamed, Died
  <2> QED BY <2>4, <2>5, <2>6, <2>8 DEF SessionInv
<1> QED BY <1>2, <1>3 DEF GetSession, Statuses

LEMMA TakeStep ==
  ASSUME SessionInv, NEW k \in Calls, TakeReference(k)
  PROVE  SessionInv'
<1> DEFINE c == call[k].chunk
<1>1. /\ call[k].pc = "block" /\ c \in Index /\ call[k] \in Call
      /\ call' = [call EXCEPT ![k].pc = "map"] /\ refs' = [refs EXCEPT ![c] = @ + 1]
      /\ UNCHANGED <<status, map, deaths, acked, overlap, doubled>>
  BY DEF TakeReference, MoveCall, CallAt, SessionInv, Carries, SessionTypes
<1>2. /\ call' = [call EXCEPT ![k] =
                   [call[k] EXCEPT !.pc = "map", !.status = call[k].status, !.map = call[k].map]]
      /\ call[k].status \in Statuses /\ call[k].map \in [Index -> Flags]
  BY <1>1 DEF SessionInv, SessionTypes, Call
<1>3. /\ call' \in [Calls -> Call] /\ call'[k].pc = "map"
      /\ call'[k].chunk = c /\ call'[k].hash = call[k].hash
      /\ \A q \in Others(k) : call'[q] = call[q]
  BY <1>2, Going DEF SessionInv, Claiming
<1>4. SessionTypes' /\ Answers' /\ \A q \in Calls : Carries(q)'
  BY <1>1, <1>3 DEF SessionInv, SessionTypes, Answers, HashesAreReal, Carries, CallAt, Others
<1>5. Claims /\ Fresh /\ RecordIsWritten => Claims' /\ Fresh' /\ RecordIsWritten'
  BY <1>1, <1>3 DEF Claims, Fresh, RecordIsWritten, CallAt, Others, Claiming, Recorded
<1>6. AckedIsRecorded'
  BY <1>1 DEF SessionInv, AckedIsRecorded
<1>7. ASSUME Calm, ~Died PROVE ReferencesAreNamed'
  <2>1. map[c] = 0 /\ \A q \in Others(k) : ~Taking(q, c)
    BY <1>1, <1>7 DEF SessionInv, Claims, Taking, Claiming
  <2>2. refs[c] = 0
    BY <1>1, <1>7, <2>1 DEF SessionInv, ReferencesAreNamed, Calm, CallAt, Others
  <2>3. refs'[c] = 1 /\ \A d \in Index \ {c} : refs'[d] = refs[d]
    BY <1>1, <2>2 DEF SessionInv, SessionTypes
  <2>4. \A d \in Index : d = c => (Taking(k, d) /\ ~CallAt(k, "block"))'
    BY <1>3 DEF Taking, CallAt
  <2>5. \A q \in Calls, d \in Index \ {c} : (Taking(q, d) /\ ~CallAt(q, "block"))'
                                           <=> Taking(q, d) /\ ~CallAt(q, "block")
    BY <1>1, <1>3 DEF Taking, CallAt, Others
  <2>6. \A d \in Index \ {c} :
          refs'[d] = IF map'[d] # 0 \/ \E q \in Calls : (Taking(q, d) /\ ~CallAt(q, "block"))'
                     THEN 1 ELSE 0
    BY <1>1, <1>7, <2>3, <2>5 DEF SessionInv, ReferencesAreNamed, Calm
  <2>7. ASSUME NEW d \in Index
        PROVE  refs'[d] = IF map'[d] # 0 \/ \E q \in Calls : (Taking(q, d) /\ ~CallAt(q, "block"))'
                          THEN 1 ELSE 0
    <3>1. CASE d = c
      BY <2>3, <2>4, <3>1
    <3>2. CASE d # c
      BY <2>6, <3>2
    <3> QED BY <3>1, <3>2
  <2> QED BY <2>7 DEF ReferencesAreNamed
<1>8. ReferencesAreNamed'
  BY <1>1, <1>7 DEF ReferencesAreNamed, Calm, Died
<1> QED BY <1>1, <1>4, <1>5, <1>6, <1>8 DEF SessionInv, Calm

(* The map read is the map written, unless another call is between the two.*)
LEMMA ReadStep ==
  ASSUME SessionInv, NEW k \in Calls, ReadChunkMap(k)
  PROVE  SessionInv'
<1> DEFINE c == call[k].chunk
<1>1. /\ call[k].pc = "map" /\ c \in Index /\ call[k] \in Call
      /\ call' = [call EXCEPT ![k].pc = "record", ![k].map = map]
      /\ overlap' = (overlap \/ \E q \in Others(k) : CallAt(q, "record"))
      /\ UNCHANGED <<status, map, deaths, refs, acked, doubled>>
  BY DEF ReadChunkMap, CallAt, SessionInv, Carries, SessionTypes
<1>2. /\ call' = [call EXCEPT ![k] =
                   [call[k] EXCEPT !.pc = "record", !.status = call[k].status, !.map = map]]
      /\ call[k].status \in Statuses /\ map \in [Index -> Flags]
  BY <1>1 DEF SessionInv, SessionTypes, Call
<1>3. /\ call' \in [Calls -> Call] /\ call'[k].pc = "record" /\ call'[k].map = map
      /\ call'[k].chunk = c /\ call'[k].hash = call[k].hash
      /\ \A q \in Others(k) : call'[q] = call[q]
  <2> DEFINE next == [call[k] EXCEPT !.pc = "record", !.status = call[k].status, !.map = map]
  <2>1. /\ next \in Call /\ next.pc = "record" /\ next.map = map /\ next.chunk = call[k].chunk
        /\ next.hash = call[k].hash
    BY <1>1, <1>2 DEF Call, Claiming
  <2>2. call' = [call EXCEPT ![k] = next] /\ call \in [Calls -> Call]
    BY <1>2 DEF SessionInv, SessionTypes
  <2> QED BY <2>1, <2>2 DEF Others
<1>4. SessionTypes' /\ Answers' /\ \A q \in Calls : Carries(q)'
  BY <1>1, <1>3 DEF SessionInv, SessionTypes, Answers, HashesAreReal, Carries, CallAt, Others
<1>5. ASSUME Calm' PROVE Claims' /\ Fresh' /\ RecordIsWritten'
  <2>1. Calm /\ \A q \in Others(k) : ~CallAt(q, "record")
    BY <1>1, <1>5 DEF Calm
  <2>2. Claims' /\ RecordIsWritten'
    BY <1>1, <1>3, <2>1 DEF SessionInv, Claims, RecordIsWritten, Others, Claiming, Recorded
  <2>3. Fresh'
    BY <1>1, <1>3, <2>1 DEF SessionInv, Fresh, CallAt, Others
  <2> QED BY <2>2, <2>3
<1>6. AckedIsRecorded'
  BY <1>1 DEF SessionInv, AckedIsRecorded
<1>7. \A q \in Calls, d \in Index : (Taking(q, d) /\ ~CallAt(q, "block"))'
                                   <=> Taking(q, d) /\ ~CallAt(q, "block")
  BY <1>1, <1>3 DEF Taking, CallAt, Others
<1>8. ReferencesAreNamed'
  BY <1>1, <1>7 DEF SessionInv, ReferencesAreNamed, Died
<1> QED BY <1>4, <1>5, <1>6, <1>8 DEF SessionInv

(* So writing the whole map adds one chunk to it.                          *)
LEMMA RecordStep ==
  ASSUME SessionInv, NEW k \in Calls, RecordBlockForChunk(k)
  PROVE  SessionInv'
<1> DEFINE c == call[k].chunk
           h == call[k].hash
<1>1. /\ call[k].pc = "record" /\ c \in Index /\ h # 0 /\ call[k] \in Call
      /\ map' = [call[k].map EXCEPT ![c] = h]
      /\ call' = [call EXCEPT ![k].pc = "begin", ![k].map = Empty]
      /\ UNCHANGED <<status, deaths, refs, acked, overlap, doubled>>
  BY DEF RecordBlockForChunk, CallAt, SessionInv, Carries, SessionTypes, sessionHistory
<1>2. /\ call' = [call EXCEPT ![k] =
                   [call[k] EXCEPT !.pc = "begin", !.status = call[k].status, !.map = Empty]]
      /\ call[k].status \in Statuses /\ Empty \in [Index -> Flags]
  BY <1>1 DEF SessionInv, SessionTypes, Call, Empty, Flags
<1>3. /\ call' \in [Calls -> Call] /\ call'[k].pc = "begin"
      /\ call'[k].chunk = c /\ call'[k].hash = h
      /\ \A q \in Others(k) : call'[q] = call[q]
  BY <1>2, Going DEF SessionInv, Recorded
<1>4. map' \in [Index -> Flags] /\ map'[c] = h
  BY <1>1 DEF Call
<1>5. SessionTypes' /\ Answers' /\ \A q \in Calls : Carries(q)'
  BY <1>1, <1>3, <1>4 DEF SessionInv, SessionTypes, Answers, HashesAreReal, Carries, CallAt, Others
<1>6. ASSUME Calm
      PROVE  /\ Claims' /\ Fresh' /\ RecordIsWritten' /\ AckedIsRecorded'
             /\ ~Died => ReferencesAreNamed'
  <2>1. /\ map[c] = 0 /\ \A d \in Index \ {c} : map'[d] = map[d]
        /\ \A q \in Others(k) : ~CallAt(q, "record")
        /\ \A q \in Others(k) : call[q].pc \in Claiming => call[q].chunk # c
    BY <1>1, <1>6 DEF SessionInv, SessionTypes, Claims, Fresh, CallAt, Claiming
  <2>2. Claims'
    BY <1>1, <1>3, <1>6, <2>1 DEF SessionInv, Claims, Carries, CallAt, Others, Claiming
  <2>3. Fresh'
    BY <1>3, <2>1 DEF Fresh, CallAt, Others
  <2>4. ASSUME NEW q \in Others(k), call[q].pc \in Recorded
        PROVE  map'[call[q].chunk] = call[q].hash
    <3>1. /\ q \in Calls /\ call[q].chunk \in Index /\ call[q].hash # 0
          /\ map[call[q].chunk] = call[q].hash
      BY <1>6, <2>4 DEF SessionInv, RecordIsWritten, Carries, CallAt, Others, Recorded
    <3> QED BY <2>1, <3>1
  <2>5. RecordIsWritten'
    BY <1>3, <1>4, <2>4 DEF RecordIsWritten, Others
  <2>6. AckedIsRecorded'
    BY <1>1, <1>4, <1>6, <2>1 DEF SessionInv, Answers, AckedIsRecorded, Calm
  <2>7. ASSUME ~Died PROVE ReferencesAreNamed'
    <3>1. \A q \in Calls, d \in Index \ {c} : (Taking(q, d) /\ ~CallAt(q, "block"))'
                                             <=> Taking(q, d) /\ ~CallAt(q, "block")
      BY <1>1, <1>3 DEF Taking, CallAt, Others
    <3>2. refs[c] = 1
      BY <1>1, <1>6, <2>7 DEF SessionInv, ReferencesAreNamed, Calm, Taking, CallAt
    <3>3. \A d \in Index :
            refs'[d] = IF map'[d] # 0 \/ \E q \in Calls : (Taking(q, d) /\ ~CallAt(q, "block"))'
                       THEN 1 ELSE 0
      BY <1>1, <1>4, <1>6, <2>1, <2>7, <3>1, <3>2 DEF SessionInv, ReferencesAreNamed, Calm
    <3> QED BY <3>3 DEF ReferencesAreNamed
  <2> QED BY <2>2, <2>3, <2>5, <2>6, <2>7
<1>7. AckedIsRecorded' /\ ReferencesAreNamed'
  BY <1>1, <1>6 DEF AckedIsRecorded, ReferencesAreNamed, Calm, Died
<1> QED BY <1>1, <1>5, <1>6, <1>7 DEF SessionInv, Calm

(* An answer: what the call recorded is in the map.                        *)
LEMMA AnswerStep ==
  ASSUME SessionInv, NEW k \in Calls, call[k].pc \in Recorded, AnswerCall(k),
         UNCHANGED <<map, deaths, refs, overlap, doubled>>, status' \in Statuses
  PROVE  SessionInv'
<1>1. /\ call' = [call EXCEPT ![k] = IdleCall]
      /\ acked' = acked \cup {<<call[k].chunk, call[k].hash>>}
  BY DEF AnswerCall
<1>2. IdleCall \in Call /\ IdleCall.pc = "idle"
  <2>1. 0 \in Flags /\ Empty \in [Index -> Flags]
    BY DEF Flags, Empty
  <2> QED BY <2>1 DEF IdleCall, Call, Statuses
<1>3. /\ call' \in [Calls -> Call] /\ call'[k].pc = "idle"
      /\ \A q \in Others(k) : call'[q] = call[q]
  BY <1>1, <1>2 DEF SessionInv, SessionTypes, Others
<1>4. call[k].chunk \in Index /\ call[k].hash # 0
  BY DEF SessionInv, Carries, CallAt, Recorded
<1>5. SessionTypes' /\ Answers' /\ \A q \in Calls : Carries(q)'
  BY <1>1, <1>3, <1>4 DEF SessionInv, SessionTypes, Answers, HashesAreReal, Carries, CallAt, Others
<1>6. Claims /\ Fresh /\ RecordIsWritten => Claims' /\ Fresh' /\ RecordIsWritten'
  BY <1>3 DEF Claims, Fresh, RecordIsWritten, CallAt, Others, Claiming, Recorded
<1>7. Calm => map[call[k].chunk] = call[k].hash
  BY DEF SessionInv, RecordIsWritten
<1>8. AckedIsRecorded'
  BY <1>1, <1>7 DEF SessionInv, AckedIsRecorded, Calm
<1>9. \A q \in Calls, d \in Index : (Taking(q, d) /\ ~CallAt(q, "block"))'
                                   <=> Taking(q, d) /\ ~CallAt(q, "block")
  BY <1>3 DEF Taking, CallAt, Others, Recorded
<1>10. ReferencesAreNamed'
  BY <1>9 DEF SessionInv, ReferencesAreNamed, Died
<1> QED BY <1>5, <1>6, <1>8, <1>10 DEF SessionInv, Calm

(* The steps after the map is written.                                     *)
LEMMA LaterStep ==
  ASSUME SessionInv, NEW k \in Calls,
         BeginUpload(k) \/ CountChunks(k) \/ LoadSession(k) \/ CreateMetadataRecord(k)
         \/ CompleteSession(k)
  PROVE  SessionInv'
<1>1. /\ call[k].pc \in Recorded /\ UNCHANGED <<map, deaths, refs, overlap, doubled>>
      /\ status' \in Statuses
  BY DEF BeginUpload, CountChunks, LoadSession, CreateMetadataRecord, CompleteSession, CallAt,
     Recorded, sessionHistory, SessionInv, SessionTypes, Statuses
<1>2. CASE AnswerCall(k)
  BY <1>1, <1>2, AnswerStep
<1>3. ASSUME NEW step \in Recorded, NEW s \in Statuses, NEW m \in [Index -> Flags],
             call' = [call EXCEPT ![k] = [call[k] EXCEPT !.pc = step, !.status = s, !.map = m]],
             UNCHANGED acked
      PROVE  SessionInv'
  <2>1. SessionTypes /\ step \in {"idle", "get"} \cup Claiming \cup Recorded
    BY <1>3 DEF SessionInv
  <2>2. /\ call' \in [Calls -> Call] /\ call'[k].pc = step
        /\ call'[k].chunk = call[k].chunk /\ call'[k].hash = call[k].hash
        /\ \A q \in Others(k) : call'[q] = call[q]
    BY <1>3, <2>1, Going
  <2> QED BY <1>1, <1>3, <2>2, OneGoesOn
<1>4. /\ call[k] \in Call /\ call[k].status \in Statuses /\ call[k].map \in [Index -> Flags]
      /\ map \in [Index -> Flags] /\ Empty \in [Index -> Flags] /\ call \in [Calls -> Call]
  BY DEF SessionInv, SessionTypes, Call, Empty, Flags
<1>5. CASE BeginUpload(k)
  <2>1. /\ call' = [call EXCEPT ![k] =
                     [call[k] EXCEPT !.pc = "count", !.status = "none", !.map = call[k].map]]
        /\ UNCHANGED acked
    BY <1>4, <1>5 DEF BeginUpload, sessionHistory, Call
  <2> QED BY <1>3, <1>4, <2>1 DEF Recorded, Statuses
<1>6. CASE CountChunks(k) /\ ~AnswerCall(k)
  <2>1. /\ call' = [call EXCEPT ![k] = [call[k] EXCEPT !.pc = "load",
                                       !.status = call[k].status, !.map = call[k].map]]
        /\ UNCHANGED acked
    BY <1>4, <1>6 DEF CountChunks, MoveCall, Call
  <2> QED BY <1>3, <1>4, <2>1 DEF Recorded
<1>7. CASE LoadSession(k)
  <2>1. /\ call' = [call EXCEPT ![k] = [call[k] EXCEPT !.pc = "create",
                                       !.status = call[k].status, !.map = map]]
        /\ UNCHANGED acked
    BY <1>4, <1>7 DEF LoadSession, sessionHistory, Call
  <2> QED BY <1>3, <1>4, <2>1 DEF Recorded
<1>8. CASE CreateMetadataRecord(k)
  <2>1. /\ call' = [call EXCEPT ![k] = [call[k] EXCEPT !.pc = "complete",
                                       !.status = call[k].status, !.map = Empty]]
        /\ UNCHANGED acked
    BY <1>4, <1>8 DEF CreateMetadataRecord, Call
  <2> QED BY <1>3, <1>4, <2>1 DEF Recorded
<1> QED BY <1>2, <1>5, <1>6, <1>7, <1>8 DEF CompleteSession

LEMMA FailStep ==
  ASSUME SessionInv, NEW k \in Calls, FailCall(k)
  PROVE  SessionInv'
<1>1. /\ call' = [call EXCEPT ![k] = IdleCall] /\ deaths' = deaths + 1
      /\ UNCHANGED <<status, map, refs, acked, overlap, doubled>>
  BY DEF FailCall
<1>2. IdleCall \in Call /\ IdleCall.pc = "idle"
  <2>1. 0 \in Flags /\ Empty \in [Index -> Flags]
    BY DEF Flags, Empty
  <2> QED BY <2>1 DEF IdleCall, Call, Statuses
<1>3. /\ call' \in [Calls -> Call] /\ call'[k].pc = "idle"
      /\ \A q \in Others(k) : call'[q] = call[q]
  BY <1>1, <1>2 DEF SessionInv, SessionTypes, Others
<1>4. SessionTypes' /\ Answers' /\ \A q \in Calls : Carries(q)'
  BY <1>1, <1>3 DEF SessionInv, SessionTypes, Answers, HashesAreReal, Carries, CallAt, Others
<1>5. Claims /\ Fresh /\ RecordIsWritten => Claims' /\ Fresh' /\ RecordIsWritten'
  BY <1>1, <1>3 DEF Claims, Fresh, RecordIsWritten, CallAt, Others, Claiming, Recorded
<1>6. AckedIsRecorded' /\ ReferencesAreNamed'
  BY <1>1 DEF SessionInv, SessionTypes, AckedIsRecorded, ReferencesAreNamed, Died
<1> QED BY <1>1, <1>4, <1>5, <1>6 DEF SessionInv, Calm

LEMMA AbortStep == ASSUME SessionInv, AbortUpload PROVE SessionInv'
<1>1. /\ status' \in Statuses /\ UNCHANGED <<map, call, deaths, refs, acked, overlap, doubled>>
  BY DEF AbortUpload, Statuses
<1> QED BY <1>1 DEF SessionInv, SessionTypes, Answers, HashesAreReal, Carries, CallAt, Calm, Claims, Fresh,
     RecordIsWritten, AckedIsRecorded, ReferencesAreNamed, Taking, Died

-----------------------------------------------------------------------------
LEMMA SessionNextInv == SessionInv /\ [SessionNext]_sessionVars => SessionInv'
<1> SUFFICES ASSUME SessionInv, [SessionNext]_sessionVars PROVE SessionInv'
  OBVIOUS
<1>1. ASSUME NEW k \in Calls, ReceiveChunk(k) PROVE SessionInv'
  BY <1>1, GetStep, TakeStep, ReadStep, RecordStep, LaterStep DEF ReceiveChunk
<1>2. CASE UNCHANGED sessionVars
  BY <1>2 DEF sessionVars, sessionHistory, SessionInv, SessionTypes, Answers, HashesAreReal, Carries, CallAt, Calm,
     Claims, Fresh, RecordIsWritten, AckedIsRecorded, ReferencesAreNamed, Taking, Died
<1> QED BY <1>1, <1>2, SendStep, FailStep, AbortStep DEF SessionNext

LEMMA SessionInvariance == HashesAreReal /\ SessionSpec => []SessionInv
  BY SessionInitInv, SessionNextInv, PTL DEF SessionSpec

(* Calls that do not record at the same time lose nothing they answered    *)
(* for, whichever chunks they are about, fail or are sent again            *)
(* (ReceiveChunk, RecordBlockForChunk).                                    *)
THEOREM AnsweredStays == HashesAreReal /\ SessionSpec => []AckedIsRecorded
<1>1. SessionInv => AckedIsRecorded
  BY DEF SessionInv
<1> QED BY <1>1, SessionInvariance, PTL

(* They take one reference for every chunk the map names and none for      *)
(* another, until one of them dies (ReceiveChunk).                         *)
THEOREM OneReferenceEach == HashesAreReal /\ SessionSpec => []ReferencesAreNamed
<1>1. SessionInv => ReferencesAreNamed
  BY DEF SessionInv
<1> QED BY <1>1, SessionInvariance, PTL

-----------------------------------------------------------------------------
(* Proof, for every number of workers, versions, tickets, attempts and     *)
(* faults, that outside the windows the histories name a ready copy is of  *)
(* the newest version, bytes go out under the tag of their own, and a      *)
(* purge leaves nothing.                                                   *)
(*                                                                         *)
(* Without a race no worker is at work during a commit or a purge (Apart), *)
(* so a job finds what it deletes as it left it (Purged), and whoever      *)
(* copies copies the newest version (Copied).                              *)

States == {"none", "pending", "stitching", "failed", "ready", "skipped"}
Marking == {"ready?", "ready"}
Places == {"idle", "reap", "claim", "index first", "insert", "update", "unindex", "reindex",
           "manifest", "copy", "failed?", "skipped?", "skipped", "drop", "failed", "retire",
           "relist"} \cup Marking
Worker == [pc : Places, seen : States, read : Nat]
Early == {"clear", "write"}
Deleting == {"object", "row", "unlist", "clear"}
JobSteps == {"none", "clear", "write", "uncache", "object", "row", "unlist", "enqueue", "list",
          "insert"}
Reader == [pc : {"idle", "manifest", "key", "cache", "stream", "sent"}, ticket : Tickets \cup {0},
           version : Nat, key : BOOLEAN, bytes : Nat]

CopyTypes ==
  /\ live \in {"yes", "trashed", "gone"} /\ version \in Nat /\ fileManifest \in Nat
  /\ stitchRow \in [state : States, attempts : Nat] /\ index \subseteq States /\ object \in Nat
  /\ worker \in [Workers -> Worker]
  /\ job \in [pc : JobSteps, purge : BOOLEAN]
  /\ cache \in [version : Nat, key : BOOLEAN] /\ reader \in Reader
  /\ raced \in BOOLEAN /\ overlapped \in BOOLEAN /\ lost \in BOOLEAN

(* Which jobs a file in which state may have.                              *)
Jobs ==
  /\ job.purge => job.pc \in Deleting /\ live = "trashed"
  /\ job.pc # "none" /\ ~job.purge => live = "yes"

Apart == job.pc # "none" => \A w \in Workers : ~Busy(w)

Purged ==
  /\ job.purge /\ job.pc \in {"clear", "row", "unlist"} => object = 0
  /\ job.purge /\ job.pc = "unlist" => stitchRow = NoStitch
  /\ live = "gone" => /\ stitchRow = NoStitch /\ index = {} /\ object = 0
                      /\ \A w \in Workers : ~Busy(w)

Committing == job.pc # "none" /\ ~job.purge

Held ==
  /\ ~Committing => fileManifest \in {0, version} /\ object \in {0, version}
  /\ live = "yes" /\ job.pc \notin Early => fileManifest = version
  /\ live = "yes" /\ job.pc = "none" /\ stitchRow.state = "ready" => object = version
  /\ Committing /\ job.pc \notin Early \cup {"uncache", "object"} => object = 0
  /\ Committing /\ job.pc \in {"unlist", "enqueue", "list", "insert"} => stitchRow.state = "none"

Copied ==
  /\ Held
  /\ \A w \in Workers : /\ WorkerAt(w, "copy") => worker[w].read = version
                        /\ worker[w].pc \in Marking => object = version

(* What the content server cached or reads is of the newest version.       *)
Cached ==
  /\ ~Committing => cache.version \in {0, version}
  /\ Committing /\ job.pc \notin Early \cup {"uncache"} => cache.version = 0

Read ==
  /\ Cached
  /\ job.pc # "none" => reader.pc = "idle"
  /\ reader.pc \in {"key", "cache", "stream", "sent"} => reader.version = version
  /\ reader.pc = "sent" => reader.bytes \in {0, reader.version}

Ticketed == reader.pc \in {"stream", "sent"} => reader.ticket \in {0, reader.version}

CopyInv ==
  /\ CopyTypes /\ Jobs /\ Ticketed
  /\ ~raced => Apart /\ Purged
  /\ ~raced /\ ~lost => Copied
  /\ ~raced /\ ~lost /\ ~overlapped => Read

-----------------------------------------------------------------------------
LEMMA CopyInitInv == ConsolidationInit => CopyInv
<1> SUFFICES ASSUME ConsolidationInit PROVE CopyInv
  OBVIOUS
<1>1. /\ Resting \in Worker /\ Resting.pc = "idle" /\ NoStitch \in [state : States, attempts : Nat]
      /\ NoJob \in [pc : JobSteps, purge : BOOLEAN] /\ NoJob.pc = "none" /\ ~NoJob.purge
      /\ NoEntry \in [version : Nat, key : BOOLEAN] /\ NoEntry.version = 0
      /\ NoRead \in Reader /\ NoRead.pc = "idle" /\ NoStitch.state = "none"
  BY DEF Resting, Worker, Places, States, NoStitch, NoJob, JobSteps, NoEntry, NoRead, Reader
<1>2. CopyTypes
  <2>1. stitchRow \in [state : States, attempts : Nat] /\ index \subseteq States
    BY <1>1 DEF ConsolidationInit, States
  <2>2. worker \in [Workers -> Worker]
    BY <1>1 DEF ConsolidationInit
  <2> QED BY <1>1, <2>1, <2>2 DEF ConsolidationInit, CopyTypes
<1>3. Jobs /\ Ticketed /\ Apart /\ Purged /\ Read
  BY <1>1 DEF ConsolidationInit, Jobs, Ticketed, Apart, Purged, Read, Cached, Committing
<1>4. Copied
  BY <1>1 DEF ConsolidationInit, Copied, Held, Committing, Early, WorkerAt, Marking
<1> QED BY <1>2, <1>3, <1>4 DEF CopyInv

-----------------------------------------------------------------------------
(* ---- the sweep ---------------------------------------------------------- *)

(* What a step of a worker may do: it runs outside every job and only for  *)
(* a file that is there, copies what it read, and calls ready what it or   *)
(* another has copied.                                                     *)
LEMMA WorkerFrame ==
  ASSUME CopyInv, NEW w \in Workers, worker' \in [Workers -> Worker],
         \A v \in Workers \ {w} : worker'[v] = worker[v],
         UNCHANGED Outside, raced' \in BOOLEAN, raced => raced',
         stitchRow' \in [state : States, attempts : Nat], index' \subseteq States, object' \in Nat,
         Busy(w) \/ index # {},
         ~raced' => Busy(w) \/ job.pc = "none",
         stitchRow'.state = "ready" => stitchRow.state = "ready" \/ worker[w].pc \in Marking,
         object' = object \/ (WorkerAt(w, "copy") /\ object' = worker[w].read),
         worker'[w].pc = "copy" =>
           WorkerAt(w, "manifest") /\ worker'[w].read = fileManifest /\ fileManifest # 0,
         worker'[w].pc \in Marking =>
           worker[w].pc \in Marking \/ (WorkerAt(w, "copy") /\ object' = worker[w].read)
  PROVE  CopyInv'
<1>1. UNCHANGED <<live, version, fileManifest, job, cache, reader, overlapped, lost>>
  BY DEF Outside, served
<1>2. CopyTypes' /\ Jobs' /\ Ticketed'
  BY <1>1 DEF CopyInv, CopyTypes, Jobs, Ticketed
<1>3. ~raced' => /\ ~raced /\ Apart /\ Purged /\ job.pc = "none" /\ live # "gone"
  BY DEF CopyInv, Apart, Purged
<1>4. ~raced' => Apart' /\ Purged'
  BY <1>1, <1>3 DEF Apart, Purged, CopyInv, Jobs, Deleting
<1>5. ASSUME ~raced', ~lost' PROVE Copied'
  <2>1. Copied /\ job.pc = "none" /\ ~Committing /\ ~Committing' /\ UNCHANGED version
    BY <1>1, <1>3, <1>5 DEF CopyInv, Committing
  <2>2. fileManifest \in {0, version} /\ object' \in {0, version}
    BY <2>1 DEF Copied, Held
  <2>3. live = "yes" /\ stitchRow'.state = "ready" => object' = version
    BY <2>1 DEF Copied, Held
  <2>4. \A v \in Workers : /\ (WorkerAt(v, "copy"))' => worker'[v].read = version
                           /\ worker'[v].pc \in Marking => object' = version
    BY <2>1, <2>2 DEF Copied, Held, WorkerAt
  <2> QED BY <1>1, <2>1, <2>2, <2>3, <2>4 DEF Copied, Held, Early
<1>6. ~raced' /\ ~lost' /\ ~overlapped' => Read'
  BY <1>1, <1>3 DEF CopyInv, Read, Cached, Committing
<1> QED BY <1>2, <1>4, <1>5, <1>6 DEF CopyInv

LEMMA WorkerMoves ==
  ASSUME CopyTypes, NEW w \in Workers,
         \/ RestWorker(w)
         \/ \E step \in Places : MoveWorker(w, step) \/ Saw(w, step)
  PROVE  /\ worker' \in [Workers -> Worker]
         /\ \A v \in Workers \ {w} : worker'[v] = worker[v]
<1>1. Resting \in Worker
  BY DEF Resting, Worker, Places, States
<1>2. worker[w] \in Worker /\ stitchRow.state \in States
  BY DEF CopyTypes
<1>3. CASE RestWorker(w)
  BY <1>1, <1>3 DEF RestWorker, CopyTypes
<1>4. ASSUME NEW step \in Places, MoveWorker(w, step) PROVE worker' \in [Workers -> Worker]
  <2>1. worker' = [worker EXCEPT ![w] = [worker[w] EXCEPT !.pc = step]]
    BY <1>4 DEF MoveWorker, CopyTypes
  <2>2. [worker[w] EXCEPT !.pc = step] \in Worker
    BY <1>2, <1>4 DEF Worker
  <2> QED BY <2>1, <2>2 DEF CopyTypes
<1>5. ASSUME NEW step \in Places, Saw(w, step) PROVE worker' \in [Workers -> Worker]
  <2>1. worker' = [worker EXCEPT ![w] = [worker[w] EXCEPT !.pc = step, !.seen = stitchRow.state]]
    BY <1>5 DEF Saw, CopyTypes
  <2>2. [worker[w] EXCEPT !.pc = step, !.seen = stitchRow.state] \in Worker
    BY <1>2, <1>5 DEF Worker
  <2> QED BY <2>1, <2>2 DEF CopyTypes
<1>6. \A v \in Workers \ {w} : worker'[v] = worker[v]
  BY DEF RestWorker, MoveWorker, Saw, CopyTypes
<1> QED BY <1>3, <1>4, <1>5, <1>6

LEMMA Lands ==
  ASSUME CopyTypes, NEW w \in Workers, NEW step, MoveWorker(w, step) \/ Saw(w, step)
  PROVE  worker'[w].pc = step
  BY DEF MoveWorker, Saw, CopyTypes, Worker

LEMMA Rests == ASSUME CopyTypes, NEW w \in Workers, RestWorker(w) PROVE worker'[w].pc = "idle"
  BY DEF RestWorker, CopyTypes, Resting

(* A step that goes neither to the copy nor to the marks.                  *)
LEMMA PlainStep ==
  ASSUME CopyInv, NEW w \in Workers, NEW step \in Places \ (Marking \cup {"copy"}),
         RestWorker(w) \/ MoveWorker(w, step) \/ Saw(w, step),
         UNCHANGED <<object, Outside>>, raced' \in BOOLEAN, raced => raced',
         stitchRow' \in [state : States, attempts : Nat], index' \subseteq States,
         Busy(w) \/ index # {},
         ~raced' => Busy(w) \/ job.pc = "none",
         stitchRow'.state = "ready" => stitchRow.state = "ready" \/ worker[w].pc \in Marking
  PROVE  CopyInv'
<1>1. CopyTypes
  BY DEF CopyInv
<1>2. /\ worker' \in [Workers -> Worker]
      /\ \A v \in Workers \ {w} : worker'[v] = worker[v]
  BY <1>1, WorkerMoves
<1>3. worker'[w].pc \notin Marking \cup {"copy"}
  BY <1>1, Lands, Rests DEF Marking
<1>4. object' \in Nat
  BY <1>1 DEF CopyTypes
<1> QED BY <1>2, <1>3, <1>4, WorkerFrame

LEMMA SweepInv == ASSUME CopyInv, NEW w \in Workers, SweepOnce(w) PROVE CopyInv'
<1> USE DEF Outside
<1>1. /\ CopyTypes /\ stitchRow \in [state : States, attempts : Nat] /\ index \subseteq States
      /\ raced \in BOOLEAN /\ Listed \subseteq States /\ worker[w] \in Worker
  BY DEF CopyInv, CopyTypes, Listed, States
<1>2. ASSUME Busy(w), UNCHANGED <<object, Outside>>, raced' = raced,
             stitchRow' \in [state : States, attempts : Nat], index' \subseteq States,
             stitchRow'.state = "ready" => stitchRow.state = "ready" \/ worker[w].pc \in Marking,
             NEW step \in Places \ (Marking \cup {"copy"}),
             RestWorker(w) \/ MoveWorker(w, step) \/ Saw(w, step)
      PROVE  CopyInv'
  BY <1>1, <1>2, PlainStep
<1>3. \A n \in Nat : OneMore(n) \in Nat
  BY DEF OneMore
<1>4. CASE ListPending(w)
  <2>1. /\ UNCHANGED <<object, Outside>> /\ raced' \in BOOLEAN /\ (raced => raced')
        /\ index # {} /\ (~raced' => job.pc = "none") /\ UNCHANGED <<stitchRow, index>>
    BY <1>1, <1>4 DEF ListPending, stitched
  <2>2. CASE MoveWorker(w, "claim")
    BY <1>1, <2>1, <2>2, PlainStep DEF Places, Marking
  <2>3. ASSUME NEW s \in index, worker' = [worker EXCEPT ![w].pc = "reap", ![w].seen = s]
        PROVE  CopyInv'
    <3>1. /\ worker' = [worker EXCEPT ![w] = [worker[w] EXCEPT !.pc = "reap", !.seen = s]]
          /\ s \in States
      BY <1>1, <2>3 DEF CopyTypes
    <3>2. [worker[w] EXCEPT !.pc = "reap", !.seen = s] \in Worker
      BY <1>1, <3>1 DEF Worker, Places
    <3>3. /\ worker' \in [Workers -> Worker] /\ worker'[w].pc = "reap"
          /\ \A v \in Workers \ {w} : worker'[v] = worker[v]
      BY <1>1, <3>1, <3>2 DEF CopyTypes, Worker
    <3> QED BY <1>1, <2>1, <3>3, WorkerFrame DEF CopyTypes, Marking
  <2> QED BY <1>4, <2>2, <2>3 DEF ListPending
<1>5. CASE ReapIndex(w)
  BY <1>1, <1>2, <1>3, <1>5 DEF ReapIndex, Busy, WorkerAt, Places, Marking, States, NoStitch
<1>6. CASE ReadClaim(w)
  <2>1. UNCHANGED <<object, Outside>> /\ raced' = raced /\ Busy(w) /\ UNCHANGED <<stitchRow, index>>
    BY <1>6 DEF ReadClaim, stitched, WorkerAt, Busy
  <2> QED BY <1>1, <1>2, <1>6, <2>1 DEF ReadClaim, Places, Marking
<1>7. CASE IndexClaim(w)
  BY <1>1, <1>2, <1>3, <1>7 DEF IndexClaim, Busy, WorkerAt, Places, Marking, States, NoStitch
<1>8. CASE InsertClaim(w)
  BY <1>1, <1>2, <1>3, <1>8 DEF InsertClaim, Busy, WorkerAt, Places, Marking, States, NoStitch
<1>9. CASE UpdateClaim(w)
  BY <1>1, <1>2, <1>3, <1>9 DEF UpdateClaim, Busy, WorkerAt, Places, Marking, States, NoStitch
<1>10. CASE IndexStitching(w)
  <2>1. /\ UNCHANGED <<object, Outside>> /\ raced' = raced /\ Busy(w) /\ UNCHANGED stitchRow
        /\ index' \subseteq States
    BY <1>1, <1>10 DEF IndexStitching, MoveIndex, Cleared, Published, WorkerAt, Busy, Listed, States
  <2> QED BY <1>1, <1>2, <1>10, <2>1 DEF IndexStitching, MoveIndex, Places, Marking
<1>11. CASE ReadManifest(w)
  <2>1. /\ UNCHANGED <<stitchRow, index, object, Outside>> /\ raced' = raced /\ Busy(w)
    BY <1>11 DEF ReadManifest, stitched, WorkerAt, Busy
  <2>2. PICK step \in {"failed?", "skipped?", "copy"} :
          /\ worker' = [worker EXCEPT ![w] = [worker[w] EXCEPT !.read = fileManifest, !.pc = step]]
          /\ step = "copy" => fileManifest # 0
    BY <1>1, <1>11 DEF ReadManifest, CopyTypes
  <2>3. /\ [worker[w] EXCEPT !.read = fileManifest, !.pc = step] \in Worker
        /\ [worker[w] EXCEPT !.read = fileManifest, !.pc = step].pc = step
        /\ [worker[w] EXCEPT !.read = fileManifest, !.pc = step].read = fileManifest
    BY <1>1 DEF Worker, Places, CopyTypes
  <2>4. /\ worker' \in [Workers -> Worker] /\ worker'[w].pc = step /\ worker'[w].read = fileManifest
        /\ \A v \in Workers \ {w} : worker'[v] = worker[v]
    BY <1>1, <2>2, <2>3 DEF CopyTypes
  <2>5. worker'[w].pc \notin Marking /\ WorkerAt(w, "manifest")
    BY <1>11, <2>4 DEF ReadManifest, Marking
  <2> QED BY <1>1, <2>1, <2>2, <2>4, <2>5, WorkerFrame DEF CopyTypes
<1>12. CASE Stitch(w)
  <2>1. /\ UNCHANGED <<stitchRow, index, Outside>> /\ raced' = raced /\ Busy(w) /\ WorkerAt(w, "copy")
    BY <1>12 DEF Stitch, WorkerAt, Busy
  <2>2. PICK step \in {"ready?", "failed?"} :
          /\ MoveWorker(w, step) /\ object' \in {object, worker[w].read}
          /\ step = "ready?" => object' = worker[w].read
    BY <1>12 DEF Stitch
  <2>3. /\ worker' \in [Workers -> Worker] /\ worker'[w].pc = step
        /\ \A v \in Workers \ {w} : worker'[v] = worker[v]
    BY <1>1, <2>2, WorkerMoves, Lands DEF Places, Marking
  <2>4. object' \in Nat
    BY <1>1, <2>2 DEF CopyTypes, Worker
  <2> QED BY <1>1, <2>1, <2>2, <2>3, <2>4, WorkerFrame DEF Marking
<1>13. CASE StateOf(w)
  <2>1. /\ UNCHANGED <<stitchRow, index, object, Outside>> /\ raced' = raced /\ Busy(w)
    BY <1>13 DEF StateOf, stitched, WorkerAt, Busy
  <2>2. CASE Saw(w, "ready") /\ WorkerAt(w, "ready?")
    <3>1. /\ worker' \in [Workers -> Worker] /\ worker'[w].pc = "ready"
          /\ \A v \in Workers \ {w} : worker'[v] = worker[v]
      BY <1>1, <2>2, WorkerMoves, Lands DEF Places, Marking
    <3> QED BY <1>1, <2>1, <2>2, <3>1, WorkerFrame DEF CopyTypes, Marking, WorkerAt
  <2> QED BY <1>1, <1>2, <1>13, <2>1, <2>2 DEF StateOf, Places, Marking
<1>14. CASE MarkReady(w)
  <2>1. /\ UNCHANGED <<index, object, Outside>> /\ raced' = raced /\ Busy(w)
        /\ worker[w].pc \in Marking
    BY <1>14 DEF MarkReady, WorkerAt, Busy, Marking
  <2>2. stitchRow' \in [state : States, attempts : Nat]
    BY <1>1, <1>3, <1>14 DEF MarkReady, States
  <2>3. RestWorker(w) \/ MoveWorker(w, "drop")
    BY <1>14 DEF MarkReady
  <2>4. "drop" \in Places \ (Marking \cup {"copy"})
    BY DEF Places, Marking
  <2> QED BY <1>1, <1>2, <2>1, <2>2, <2>3, <2>4
<1>15. CASE MarkSkipped(w)
  <2>1. /\ UNCHANGED <<index, object, Outside>> /\ raced' = raced /\ Busy(w)
    BY <1>15 DEF MarkSkipped, WorkerAt, Busy
  <2>2. /\ stitchRow' \in [state : States, attempts : Nat]
        /\ stitchRow'.state = "ready" => stitchRow.state = "ready"
    BY <1>1, <1>15 DEF MarkSkipped, States
  <2>3. RestWorker(w) \/ MoveWorker(w, "drop")
    BY <1>15 DEF MarkSkipped
  <2>4. "drop" \in Places \ (Marking \cup {"copy"})
    BY DEF Places, Marking
  <2> QED BY <1>1, <1>2, <2>1, <2>2, <2>3, <2>4
<1>16. CASE DropIndex(w)
  BY <1>1, <1>2, <1>3, <1>16 DEF DropIndex, Busy, WorkerAt, Places, Marking, States, NoStitch
<1>17. CASE MarkFailed(w)
  BY <1>1, <1>2, <1>3, <1>17 DEF MarkFailed, Busy, WorkerAt, Places, Marking, States, NoStitch
<1>18. CASE IndexFailed(w)
  <2>1. /\ UNCHANGED <<object, Outside>> /\ raced' = raced /\ Busy(w) /\ UNCHANGED stitchRow
        /\ index' \subseteq States
    BY <1>1, <1>18 DEF IndexFailed, MoveIndex, Cleared, Published, WorkerAt, Busy, Listed, States
  <2>2. RestWorker(w) \/ MoveWorker(w, "relist")
    BY <1>18 DEF IndexFailed, MoveIndex
  <2> QED BY <1>1, <1>2, <2>1, <2>2 DEF Places, Marking
<1> QED BY <1>4, <1>5, <1>6, <1>7, <1>8, <1>9, <1>10, <1>11, <1>12, <1>13, <1>14, <1>15,
           <1>16, <1>17, <1>18 DEF SweepOnce

LEMMA WorkerDiesInv == ASSUME CopyInv, NEW w \in Workers, WorkerDies(w) PROVE CopyInv'
<1>1. /\ Busy(w) /\ RestWorker(w) /\ raced' = raced /\ UNCHANGED <<stitchRow, index, object, Outside>>
  BY DEF WorkerDies, stitched
<1>2. /\ stitchRow' \in [state : States, attempts : Nat] /\ index' \subseteq States
      /\ raced' \in BOOLEAN
  BY <1>1 DEF CopyInv, CopyTypes
<1>3. "drop" \in Places \ (Marking \cup {"copy"})
  BY DEF Places, Marking
<1> QED BY <1>1, <1>2, <1>3, PlainStep

-----------------------------------------------------------------------------
(* ---- commits and purges ------------------------------------------------- *)

LEMMA CommitInv == ASSUME CopyInv, Commit PROVE CopyInv'
<1>1. /\ CopyTypes /\ live = "yes" /\ job.pc = "none" /\ version' = version + 1
      /\ job' = [pc |-> "clear", purge |-> FALSE]
      /\ UNCHANGED <<live, fileManifest, stitchRow, index, object, worker, cache, reader, lost>>
      /\ raced' = (raced \/ \E w \in Workers : Busy(w))
      /\ overlapped' = (overlapped \/ reader.pc # "idle")
  BY DEF CopyInv, Commit, Begin, stitched, served
<1>2. CopyTypes' /\ Jobs' /\ Ticketed'
  BY <1>1 DEF CopyInv, CopyTypes, Jobs, Ticketed, JobSteps, Deleting
<1>3. ~raced' => /\ Apart' /\ Purged' /\ \A w \in Workers : ~Busy(w)
  BY <1>1 DEF CopyInv, Apart, Purged, Busy
<1>4. ~raced' => Copied'
  BY <1>1, <1>3 DEF Copied, Held, Committing, Early, WorkerAt, Busy, Marking
<1>5. ~overlapped' => Read'
  BY <1>1 DEF Read, Cached, Committing, Early
<1> QED BY <1>2, <1>3, <1>4, <1>5 DEF CopyInv

LEMMA PurgeInv == ASSUME CopyInv, Purge PROVE CopyInv'
<1>1. /\ CopyTypes /\ live # "gone" /\ live' = "trashed" /\ job.pc = "none"
      /\ job' = [pc |-> "object", purge |-> TRUE]
      /\ UNCHANGED <<version, fileManifest, stitchRow, index, object, worker, cache, reader, lost>>
      /\ raced' = (raced \/ \E w \in Workers : Busy(w))
      /\ overlapped' = (overlapped \/ reader.pc # "idle")
  BY DEF CopyInv, Purge, Begin, stitched, served
<1>2. CopyTypes' /\ Jobs' /\ Ticketed'
  BY <1>1 DEF CopyInv, CopyTypes, Jobs, Ticketed, JobSteps, Deleting
<1>3. ~raced' => ~raced /\ Apart' /\ Purged' /\ \A w \in Workers : ~Busy(w)
  BY <1>1 DEF CopyInv, Apart, Purged, Busy
<1>4. ~raced' /\ ~lost' => Copied'
  BY <1>1, <1>3 DEF CopyInv, Copied, Held, Committing, Early, WorkerAt, Busy, Marking
<1>5. ~raced' /\ ~lost' /\ ~overlapped' => Read'
  BY <1>1, <1>3 DEF CopyInv, Read, Cached, Committing, Early
<1> QED BY <1>2, <1>3, <1>4, <1>5 DEF CopyInv

(* No worker and no read is at work during a job that no history names.    *)
LEMMA JobFrame ==
  ASSUME CopyInv, job.pc # "none", UNCHANGED <<version, worker, reader, raced, overlapped>>,
         CopyTypes', Jobs', lost => lost', ~raced => Purged',
         ~raced /\ ~lost' /\ Copied => Held',
         ~raced /\ ~lost' /\ ~overlapped /\ Read => Cached'
  PROVE  CopyInv'
<1>1. Ticketed'
  BY DEF CopyInv, Ticketed
<1>2. ~raced => /\ Apart' /\ \A w \in Workers : ~Busy(w)
  BY DEF CopyInv, Apart, Busy
<1>3. ~raced /\ ~lost' => Copied'
  BY <1>2 DEF CopyInv, Copied, WorkerAt, Busy, Marking
<1>4. ~raced /\ ~lost' /\ ~overlapped => Read'
  BY DEF CopyInv, Read
<1> QED BY <1>1, <1>2, <1>3, <1>4 DEF CopyInv

LEMMA JobMoves ==
  ASSUME CopyTypes, NEW step, NEW next \in JobSteps, Job(step, next)
  PROVE  /\ job' \in [pc : JobSteps, purge : BOOLEAN] /\ job.pc = step /\ job'.pc = next
         /\ IF next = "none" THEN ~job'.purge ELSE job'.purge = job.purge
         /\ UNCHANGED <<live, version, worker, failures, raced, overlapped, lost, reader>>
  BY DEF Job, CopyTypes, NoJob, copyHistory, JobSteps

LEMMA Shapes ==
  ASSUME CopyTypes
  PROVE  /\ NoJob \in [pc : JobSteps, purge : BOOLEAN] /\ NoJob.pc = "none" /\ ~NoJob.purge
         /\ \A step \in JobSteps : LET moved == [job EXCEPT !.pc = step] IN
              /\ moved \in [pc : JobSteps, purge : BOOLEAN]
              /\ moved.pc = step /\ moved.purge = job.purge
  BY DEF CopyTypes, NoJob, JobSteps

LEMMA JobStepInv == ASSUME CopyInv, JobStep PROVE CopyInv'
<1>1. CopyTypes /\ Jobs /\ (~raced => Purged)
  BY DEF CopyInv
<1>2. CASE ClearManifest
  <2>1. PICK next \in {"row", "write"} : Job("clear", next)
    BY <1>2 DEF ClearManifest
  <2>2. next \in JobSteps
    BY <2>1 DEF JobSteps
  <2>3. /\ job' \in [pc : JobSteps, purge : BOOLEAN] /\ job.pc = "clear" /\ job'.pc = next
        /\ IF next = "none" THEN ~job'.purge ELSE job'.purge = job.purge
        /\ UNCHANGED <<live, version, worker, failures, raced, overlapped, lost, reader>>
    BY <1>1, <2>1, <2>2, JobMoves
  <2>4. /\ fileManifest' = 0 /\ UNCHANGED <<stitchRow, index, object, cache>>
        /\ IF job.purge THEN next = "row" ELSE next = "write"
    BY <1>1, <1>2, <2>1, <2>3 DEF ClearManifest, stitched, Job, CopyTypes, Listed, States, NoJob
  <2>5. CopyTypes' /\ Jobs'
    BY <1>1, <2>1, <2>2, <2>3, <2>4 DEF CopyTypes, Jobs, Deleting, States
  <2>6. ~raced => Purged'
    BY <1>1, <2>1, <2>3, <2>4 DEF Purged, Jobs
  <2>7. Copied => Held'
    BY <1>1, <2>1, <2>3, <2>4 DEF Copied, Held, Jobs, Committing, Early, Deleting
  <2>8. Read => Cached'
    BY <1>1, <2>1, <2>3, <2>4 DEF Read, Cached, Jobs, Committing, Early, Deleting
  <2> QED BY <2>3, <2>4, <2>5, <2>6, <2>7, <2>8, JobFrame
<1>3. CASE RewriteManifest
  <2>1. PICK next \in {"uncache"} : Job("write", next)
    BY <1>3 DEF RewriteManifest
  <2>2. next \in JobSteps
    BY <2>1 DEF JobSteps
  <2>3. /\ job' \in [pc : JobSteps, purge : BOOLEAN] /\ job.pc = "write" /\ job'.pc = next
        /\ IF next = "none" THEN ~job'.purge ELSE job'.purge = job.purge
        /\ UNCHANGED <<live, version, worker, failures, raced, overlapped, lost, reader>>
    BY <1>1, <2>1, <2>2, JobMoves
  <2>4. fileManifest' = version /\ UNCHANGED <<stitchRow, index, object, cache>>
    BY <1>1, <1>3, <2>1, <2>3 DEF RewriteManifest, stitched, Job, CopyTypes, Listed, States, NoJob
  <2>5. CopyTypes' /\ Jobs'
    BY <1>1, <2>1, <2>2, <2>3, <2>4 DEF CopyTypes, Jobs, Deleting, States
  <2>6. ~raced => Purged'
    BY <1>1, <2>1, <2>3, <2>4 DEF Purged, Jobs
  <2>7. Copied => Held'
    BY <1>1, <2>1, <2>3, <2>4 DEF Copied, Held, Jobs, Committing, Early, Deleting
  <2>8. Read => Cached'
    BY <1>1, <2>1, <2>3, <2>4 DEF Read, Cached, Jobs, Committing, Early, Deleting
  <2> QED BY <2>3, <2>4, <2>5, <2>6, <2>7, <2>8, JobFrame
<1>4. CASE InvalidateManifest
  <2>1. PICK next \in {"object"} : Job("uncache", next)
    BY <1>4 DEF InvalidateManifest
  <2>2. next \in JobSteps
    BY <2>1 DEF JobSteps
  <2>3. /\ job' \in [pc : JobSteps, purge : BOOLEAN] /\ job.pc = "uncache" /\ job'.pc = next
        /\ IF next = "none" THEN ~job'.purge ELSE job'.purge = job.purge
        /\ UNCHANGED <<live, version, worker, failures, raced, overlapped, lost, reader>>
    BY <1>1, <2>1, <2>2, JobMoves
  <2>4. cache' = NoEntry /\ UNCHANGED <<stitchRow, index, object, fileManifest>>
    BY <1>1, <1>4, <2>1, <2>3 DEF InvalidateManifest, stitched, Job, CopyTypes, Listed, States, NoJob
  <2>5. CopyTypes' /\ Jobs'
    BY <1>1, <2>1, <2>2, <2>3, <2>4 DEF CopyTypes, Jobs, Deleting, States, NoEntry
  <2>6. ~raced => Purged'
    BY <1>1, <2>1, <2>3, <2>4 DEF Purged, Jobs, NoEntry
  <2>7. Copied => Held'
    BY <1>1, <2>1, <2>3, <2>4 DEF Copied, Held, Jobs, Committing, Early, Deleting, NoEntry
  <2>8. Read => Cached'
    BY <1>1, <2>1, <2>3, <2>4 DEF Read, Cached, Jobs, Committing, Early, Deleting, NoEntry
  <2> QED BY <2>3, <2>4, <2>5, <2>6, <2>7, <2>8, JobFrame
<1>5. CASE DeleteConsolidated
  <2>1. PICK next \in {"clear", "row"} : Job("object", next)
    BY <1>5 DEF DeleteConsolidated
  <2>2. next \in JobSteps
    BY <2>1 DEF JobSteps
  <2>3. /\ job' \in [pc : JobSteps, purge : BOOLEAN] /\ job.pc = "object" /\ job'.pc = next
        /\ IF next = "none" THEN ~job'.purge ELSE job'.purge = job.purge
        /\ UNCHANGED <<live, version, worker, failures, raced, overlapped, lost, reader>>
    BY <1>1, <2>1, <2>2, JobMoves
  <2>4. /\ object' = 0 /\ UNCHANGED <<stitchRow, index, fileManifest, cache>>
        /\ IF job.purge THEN next = "clear" ELSE next = "row"
    BY <1>1, <1>5, <2>1, <2>3 DEF DeleteConsolidated, stitched, Job, CopyTypes, Listed, States, NoJob
  <2>5. CopyTypes' /\ Jobs'
    BY <1>1, <2>1, <2>2, <2>3, <2>4 DEF CopyTypes, Jobs, Deleting, States
  <2>6. ~raced => Purged'
    BY <1>1, <2>1, <2>3, <2>4 DEF Purged, Jobs
  <2>7. Copied => Held'
    BY <1>1, <2>1, <2>3, <2>4 DEF Copied, Held, Jobs, Committing, Early, Deleting
  <2>8. Read => Cached'
    BY <1>1, <2>1, <2>3, <2>4 DEF Read, Cached, Jobs, Committing, Early, Deleting
  <2> QED BY <2>3, <2>4, <2>5, <2>6, <2>7, <2>8, JobFrame
<1>6. CASE DeleteRow
  <2>1. PICK next \in {"unlist"} : Job("row", next)
    BY <1>6 DEF DeleteRow
  <2>2. next \in JobSteps
    BY <2>1 DEF JobSteps
  <2>3. /\ job' \in [pc : JobSteps, purge : BOOLEAN] /\ job.pc = "row" /\ job'.pc = next
        /\ IF next = "none" THEN ~job'.purge ELSE job'.purge = job.purge
        /\ UNCHANGED <<live, version, worker, failures, raced, overlapped, lost, reader>>
    BY <1>1, <2>1, <2>2, JobMoves
  <2>4. stitchRow' = NoStitch /\ UNCHANGED <<index, object, fileManifest, cache>>
    BY <1>1, <1>6, <2>1, <2>3 DEF DeleteRow, stitched, Job, CopyTypes, Listed, States, NoJob
  <2>5. CopyTypes' /\ Jobs'
    BY <1>1, <2>1, <2>2, <2>3, <2>4 DEF CopyTypes, Jobs, Deleting, States, NoStitch
  <2>6. ~raced => Purged'
    BY <1>1, <2>1, <2>3, <2>4 DEF Purged, Jobs, NoStitch
  <2>7. Copied => Held'
    BY <1>1, <2>1, <2>3, <2>4 DEF Copied, Held, Jobs, Committing, Early, Deleting, NoStitch
  <2>8. Read => Cached'
    BY <1>1, <2>1, <2>3, <2>4 DEF Read, Cached, Jobs, Committing, Early, Deleting, NoStitch
  <2> QED BY <2>3, <2>4, <2>5, <2>6, <2>7, <2>8, JobFrame
<1>7. CASE ClearIndex
  <2>1. /\ UNCHANGED <<version, worker, reader, raced, overlapped, lost, stitchRow, object, fileManifest, cache>>
        /\ job.pc = "unlist" /\ index' = {}
        /\ IF job.purge THEN job' = NoJob /\ live' = "gone"
           ELSE job' = [job EXCEPT !.pc = "enqueue"] /\ UNCHANGED live
    BY <1>7 DEF ClearIndex, served, copyHistory
  <2>2. /\ job' \in [pc : JobSteps, purge : BOOLEAN]
        /\ IF job.purge THEN job'.pc = "none" /\ ~job'.purge
           ELSE job'.pc = "enqueue" /\ ~job'.purge
    BY <1>1, <2>1, Shapes DEF JobSteps
  <2>3. CopyTypes' /\ Jobs'
    BY <1>1, <2>1, <2>2 DEF CopyTypes, Jobs, Deleting
  <2>4. ~raced => \A w \in Workers : ~Busy(w) /\ ~Busy(w)'
    BY <2>1 DEF CopyInv, Apart, Busy
  <2>5. ~raced => Purged'
    BY <1>1, <2>1, <2>2, <2>4 DEF Purged
  <2>6. Copied => Held'
    BY <1>1, <2>1, <2>2 DEF Copied, Held, Jobs, Committing, Early
  <2>7. Read => Cached'
    BY <1>1, <2>1, <2>2 DEF Read, Cached, Committing, Early
  <2> QED BY <2>1, <2>3, <2>5, <2>6, <2>7, JobFrame
<1>8. CASE EnqueueRead
  <2>1. PICK next \in {"list", "none"} : Job("enqueue", next)
    BY <1>8 DEF EnqueueRead
  <2>2. next \in JobSteps
    BY <2>1 DEF JobSteps
  <2>3. /\ job' \in [pc : JobSteps, purge : BOOLEAN] /\ job.pc = "enqueue" /\ job'.pc = next
        /\ IF next = "none" THEN ~job'.purge ELSE job'.purge = job.purge
        /\ UNCHANGED <<live, version, worker, failures, raced, overlapped, lost, reader>>
    BY <1>1, <2>1, <2>2, JobMoves
  <2>4. /\ UNCHANGED <<stitchRow, object, fileManifest, cache>>
        /\ index' \subseteq States /\ (next = "list" => stitchRow.state = "none")
    BY <1>1, <1>8, <2>1, <2>3 DEF EnqueueRead, stitched, Job, CopyTypes, Listed, States, NoJob
  <2>5. CopyTypes' /\ Jobs'
    BY <1>1, <2>1, <2>2, <2>3, <2>4 DEF CopyTypes, Jobs, Deleting, States
  <2>6. ~raced => Purged'
    BY <1>1, <2>1, <2>3, <2>4 DEF Purged, Jobs
  <2>7. Copied => Held'
    BY <1>1, <2>1, <2>3, <2>4 DEF Copied, Held, Jobs, Committing, Early, Deleting
  <2>8. Read => Cached'
    BY <1>1, <2>1, <2>3, <2>4 DEF Read, Cached, Jobs, Committing, Early, Deleting
  <2> QED BY <2>3, <2>4, <2>5, <2>6, <2>7, <2>8, JobFrame
<1>9. CASE EnqueueIndex
  <2>1. PICK next \in {"insert"} : Job("list", next)
    BY <1>9 DEF EnqueueIndex
  <2>2. next \in JobSteps
    BY <2>1 DEF JobSteps
  <2>3. /\ job' \in [pc : JobSteps, purge : BOOLEAN] /\ job.pc = "list" /\ job'.pc = next
        /\ IF next = "none" THEN ~job'.purge ELSE job'.purge = job.purge
        /\ UNCHANGED <<live, version, worker, failures, raced, overlapped, lost, reader>>
    BY <1>1, <2>1, <2>2, JobMoves
  <2>4. index' = index \cup {"pending"} /\ UNCHANGED <<stitchRow, object, fileManifest, cache>>
    BY <1>1, <1>9, <2>1, <2>3 DEF EnqueueIndex, stitched, Job, CopyTypes, Listed, States, NoJob
  <2>5. CopyTypes' /\ Jobs'
    BY <1>1, <2>1, <2>2, <2>3, <2>4 DEF CopyTypes, Jobs, Deleting, States
  <2>6. ~raced => Purged'
    BY <1>1, <2>1, <2>3, <2>4 DEF Purged, Jobs
  <2>7. Copied => Held'
    BY <1>1, <2>1, <2>3, <2>4 DEF Copied, Held, Jobs, Committing, Early, Deleting
  <2>8. Read => Cached'
    BY <1>1, <2>1, <2>3, <2>4 DEF Read, Cached, Jobs, Committing, Early, Deleting
  <2> QED BY <2>3, <2>4, <2>5, <2>6, <2>7, <2>8, JobFrame
<1>10. CASE EnqueueInsert
  <2>1. PICK next \in {"none"} : Job("insert", next)
    BY <1>10 DEF EnqueueInsert
  <2>2. next \in JobSteps
    BY <2>1 DEF JobSteps
  <2>3. /\ job' \in [pc : JobSteps, purge : BOOLEAN] /\ job.pc = "insert" /\ job'.pc = next
        /\ IF next = "none" THEN ~job'.purge ELSE job'.purge = job.purge
        /\ UNCHANGED <<live, version, worker, failures, raced, overlapped, lost, reader>>
    BY <1>1, <2>1, <2>2, JobMoves
  <2>4. /\ UNCHANGED <<index, object, fileManifest, cache>>
        /\ stitchRow' \in {stitchRow, [state |-> "pending", attempts |-> 0]}
    BY <1>1, <1>10, <2>1, <2>3 DEF EnqueueInsert, stitched, Job, CopyTypes, Listed, States, NoJob
  <2>5. CopyTypes' /\ Jobs'
    BY <1>1, <2>1, <2>2, <2>3, <2>4 DEF CopyTypes, Jobs, Deleting, States
  <2>6. ~raced => Purged'
    BY <1>1, <2>1, <2>3, <2>4 DEF Purged, Jobs
  <2>7. Copied => Held'
    BY <1>1, <2>1, <2>3, <2>4 DEF Copied, Held, Jobs, Committing, Early, Deleting
  <2>8. Read => Cached'
    BY <1>1, <2>1, <2>3, <2>4 DEF Read, Cached, Jobs, Committing, Early, Deleting
  <2> QED BY <2>3, <2>4, <2>5, <2>6, <2>7, <2>8, JobFrame
<1> QED BY <1>2, <1>3, <1>4, <1>5, <1>6, <1>7, <1>8, <1>9, <1>10 DEF JobStep

(* A commit whose step failed is named by lost; a purge that died is over. *)
LEMMA JobFailsInv == ASSUME CopyInv, JobFails PROVE CopyInv'
<1>1. /\ CopyTypes /\ Jobs /\ job.pc # "none"
      /\ UNCHANGED <<live, version, fileManifest, stitchRow, index, object, worker, cache, reader, raced,
                    overlapped>>
      /\ lost' = (lost \/ ~job.purge)
  BY DEF CopyInv, JobFails, stitched, served
<1>2. /\ job' \in [pc : JobSteps, purge : BOOLEAN]
      /\ \/ job'.pc = "none" /\ ~job'.purge
         \/ ~job.purge /\ ~job'.purge /\ job'.pc # "none"
  <2>1. PICK step \in {"uncache", "row", "enqueue"} :
          job' = NoJob \/ (~job.purge /\ job' = [job EXCEPT !.pc = step])
    BY DEF JobFails
  <2>2. step \in JobSteps
    BY DEF JobSteps
  <2> QED BY <1>1, <2>1, <2>2, Shapes
<1>3. CopyTypes' /\ Jobs'
  BY <1>1, <1>2 DEF CopyTypes, Jobs
<1>4. ~raced => Purged'
  BY <1>1, <1>2 DEF CopyInv, Purged, Busy
<1>5. ~lost' /\ Copied => Held'
  BY <1>1, <1>2 DEF Copied, Held, Jobs, Committing, Early, Deleting
<1>6. ~lost' /\ Read => Cached'
  BY <1>1, <1>2 DEF Read, Cached, Committing, Early
<1> QED BY <1>1, <1>3, <1>4, <1>5, <1>6, JobFrame

-----------------------------------------------------------------------------
(* ---- the content server ------------------------------------------------- *)

LEMMA ServeInv == ASSUME CopyInv, Serve PROVE CopyInv'
<1>1. /\ CopyTypes /\ Jobs /\ Ticketed
      /\ UNCHANGED <<live, version, fileManifest, stitchRow, index, object, worker, job, raced, lost>>
      /\ overlapped' \in BOOLEAN /\ (overlapped => overlapped')
  BY DEF CopyInv, CopyTypes, Serve, HandleContent, GetFileManifest, GetStitchedObjectKey,
         CacheManifest, Stream, Sent, CacheExpires, Store, stitched
<1>2. ~raced' => Apart' /\ Purged'
  BY <1>1 DEF CopyInv, Apart, Purged, Busy
<1>3. ~raced' /\ ~lost' => Copied'
  BY <1>1 DEF CopyInv, Copied, Held, Committing, WorkerAt
<1>4. SUFFICES /\ cache' \in [version : Nat, key : BOOLEAN] /\ reader' \in Reader
               /\ Ticketed' /\ (~raced /\ ~lost /\ ~overlapped' => Read')
  BY <1>1, <1>2, <1>3 DEF CopyInv, CopyTypes, Jobs
<1>5. ASSUME NEW t \in Tickets, HandleContent(t)
      PROVE  /\ cache' \in [version : Nat, key : BOOLEAN] /\ reader' \in Reader
             /\ Ticketed' /\ (~raced /\ ~lost /\ ~overlapped' => Read')
  <2>1. cache' \in [version : Nat, key : BOOLEAN] /\ reader' \in Reader
    <3>1. cache' = cache /\ cache.version \in Nat /\ cache.key \in BOOLEAN
      BY <1>1, <1>5 DEF HandleContent, CopyTypes
    <3>2. \/ reader' = [NoRead EXCEPT !.pc = "stream", !.ticket = t,
                                    !.version = cache.version, !.key = cache.key]
          \/ reader' = [NoRead EXCEPT !.pc = "manifest", !.ticket = t]
      BY <1>5 DEF HandleContent
    <3>3. CASE reader' = [NoRead EXCEPT !.pc = "stream", !.ticket = t,
                                      !.version = cache.version, !.key = cache.key]
      <4>1. reader' = [pc |-> "stream", ticket |-> t, version |-> cache.version,
                       key |-> cache.key, bytes |-> 0]
        BY <3>3 DEF NoRead
      <4> QED BY <1>1, <3>1, <4>1 DEF CopyTypes, Reader
    <3>4. CASE reader' = [NoRead EXCEPT !.pc = "manifest", !.ticket = t]
      BY <1>1, <3>1, <3>4 DEF CopyTypes, Reader, NoRead
    <3> QED BY <3>2, <3>3, <3>4
  <2>2. /\ cache' = cache /\ (overlapped' \/ job.pc = "none")
        /\ \/ /\ reader'.pc = "stream" /\ reader'.ticket = t /\ reader'.version = cache.version
              /\ cache.version # 0 /\ t \in {0, cache.version}
           \/ reader'.pc = "manifest"
    BY <1>5 DEF HandleContent, NoRead
  <2>3. Ticketed'
    BY <2>2 DEF Ticketed
  <2>4. ASSUME ~raced, ~lost, ~overlapped' PROVE Read'
    <3>1. Cached /\ job.pc = "none"
      BY <1>1, <2>2, <2>4 DEF CopyInv, Read
    <3>2. Cached' /\ job'.pc = "none" /\ version' = version
      BY <1>1, <2>2, <3>1 DEF Cached, Committing
    <3>3. ~Committing
      BY <1>1, <3>1 DEF Committing, Jobs
    <3> QED BY <1>1, <2>2, <3>1, <3>2, <3>3 DEF Read, Cached
  <2> QED BY <2>1, <2>3, <2>4
<1>6. CASE GetFileManifest
  <2>1. cache' \in [version : Nat, key : BOOLEAN] /\ reader' \in Reader
    BY <1>1, <1>6 DEF GetFileManifest, CopyTypes, Reader, NoRead, NoEntry
  <2>2. Ticketed'
    BY <1>1, <1>6, <2>1 DEF GetFileManifest, Ticketed, NoRead, CopyTypes, Reader
  <2>3. ~raced /\ ~lost /\ ~overlapped' => Read'
    BY <1>1, <1>6, <2>1 DEF GetFileManifest, CopyInv, Copied, Held, Read, Cached, Committing, NoRead, NoEntry,
       CopyTypes, Reader, Early
  <2> QED BY <2>1, <2>2, <2>3
<1>7. CASE GetStitchedObjectKey
  <2>1. cache' \in [version : Nat, key : BOOLEAN] /\ reader' \in Reader
    BY <1>1, <1>7 DEF GetStitchedObjectKey, CopyTypes, Reader, NoRead, NoEntry
  <2>2. Ticketed'
    BY <1>1, <1>7, <2>1 DEF GetStitchedObjectKey, Ticketed, NoRead, CopyTypes, Reader
  <2>3. ~raced /\ ~lost /\ ~overlapped' => Read'
    BY <1>1, <1>7, <2>1 DEF GetStitchedObjectKey, CopyInv, Copied, Held, Read, Cached, Committing, NoRead, NoEntry,
       CopyTypes, Reader, Early
  <2> QED BY <2>1, <2>2, <2>3
<1>8. CASE CacheManifest
  <2>1. cache' \in [version : Nat, key : BOOLEAN] /\ reader' \in Reader
    BY <1>1, <1>8 DEF CacheManifest, CopyTypes, Reader, NoRead, NoEntry
  <2>2. Ticketed'
    BY <1>1, <1>8, <2>1 DEF CacheManifest, Ticketed, NoRead, CopyTypes, Reader
  <2>3. ~raced /\ ~lost /\ ~overlapped' => Read'
    BY <1>1, <1>8, <2>1 DEF CacheManifest, CopyInv, Copied, Held, Read, Cached, Committing, NoRead, NoEntry,
       CopyTypes, Reader, Early
  <2> QED BY <2>1, <2>2, <2>3
<1>9. CASE Stream
  <2>1. cache' \in [version : Nat, key : BOOLEAN] /\ reader' \in Reader
    BY <1>1, <1>9 DEF Stream, CopyTypes, Reader, NoRead, NoEntry
  <2>2. Ticketed'
    BY <1>1, <1>9, <2>1 DEF Stream, Ticketed, NoRead, CopyTypes, Reader
  <2>3. ~raced /\ ~lost /\ ~overlapped' => Read'
    BY <1>1, <1>9, <2>1 DEF Stream, CopyInv, Copied, Held, Read, Cached, Committing, NoRead, NoEntry,
       CopyTypes, Reader, Early
  <2> QED BY <2>1, <2>2, <2>3
<1>10. CASE Sent
  <2>1. cache' \in [version : Nat, key : BOOLEAN] /\ reader' \in Reader
    BY <1>1, <1>10 DEF Sent, CopyTypes, Reader, NoRead, NoEntry
  <2>2. Ticketed'
    BY <1>1, <1>10, <2>1 DEF Sent, Ticketed, NoRead, CopyTypes, Reader
  <2>3. ~raced /\ ~lost /\ ~overlapped' => Read'
    BY <1>1, <1>10, <2>1 DEF Sent, CopyInv, Copied, Held, Read, Cached, Committing, NoRead, NoEntry,
       CopyTypes, Reader, Early
  <2> QED BY <2>1, <2>2, <2>3
<1>11. CASE CacheExpires
  <2>1. cache' \in [version : Nat, key : BOOLEAN] /\ reader' \in Reader
    BY <1>1, <1>11 DEF CacheExpires, CopyTypes, Reader, NoRead, NoEntry
  <2>2. Ticketed'
    BY <1>1, <1>11, <2>1 DEF CacheExpires, Ticketed, NoRead, CopyTypes, Reader
  <2>3. ~raced /\ ~lost /\ ~overlapped' => Read'
    BY <1>1, <1>11, <2>1 DEF CacheExpires, CopyInv, Copied, Held, Read, Cached, Committing, NoRead, NoEntry,
       CopyTypes, Reader, Early
  <2> QED BY <2>1, <2>2, <2>3
<1> QED BY <1>5, <1>6, <1>7, <1>8, <1>9, <1>10, <1>11 DEF Serve

-----------------------------------------------------------------------------
LEMMA CopyNextInv == ASSUME CopyInv, [ConsolidationNext]_consolidationVars PROVE CopyInv'
<1>1. ASSUME UNCHANGED consolidationVars PROVE CopyInv'
  <2>1. UNCHANGED <<live, version, fileManifest, stitchRow, index, object, worker, job, cache, reader,
                    raced, overlapped, lost>>
    BY <1>1 DEF consolidationVars, stitched, served, copyHistory
  <2> QED BY <2>1 DEF CopyInv, CopyTypes, Jobs, Ticketed, Apart, Purged, Copied, Held, Read, Cached,
                      Committing, Busy, WorkerAt
<1>2. ASSUME NEW w \in Workers, SweepOnce(w) \/ WorkerDies(w) PROVE CopyInv'
  BY <1>2, SweepInv, WorkerDiesInv
<1> QED
  BY <1>1, <1>2, CommitInv, PurgeInv, JobStepInv, JobFailsInv, ServeInv DEF ConsolidationNext

LEMMA CopyInvariance == ConsolidationSpec => []CopyInv
  BY CopyInitInv, CopyNextInv, PTL DEF ConsolidationSpec

LEMMA CopyIsSafe == CopyInv => ReadyIsCurrent /\ BytesMatchTheirTag
<1>1. CopyInv => ReadyIsCurrent
  BY DEF CopyInv, Copied, Held, ReadyIsCurrent
<1>2. CopyInv => BytesMatchTheirTag
  BY DEF CopyInv, Ticketed, Read, BytesMatchTheirTag
<1> QED BY <1>1, <1>2

(* ReadyIsCurrent: outside a purge and the windows the histories name, a   *)
(* row that says ready has an object of the newest version.                *)
THEOREM ReadyStaysCurrent == ConsolidationSpec => []ReadyIsCurrent
<1> QED BY CopyIsSafe, CopyInvariance, PTL

(* PurgeLeavesNothing: a purge that no sweep ran beside leaves neither     *)
(* row nor index nor object, now and later.                                *)
THEOREM PurgedForGood == ConsolidationSpec => []PurgeLeavesNothing
<1>1. CopyInv => PurgeLeavesNothing
  BY DEF CopyInv, Purged, PurgeLeavesNothing
<1> QED BY <1>1, CopyInvariance, PTL

(* BytesMatchTheirTag: what is sent under a ticket is tagged with the      *)
(* version it names, and the bytes are that version's.                     *)
THEOREM TagsAreTrue == ConsolidationSpec => []BytesMatchTheirTag
<1> QED BY CopyIsSafe, CopyInvariance, PTL

-----------------------------------------------------------------------------
(* ---- Commits: the rows of a file follow its head                        *)

(* The rows while request r writes them: one after the other they go from   *)
(* the base to the version it won.                                          *)
RowsOf(r) ==
  LET pc == request[r].pc
      base == request[r].base
  IN  /\ head = Written(r)
      /\ file = IF pc = "file" THEN base ELSE Written(r)
      /\ folder = IF pc \in {"file", "folder"} THEN base ELSE Written(r)
      /\ sorted = IF pc \in {"file", "folder", "sort"} THEN {base} ELSE
                  IF pc = "unsort" THEN {base, Written(r)} ELSE {Written(r)}
      /\ manifest = IF pc = "write" THEN {} ELSE {base}

RowsAreOf(v) == file = v /\ folder = v /\ sorted = {v} /\ manifest = {v}

Doing(r, steps) == request[r].pc \in steps

(* One request at a time has won and not answered.  Before it moves the     *)
(* head the head is its base, after that no other is about to insert.       *)
InTurn ==
  /\ \A r \in Requests : Doing(r, {"insert"} \cup Keeping) => request[r].file = request[r].base
  /\ \A r, q \in Requests : Doing(r, Keeping) /\ Doing(q, Keeping) => r = q
  /\ \A r \in Requests : Doing(r, Winning) => request[r].base = Current
  /\ \A r \in Requests : Doing(r, Projecting) =>
       RowsOf(r) /\ \A q \in Requests : Doing(q, {"insert"}) => request[q].base <= request[r].base
  /\ (\A r \in Requests : ~Doing(r, Projecting)) => RowsAreOf(Current)

RowsInv == ~cut /\ ~crossed => InTurn

LEMMA RowsInitInv == VersionInit => RowsInv
  BY DEF VersionInit, RowsInv, InTurn, Doing, Idle, Keeping, Winning, Projecting, RowsAreOf, Current

(* A request that is not at work on a version does not become so.           *)
LEMMA Aside ==
  ASSUME InTurn, NEW r \in Requests, ~Doing(r, Keeping),
         \A q \in Requests \ {r} : request'[q] = request[q],
         request'[r].pc \notin Keeping \cup {"insert"}, UNCHANGED <<head, rows>>
  PROVE  InTurn'
<1>1. UNCHANGED <<file, folder, sorted, manifest>>
  BY DEF rows
<1>2. Winning \subseteq Keeping /\ Projecting \subseteq Keeping
  BY DEF Keeping
<1>3. \A q \in Requests : Doing(q, Keeping)' => q # r /\ request'[q] = request[q] /\ Doing(q, Keeping)
  BY DEF Doing
<1>4. \A q \in Requests : Doing(q, {"insert"})' => q # r /\ request'[q] = request[q]
  BY DEF Doing
<1>5. \A q \in Requests : Doing(q, {"insert"} \cup Keeping)' => request'[q].file = request'[q].base
  BY <1>3, <1>4 DEF InTurn, Doing
<1>6. \A q, p \in Requests : Doing(q, Keeping)' /\ Doing(p, Keeping)' => q = p
  BY <1>3 DEF InTurn
<1>7. \A q \in Requests : Doing(q, Winning)' => request'[q].base = Current'
  BY <1>1, <1>2, <1>3 DEF InTurn, Doing, Current
<1>8. ASSUME NEW q \in Requests, Doing(q, Projecting)'
      PROVE  RowsOf(q)' /\ \A p \in Requests : Doing(p, {"insert"})' => request'[p].base <= request'[q].base
  <2>1. request'[q] = request[q] /\ Doing(q, Projecting)
    BY <1>2, <1>3, <1>8 DEF Doing
  <2>2. RowsOf(q)'
    BY <1>1, <2>1 DEF InTurn, RowsOf, Written
  <2>3. \A p \in Requests : Doing(p, {"insert"})' => request'[p].base <= request'[q].base
    BY <1>4, <2>1 DEF InTurn, Doing
  <2> QED BY <2>2, <2>3
<1>9. (\A q \in Requests : ~Doing(q, Projecting)') => RowsAreOf(Current)'
  <2>1. ASSUME \A q \in Requests : ~Doing(q, Projecting)' PROVE \A q \in Requests : ~Doing(q, Projecting)
    BY <1>2, <2>1 DEF Doing
  <2> QED BY <1>1, <2>1 DEF InTurn, RowsAreOf, Current
<1> QED BY <1>5, <1>6, <1>7, <1>8, <1>9 DEF InTurn

LEMMA GoesTo ==
  ASSUME VersionTypes, NEW r \in Requests, NEW step, Goto(r, step)
  PROVE  /\ request'[r].pc = step /\ request'[r].base = request[r].base
         /\ request'[r].file = request[r].file
         /\ \A q \in Requests \ {r} : request'[q] = request[q]
<1>1. request \in [Requests -> Request] /\ request[r] \in Request
  BY DEF VersionTypes
<1>2. request'[r] = [request[r] EXCEPT !.pc = step]
      /\ \A q \in Requests \ {r} : request'[q] = request[q]
  BY <1>1 DEF Goto
<1> QED BY <1>1, <1>2 DEF Request

LEMMA RowsResolve ==
  ASSUME VersionInv, InTurn, NEW r \in Requests, Resolve(r), ~crossed'
  PROVE  InTurn'
<1>1. request[r].pc = "resolve" /\ ~Doing(r, Keeping) /\ UNCHANGED <<head, rows>> /\ VersionTypes
  BY DEF Resolve, At, Doing, Keeping, Winning, Projecting, VersionInv
<1>2. CASE Refuse(r)
  <2>1. request \in [Requests -> Request] /\ request[r] \in Request
    BY <1>1 DEF VersionTypes
  <2>2. request'[r].pc = "answered" /\ \A q \in Requests \ {r} : request'[q] = request[q]
    BY <1>2, <2>1 DEF Refuse, Answer, Request
  <2>3. request'[r].pc \notin Keeping \cup {"insert"}
    BY <2>2 DEF Keeping, Winning, Projecting
  <2> QED BY <1>1, <2>2, <2>3, Aside
<1>3. CASE /\ Goto(r, "insert")
           /\ crossed' = \/ crossed \/ request[r].file # request[r].base
                         \/ \E q \in Requests : request[q].pc \in Projecting
  <2>1. request[r].file = request[r].base /\ \A q \in Requests : ~Doing(q, Projecting)
    BY <1>3 DEF Doing
  <2>2. /\ request'[r].pc = "insert" /\ request'[r].base = request'[r].file
        /\ \A q \in Requests \ {r} : request'[q] = request[q]
    BY <1>1, <1>3, <2>1, GoesTo
  <2>3. UNCHANGED <<file, folder, sorted, manifest>> /\ UNCHANGED Current
    BY <1>1 DEF rows, Current
  <2>4. "insert" \notin Keeping /\ Winning \subseteq Keeping
    BY DEF Keeping, Winning, Projecting
  <2>5. \A q \in Requests : Doing(q, Keeping)' => q # r /\ Doing(q, Keeping) /\ request'[q] = request[q]
    BY <2>2, <2>4 DEF Doing
  <2>6. \A q \in Requests : ~Doing(q, Projecting)'
    BY <2>1, <2>2, <2>4, <2>5 DEF Doing, Keeping
  <2>7. RowsAreOf(Current)'
    BY <2>1, <2>3 DEF InTurn, RowsAreOf
  <2>8. \A q \in Requests : Doing(q, {"insert"} \cup Keeping)' => request'[q].file = request'[q].base
    BY <2>2 DEF InTurn, Doing
  <2>9. \A q, p \in Requests : Doing(q, Keeping)' /\ Doing(p, Keeping)' => q = p
    BY <2>5 DEF InTurn
  <2>10. \A q \in Requests : Doing(q, Winning)' => request'[q].base = Current'
    BY <2>3, <2>4, <2>5 DEF InTurn, Doing
  <2> QED BY <2>6, <2>7, <2>8, <2>9, <2>10 DEF InTurn
<1> QED BY <1>2, <1>3 DEF Resolve

(* A request that inserts finds its number free only if its base is the     *)
(* head, and then no other is at work.                                      *)
LEMMA RowsInsert ==
  ASSUME VersionInv, InTurn, NEW r \in Requests, InsertFileVersionIfAbsent(r)
  PROVE  InTurn'
<1>1. /\ request[r].pc = "insert" /\ ~Doing(r, Keeping) /\ UNCHANGED <<head, rows>>
      /\ UNCHANGED <<file, folder, sorted, manifest>> /\ UNCHANGED Current /\ VersionTypes
  BY DEF InsertFileVersionIfAbsent, At, Doing, Keeping, Winning, Projecting, VersionInv, rows, Current
<1>2. CASE row[request[r].base + 1].won
  <2>1. Goto(r, "lost")
    BY <1>2 DEF InsertFileVersionIfAbsent
  <2>2. request'[r].pc = "lost" /\ \A q \in Requests \ {r} : request'[q] = request[q]
    BY <1>1, <2>1, GoesTo
  <2>3. request'[r].pc \notin Keeping \cup {"insert"}
    BY <2>2 DEF Keeping, Winning, Projecting
  <2> QED BY <1>1, <2>2, <2>3, Aside
<1>3. CASE ~row[request[r].base + 1].won
  <2>1. Goto(r, "advance")
    BY <1>3 DEF InsertFileVersionIfAbsent
  <2>2. /\ request'[r].pc = "advance" /\ request'[r].base = request[r].base
        /\ request'[r].file = request[r].file
        /\ \A q \in Requests \ {r} : request'[q] = request[q]
    BY <1>1, <2>1, GoesTo
  <2>3. /\ request[r].base \in Versions /\ Written(r) \in Versions /\ request[r].base <= Current
        /\ Current \in Versions
    BY <1>1, CurrentIsVersion DEF VersionInv, Honest, Asking
  <2>4. request[r].base = Current
    <3> SUFFICES ASSUME request[r].base < Current PROVE FALSE
      BY <2>3 DEF Versions
    <3>1. head # 0 /\ Current = head
      BY <2>3 DEF VersionInv, Chain, Current, Versions
    <3>2. 2 <= Written(r) /\ Written(r) <= head
      BY <2>3, <3>1 DEF Written, Versions
    <3>3. row[Written(r)].won
      BY <2>3, <3>2 DEF VersionInv, Chain
    <3> QED BY <1>3, <3>3 DEF Written
  <2>5. ASSUME NEW q \in Requests, Doing(q, Keeping) PROVE FALSE
    <3>1. row[Written(q)].won /\ Written(q) \in Versions /\ request[q].base \in Versions
      BY <2>5 DEF VersionInv, Winner, Honest, Doing, Keeping
    <3>2. Written(q) # Current + 1
      BY <1>3, <2>4, <3>1 DEF Written
    <3>3. CASE Doing(q, Winning)
      BY <3>2, <3>3 DEF InTurn, Written
    <3>4. CASE Doing(q, Projecting)
      <4>1. head = Written(q) /\ request[r].base <= request[q].base
        BY <1>1, <3>4 DEF InTurn, RowsOf, Doing
      <4>2. Current = Written(q)
        BY <3>1, <4>1 DEF Current, Written, Versions
      <4> QED BY <2>4, <3>1, <4>1, <4>2 DEF Written, Versions
    <3> QED BY <2>5, <3>3, <3>4 DEF Doing, Keeping
  <2>6. \A q \in Requests : Doing(q, Keeping)' => q = r
    BY <2>2, <2>5 DEF Doing
  <2>7. ~Doing(r, Projecting)' /\ Winning \subseteq Keeping /\ Projecting \subseteq Keeping
    BY <2>2 DEF Doing, Projecting, Keeping
  <2>8. \A q \in Requests : ~Doing(q, Projecting)'
    BY <2>6, <2>7 DEF Doing
  <2>9. RowsAreOf(Current)'
    <3>1. \A q \in Requests : ~Doing(q, Projecting)
      BY <2>5, <2>7 DEF Doing
    <3> QED BY <1>1, <3>1 DEF InTurn, RowsAreOf
  <2>10. \A q \in Requests : Doing(q, {"insert"} \cup Keeping)' => request'[q].file = request'[q].base
    BY <1>1, <2>2 DEF InTurn, Doing
  <2>11. \A q \in Requests : Doing(q, Winning)' => request'[q].base = Current'
    BY <1>1, <2>2, <2>4, <2>6, <2>7 DEF Doing
  <2> QED BY <2>6, <2>8, <2>9, <2>10, <2>11 DEF InTurn
<1> QED BY <1>2, <1>3

(* The request at work goes on.                                             *)
LEMMA AtWork ==
  ASSUME InTurn, NEW r \in Requests, Doing(r, Keeping),
         \A q \in Requests \ {r} : request'[q] = request[q],
         request'[r].base = request[r].base, request'[r].file = request[r].file,
         \/ Doing(r, Winning)' /\ request'[r].base = Current' /\ RowsAreOf(Current)'
         \/ /\ Doing(r, Projecting)' /\ RowsOf(r)'
            /\ \A q \in Requests : Doing(q, {"insert"}) => request[q].base <= request[r].base
         \/ request'[r].pc \notin Keeping \cup {"insert"} /\ RowsAreOf(Current)'
  PROVE  InTurn'
<1>1. \A q \in Requests : Doing(q, Keeping)' => q = r
  BY DEF InTurn, Doing
<1>2. Winning \subseteq Keeping /\ Projecting \subseteq Keeping /\ "insert" \notin Keeping
      /\ Winning \cap Projecting = {}
  BY DEF Keeping, Winning, Projecting
<1>3. \A q \in Requests : Doing(q, {"insert"} \cup Keeping)' => request'[q].file = request'[q].base
  BY <1>2 DEF InTurn, Doing
<1>4. \A q, p \in Requests : Doing(q, Keeping)' /\ Doing(p, Keeping)' => q = p
  BY <1>1
<1>5. \A q \in Requests : Doing(q, Winning)' => q = r
  BY <1>1, <1>2 DEF Doing
<1>6. \A q \in Requests : Doing(q, Projecting)' => q = r
  BY <1>1, <1>2 DEF Doing
<1>7. \A q \in Requests : Doing(q, {"insert"})' => q # r /\ Doing(q, {"insert"}) /\ request'[q] = request[q]
  BY <1>2 DEF Doing
<1>8. Doing(r, Winning)' => request'[r].base = Current'
  BY <1>2 DEF Doing
<1>9. Doing(r, Projecting)' =>
        RowsOf(r)' /\ \A q \in Requests : Doing(q, {"insert"})' => request'[q].base <= request'[r].base
  BY <1>2, <1>7 DEF Doing
<1>10. (\A q \in Requests : ~Doing(q, Projecting)') => RowsAreOf(Current)'
  OBVIOUS
<1> QED BY <1>3, <1>4, <1>5, <1>6, <1>8, <1>9, <1>10 DEF InTurn

LEMMA RowsHead ==
  ASSUME VersionInv, InTurn, NEW r \in Requests, GetFileHead(r) \/ AdvanceFileHead(r)
  PROVE  InTurn'
<1>1. /\ Doing(r, Winning) /\ Doing(r, Keeping) /\ UNCHANGED <<file, folder, sorted, manifest>>
      /\ VersionTypes
  BY DEF GetFileHead, AdvanceFileHead, At, Doing, Keeping, Winning, VersionInv, rows
<1>2. /\ request[r].base \in Versions /\ request[r].base = Current /\ Written(r) \in Versions
      /\ head \in Nat /\ request[r].base \in Nat /\ request[r].base >= 1
  BY <1>1 DEF VersionInv, Honest, InTurn, Doing, Versions, VersionTypes
<1>3. ~(head > request[r].base)
  BY <1>2 DEF Current
<1>4. RowsAreOf(request[r].base)
  <2>1. \A q \in Requests : ~Doing(q, Projecting)
    BY <1>1 DEF InTurn, Doing, Keeping, Winning, Projecting
  <2> QED BY <1>2, <2>1 DEF InTurn
<1>5. CASE GetFileHead(r)
  <2>1. request \in [Requests -> Request] /\ request[r] \in Request
    BY <1>1 DEF VersionTypes
  <2>2. request' = [request EXCEPT ![r].pc = "cas", ![r].at = head] /\ UNCHANGED <<head, rows>>
    BY <1>3, <1>5 DEF GetFileHead
  <2>3. /\ request'[r].pc = "cas" /\ request'[r].base = request[r].base
        /\ request'[r].file = request[r].file
        /\ \A q \in Requests \ {r} : request'[q] = request[q]
    BY <2>1, <2>2 DEF Request
  <2>4. Doing(r, Winning)' /\ request'[r].base = Current' /\ RowsAreOf(Current)'
    BY <1>1, <1>2, <1>4, <2>2, <2>3 DEF Doing, Winning, Current, RowsAreOf
  <2> QED BY <1>1, <2>3, <2>4, AtWork
<1>6. CASE AdvanceFileHead(r) /\ head # request[r].at
  <2>1. Goto(r, "advance") /\ UNCHANGED head
    BY <1>6 DEF AdvanceFileHead
  <2>2. /\ request'[r].pc = "advance" /\ request'[r].base = request[r].base
        /\ request'[r].file = request[r].file
        /\ \A q \in Requests \ {r} : request'[q] = request[q]
    BY <1>1, <2>1, GoesTo
  <2>3. Doing(r, Winning)' /\ request'[r].base = Current' /\ RowsAreOf(Current)'
    BY <1>1, <1>2, <1>4, <2>1, <2>2 DEF Doing, Winning, Current, RowsAreOf
  <2> QED BY <1>1, <2>2, <2>3, AtWork
<1>7. CASE AdvanceFileHead(r) /\ head = request[r].at
  <2>1. Goto(r, "file") /\ head' = Written(r)
    BY <1>7 DEF AdvanceFileHead, Written
  <2>2. /\ request'[r].pc = "file" /\ request'[r].base = request[r].base
        /\ request'[r].file = request[r].file
        /\ \A q \in Requests \ {r} : request'[q] = request[q]
    BY <1>1, <2>1, GoesTo
  <2>3. Doing(r, Projecting)' /\ RowsOf(r)'
    BY <1>1, <1>4, <2>1, <2>2 DEF Doing, Projecting, RowsOf, Written, RowsAreOf
  <2>4. \A q \in Requests : Doing(q, {"insert"}) => request[q].base <= request[r].base
    BY <1>2 DEF VersionInv, Honest, Doing, Asking
  <2> QED BY <1>1, <2>2, <2>3, <2>4, AtWork
<1> QED BY <1>5, <1>6, <1>7

LEMMA RowsProject ==
  ASSUME VersionInv, InTurn, NEW r \in Requests,
         \/ UpdateFile(r) \/ UpdateFolderFile(r) \/ InsertFilesByFolderUpdated(r)
         \/ DeleteFilesByFolderUpdated(r) \/ DeleteFileManifest(r) \/ WriteFileManifest(r)
  PROVE  InTurn'
<1>1. Doing(r, Projecting) /\ Doing(r, Keeping) /\ VersionTypes /\ UNCHANGED head
  BY DEF UpdateFile, UpdateFolderFile, InsertFilesByFolderUpdated, DeleteFilesByFolderUpdated,
     DeleteFileManifest, WriteFileManifest, At, Doing, Keeping, Projecting, VersionInv
<1>2. /\ RowsOf(r) /\ request[r].file = request[r].base
      /\ \A q \in Requests : Doing(q, {"insert"}) => request[q].base <= request[r].base
  BY <1>1 DEF InTurn, Doing
<1>3. request[r].base \in Nat /\ request[r].base >= 1 /\ Written(r) # request[r].base /\ Written(r) # 0
  BY <1>1 DEF VersionInv, Honest, Versions, Doing, Written, Keeping
<1>4. ASSUME NEW step \in Projecting, Goto(r, step), RowsOf(r)' PROVE InTurn'
  <2>1. /\ request'[r].pc = step /\ request'[r].base = request[r].base
        /\ request'[r].file = request[r].file
        /\ \A q \in Requests \ {r} : request'[q] = request[q]
    BY <1>1, <1>4, GoesTo
  <2>2. Doing(r, Projecting)'
    BY <2>1 DEF Doing
  <2> QED BY <1>1, <1>2, <1>4, <2>1, <2>2, AtWork
<1>5. ASSUME NEW step, Goto(r, step) PROVE request'[r].pc = step /\ request'[r].base = request[r].base
  BY <1>1, <1>5, GoesTo
<1>6. CASE UpdateFile(r)
  <2>1. /\ request[r].pc = "file" /\ Goto(r, "folder") /\ file' = Written(r)
        /\ UNCHANGED <<head, folder, sorted, manifest>>
    BY <1>6 DEF UpdateFile, At
  <2>2. request'[r].pc = "folder" /\ request'[r].base = request[r].base
    BY <1>5, <2>1
  <2>3. Written(r)' = Written(r)
    BY <2>2 DEF Written
  <2>4. RowsOf(r)'
    BY <1>2, <2>1, <2>2, <2>3 DEF RowsOf
  <2> QED BY <1>4, <2>1, <2>4 DEF Projecting
<1>7. CASE UpdateFolderFile(r)
  <2>1. /\ request[r].pc = "folder" /\ Goto(r, "sort") /\ folder' = Written(r)
        /\ UNCHANGED <<head, file, sorted, manifest>>
    BY <1>7 DEF UpdateFolderFile, At
  <2>2. request'[r].pc = "sort" /\ request'[r].base = request[r].base
    BY <1>5, <2>1
  <2>3. Written(r)' = Written(r)
    BY <2>2 DEF Written
  <2>4. RowsOf(r)'
    BY <1>2, <2>1, <2>2, <2>3 DEF RowsOf
  <2> QED BY <1>4, <2>1, <2>4 DEF Projecting
<1>8. CASE InsertFilesByFolderUpdated(r)
  <2>1. /\ request[r].pc = "sort" /\ Goto(r, "unsort") /\ sorted' = sorted \cup {Written(r)}
        /\ UNCHANGED <<head, file, folder, manifest>>
    BY <1>8 DEF InsertFilesByFolderUpdated, At
  <2>2. request'[r].pc = "unsort" /\ request'[r].base = request[r].base
    BY <1>5, <2>1
  <2>3. Written(r)' = Written(r)
    BY <2>2 DEF Written
  <2>4. RowsOf(r)'
    BY <1>2, <2>1, <2>2, <2>3 DEF RowsOf
  <2> QED BY <1>4, <2>1, <2>4 DEF Projecting
<1>9. CASE DeleteFilesByFolderUpdated(r)
  <2>1. /\ request[r].pc = "unsort" /\ Goto(r, "clear") /\ sorted' = sorted \ {request[r].file}
        /\ UNCHANGED <<head, file, folder, manifest>>
    BY <1>9 DEF DeleteFilesByFolderUpdated, At
  <2>2. sorted = {request[r].base, Written(r)}
    BY <1>2, <2>1 DEF RowsOf
  <2>3. sorted' = {Written(r)}
    BY <1>2, <1>3, <2>1, <2>2
  <2>4. RowsOf(r)'
    BY <1>2, <1>5, <2>1, <2>3 DEF RowsOf, Written
  <2> QED BY <1>4, <2>1, <2>4 DEF Projecting
<1>10. CASE DeleteFileManifest(r)
  <2>1. /\ request[r].pc = "clear" /\ Goto(r, "write") /\ manifest' = {}
        /\ UNCHANGED <<head, file, folder, sorted>>
    BY <1>10 DEF DeleteFileManifest, At
  <2>2. request'[r].pc = "write" /\ request'[r].base = request[r].base
    BY <1>5, <2>1
  <2>3. Written(r)' = Written(r)
    BY <2>2 DEF Written
  <2>4. RowsOf(r)'
    BY <1>2, <2>1, <2>2, <2>3 DEF RowsOf
  <2> QED BY <1>4, <2>1, <2>4 DEF Projecting
<1>11. CASE WriteFileManifest(r)
  <2>1. request \in [Requests -> Request] /\ request[r] \in Request
    BY <1>1 DEF VersionTypes
  <2>2. /\ request'[r].pc = "answered" /\ request'[r].base = request[r].base
        /\ request'[r].file = request[r].file
        /\ \A q \in Requests \ {r} : request'[q] = request[q]
    BY <1>11, <2>1 DEF WriteFileManifest, Answer, Request
  <2>3. request'[r].pc \notin Keeping \cup {"insert"}
    BY <2>2 DEF Keeping, Winning, Projecting
  <2>4. RowsAreOf(Written(r))'
    <3>1. request[r].pc = "write" /\ manifest = {}
      BY <1>2, <1>11 DEF RowsOf, WriteFileManifest, At
    <3>2. manifest' = {Written(r)} /\ UNCHANGED <<file, folder, sorted>>
      BY <1>11, <3>1 DEF WriteFileManifest
    <3>3. file' = Written(r) /\ folder' = Written(r) /\ sorted' = {Written(r)}
      BY <1>2, <3>1, <3>2 DEF RowsOf
    <3>4. Written(r)' = Written(r)
      BY <2>2 DEF Written
    <3> QED BY <3>2, <3>3, <3>4 DEF RowsAreOf
  <2>5. Current' = Written(r)'
    BY <1>1, <1>2, <1>3, <2>2 DEF RowsOf, Current, Written
  <2>6. RowsAreOf(Current)'
    BY <2>4, <2>5 DEF RowsAreOf
  <2> QED BY <1>1, <2>2, <2>3, <2>6, AtWork
<1> QED BY <1>6, <1>7, <1>8, <1>9, <1>10, <1>11

LEMMA RowsFail ==
  ASSUME VersionInv, InTurn, NEW r \in Requests, Fail(r), ~cut' PROVE InTurn'
<1>1. /\ ~Doing(r, Keeping) /\ UNCHANGED <<head, rows>>
      /\ request' = [request EXCEPT ![r] = Idle] \/ request[r].pc \in Projecting
  BY DEF Fail, Doing, Keeping
<1>2. request' = [request EXCEPT ![r] = Idle] /\ r \in DOMAIN request
  BY <1>1 DEF Doing, Keeping, VersionInv, VersionTypes
<1>3. request'[r].pc = "idle" /\ \A q \in Requests \ {r} : request'[q] = request[q]
  BY <1>2 DEF Idle, VersionInv, VersionTypes
<1>4. request'[r].pc \notin Keeping \cup {"insert"}
  BY <1>3 DEF Keeping, Winning, Projecting
<1> QED BY <1>1, <1>3, <1>4, Aside

LEMMA RowsBegin ==
  ASSUME VersionInv, InTurn, NEW r \in Requests,
         GetFileOwned(r) \/ ResolveLost(r) \/ \E e \in Editors, x \in Contents : Save(e, r, x)
  PROVE  InTurn'
<1>1. ~Doing(r, Keeping) /\ UNCHANGED <<head, rows>>
  BY DEF GetFileOwned, ResolveLost, Save, At, Doing, Keeping, Winning, Projecting
<1>2. request \in [Requests -> Request] /\ request[r] \in Request
  BY DEF VersionInv, VersionTypes
<1>3. request'[r].pc \in {"read", "resolve", "answered"} /\ \A q \in Requests \ {r} : request'[q] = request[q]
  <2>1. CASE GetFileOwned(r)
    BY <1>2, <2>1 DEF GetFileOwned, Request
  <2>2. CASE ResolveLost(r)
    BY <1>2, <2>2 DEF ResolveLost, Refuse, Answer, Request
  <2>3. CASE \E e \in Editors, x \in Contents : Save(e, r, x)
    BY <1>2, <2>3 DEF Save, Idle
  <2> QED BY <2>1, <2>2, <2>3
<1>4. request'[r].pc \notin Keeping \cup {"insert"}
  BY <1>3 DEF Keeping, Winning, Projecting
<1> QED BY <1>1, <1>3, <1>4, Aside

LEMMA RowsNextInv == VersionInv /\ RowsInv /\ [VersionNext]_versionVars => RowsInv'
<1> SUFFICES ASSUME VersionInv, RowsInv, [VersionNext]_versionVars, ~cut', ~crossed' PROVE InTurn'
  BY DEF RowsInv
<1>1. CASE UNCHANGED versionVars \/ \E e \in Editors : GetEditSession(e)
  <2>1. UNCHANGED <<request, head, file, folder, sorted, manifest, cut, crossed>>
    BY <1>1 DEF versionVars, GetEditSession, rows, history
  <2> QED BY <2>1 DEF RowsInv, InTurn, Doing, RowsOf, RowsAreOf, Written, Current
<1>2. ASSUME NEW r \in Requests, CommitVersion(r) PROVE InTurn'
  <2>1. ~cut /\ ~crossed
    <3>1. CASE Resolve(r)
      <4>1. UNCHANGED cut /\ (crossed => crossed' = crossed \/ crossed' = TRUE)
        BY <3>1, Zenon DEF Resolve
      <4> QED BY <4>1
    <3>2. CASE WriteFileManifest(r)
      BY <3>2 DEF WriteFileManifest
    <3>3. CASE ~Resolve(r) /\ ~WriteFileManifest(r)
      BY <1>2, <3>3, SMT DEF CommitVersion, GetFileOwned, InsertFileVersionIfAbsent, ResolveLost,
         GetFileHead, AdvanceFileHead, UpdateFile, UpdateFolderFile, InsertFilesByFolderUpdated,
         DeleteFilesByFolderUpdated, DeleteFileManifest, history
    <3> QED BY <3>1, <3>2, <3>3
  <2> QED BY <1>2, <2>1, RowsResolve, RowsInsert, RowsHead, RowsProject, RowsBegin, Zenon
          DEF CommitVersion, RowsInv
<1>3. ASSUME NEW r \in Requests, Fail(r) PROVE InTurn'
  <2>1. ~cut /\ ~crossed
    BY <1>3 DEF Fail
  <2> QED BY <1>3, <2>1, RowsFail DEF RowsInv
<1>4. ASSUME NEW e \in Editors, NEW r \in Requests, NEW x \in Contents, Save(e, r, x) PROVE InTurn'
  <2>1. ~cut /\ ~crossed
    BY <1>4 DEF Save, history
  <2> QED BY <1>4, <2>1, RowsBegin, Zenon DEF RowsInv
<1> QED BY <1>1, <1>2, <1>3, <1>4 DEF VersionNext

LEMMA RowsInvariance == MaxVersion \in Nat \ {0} /\ VersionSpec => []RowsInv
<1> SUFFICES ASSUME MaxVersion \in Nat \ {0} PROVE VersionSpec => []RowsInv
  OBVIOUS
<1> QED BY VersionInvariance, RowsInitInv, RowsNextInv, PTL DEF VersionSpec

LEMMA RowsShow == RowsInv => RowsShowTheHead
<1> SUFFICES ASSUME RowsInv, ~cut, ~crossed,
                    \A r \in Requests : request[r].pc \in {"idle", "answered"}
             PROVE  RowsAreOf(Current)
  BY DEF RowsShowTheHead, RowsAreOf
<1>1. \A r \in Requests : ~Doing(r, Projecting)
  BY DEF Doing, Projecting
<1> QED BY <1>1 DEF RowsInv, InTurn

\* Once every save has answered, the file's row, its folder entry, the sort rows
\* and the manifest are those of the head version, unless a save was cut off
\* between them or two wrote them at once (AdvanceFileHead, ApplyHeadContent).
THEOREM RowsFollow == MaxVersion \in Nat \ {0} /\ VersionSpec => []RowsShowTheHead
<1> QED BY RowsShow, RowsInvariance, PTL

-----------------------------------------------------------------------------
(* ---- Upload sessions: one whole file                                    *)

ChunksAreFinite == Chunks \in Nat /\ Beyond \in Nat

(* Without overlap and without a chunk past the end, whoever makes the     *)
(* file found the map full: then no chunk is absent any more and the map   *)
(* stays as it is.                                                         *)
Full(m) == \A c \in Expected : m[c] # 0
Finishing == {"load", "create", "complete"}
FilesAreTheMap ==
  /\ \A k \in Calls : call[k].pc \in Finishing => Full(map)
  /\ \A k \in Calls : CallAt(k, "create") => call[k].map = map
  /\ Len(files) > 0 => Full(map)
  /\ \A i \in 1..Len(files) : files[i] = Whole(map)

(* Once a call has made the file alone, it is the only one under way, and  *)
(* the session has ended when it answers.                                  *)
OneFile ==
  /\ Len(files) <= 1
  /\ Len(files) = 1 =>
       /\ \A k \in Calls : Running(k) =>
            CallAt(k, "complete") /\ \A q \in Others(k) : ~Running(q)
       /\ (\A k \in Calls : ~Running(k)) => status \in {"completed", "aborted"}

NoneAfter ==
  /\ Len(files) = ended - 1 /\ status = "aborted" /\ \A k \in Calls : ~Running(k)

FilesInv ==
  /\ \E S : files \in Seq(S)
  /\ ended \in Nat
  /\ Calm /\ ~Strayed => FilesAreTheMap
  /\ ~company /\ ~Died => OneFile
  /\ ended # 0 /\ ~late => NoneAfter

LEMMA FilesInitInv == SessionInit => FilesInv
<1> SUFFICES ASSUME SessionInit PROVE FilesInv
  OBVIOUS
<1>1. files \in Seq({}) /\ Len(files) = 0 /\ ended = 0
  BY DEF SessionInit
<1>2. \A k \in Calls : call[k].pc = "idle"
  BY DEF SessionInit, IdleCall
<1>3. FilesAreTheMap
  BY <1>1, <1>2 DEF FilesAreTheMap, Finishing, CallAt
<1> QED BY <1>1, <1>3 DEF FilesInv, OneFile

LEMMA ExpectedIsFinite ==
  ASSUME ChunksAreFinite
  PROVE  /\ IsFiniteSet(Expected) /\ Cardinality(Expected) = Chunks
         /\ Expected \subseteq Index
<1>1. IsFiniteSet(1..Chunks) /\ Cardinality(1..Chunks) = Chunks
  BY FS_Interval DEF ChunksAreFinite
<1> QED BY <1>1 DEF Expected, Index, ChunksAreFinite

LEMMA WholeList ==
  ASSUME ChunksAreFinite, NEW m, Full(m)
  PROVE  OrderedBlockHashes(m) = Whole(m)
<1>1. {c \in Expected : m[c] # 0} = Expected
  BY DEF Full
<1>2. Cardinality(Expected) = Chunks
  BY ExpectedIsFinite
<1>3. ASSUME NEW c \in Expected PROVE Cardinality({d \in Expected : d <= c}) = c
  <2>1. {d \in Expected : d <= c} = 1..c /\ c \in Nat /\ c >= 1
    BY DEF Expected, ChunksAreFinite
  <2>2. Cardinality(1..c) = c
    BY <2>1, FS_Interval
  <2> QED BY <2>1, <2>2
<1>4. ASSUME NEW i \in Expected PROVE Nth(Expected, i) = i
  BY <1>3, Zenon DEF Nth
<1>5. OrderedBlockHashes(m) = [i \in 1..Cardinality(Expected) |-> m[Nth(Expected, i)]]
  BY <1>1, Zenon DEF OrderedBlockHashes
<1>6. OrderedBlockHashes(m) = [i \in Expected |-> m[i]]
  BY <1>2, <1>4, <1>5, Zenon DEF Expected
<1> QED BY <1>6 DEF Whole

(* As many chunks as the file has, none past its end: all of them.         *)
LEMMA CountedIsFull ==
  ASSUME ChunksAreFinite, Counted(map), ~Strayed
  PROVE  Full(map)
<1> DEFINE there == {c \in Index : map[c] # 0}
<1>1. there \subseteq Expected /\ Cardinality(there) = Chunks
  BY DEF Counted, Strayed
<1>2. IsFiniteSet(Expected) /\ Cardinality(Expected) = Chunks
  BY ExpectedIsFinite
<1>3. there = Expected
  BY <1>1, <1>2, FS_Subset
<1> QED BY <1>3 DEF Full

(* What the steps of one call come to.                                     *)
Leaves(k) ==    \* refused, answered or failed without a trace in the file
  /\ call'[k].pc \in {"idle", "get"} /\ UNCHANGED <<status, company>>
  /\ ~Running(k) \/ CallAt(k, "count") \/ deaths' # 0
Enters(k) ==
  /\ CallAt(k, "get") /\ call'[k].pc \in {"block", "begin"}
  /\ status \in {"pending", "in_progress"} /\ UNCHANGED status
  /\ company' = (company \/ \E q \in Others(k) : CallAt(q, "complete"))
GoesOn(k) ==
  /\ Running(k) /\ ~CallAt(k, "complete") /\ UNCHANGED company
  /\ call'[k].pc \in {"map", "record", "begin", "count", "load", "create"}
  /\ CallAt(k, "record") \/ UNCHANGED map
  /\ CallAt(k, "record") => call[k].chunk \in Expected \/ Strayed'
  /\ call'[k].pc = "load" => CallAt(k, "count") /\ Counted(map)
  /\ call'[k].pc = "create" => CallAt(k, "load") /\ call'[k].map = map
Makes(k) ==
  /\ CallAt(k, "create") /\ call'[k].pc = "complete" /\ UNCHANGED status
  /\ files' = Append(files, OrderedBlockHashes(call[k].map))
  /\ company' = (company \/ \E q \in Others(k) : Running(q))
Completes(k) ==
  /\ CallAt(k, "complete") /\ call'[k].pc = "idle" /\ status' = "completed" /\ UNCHANGED company

Effect(k) ==
  /\ \A q \in Others(k) : call'[q] = call[q]
  /\ UNCHANGED <<ended, late>> /\ deaths' \in {deaths, deaths + 1}
  /\ Calm' => Calm
  /\ Calm /\ Strayed => Strayed'
  /\ Makes(k) \/ UNCHANGED files
  /\ GoesOn(k) \/ UNCHANGED map
  /\ Leaves(k) \/ Enters(k) \/ GoesOn(k) \/ Makes(k) \/ Completes(k)

(* Every step of a call is one of these.                                   *)
LEMMA CallMoves ==
  ASSUME SessionInv, NEW k \in Calls, NEW r,
         call' = [call EXCEPT ![k] = r]
  PROVE  call'[k] = r /\ \A q \in Others(k) : call'[q] = call[q]
  BY DEF SessionInv, SessionTypes, Others

LEMMA IdleIs == IdleCall.pc = "idle"
  BY DEF IdleCall

LEMMA EffectOfSend ==
  ASSUME SessionInv, NEW k \in Calls, NEW c \in Index, NEW h \in Hashes[c], SendChunk(k, c, h)
  PROVE  Effect(k)
<1> DEFINE r == [IdleCall EXCEPT !.pc = "get", !.chunk = c, !.hash = h]
<1>1. r.pc = "get"
  BY DEF IdleCall
<1>2. CallAt(k, "idle") /\ call' = [call EXCEPT ![k] = r]
      /\ UNCHANGED <<status, map, files, deaths, ended, overlap, doubled, company, late>>
  BY DEF SendChunk, sessionHistory
<1> HIDE DEF r
<1>3. call'[k].pc = "get" /\ \A q \in Others(k) : call'[q] = call[q]
  BY <1>1, <1>2, CallMoves
<1> QED BY <1>2, <1>3 DEF Effect, Leaves, Running, CallAt, Calm, Strayed

LEMMA EffectOfGet ==
  ASSUME SessionInv, NEW k \in Calls, GetSession(k)
  PROVE  Effect(k)
<1>1. CallAt(k, "get") /\ UNCHANGED <<status, map, files, deaths, ended, late>>
  BY DEF GetSession
<1>4. Calm' => Calm
  BY Zenon DEF GetSession, Calm
<1>2. CASE call' = [call EXCEPT ![k] = IdleCall] /\ UNCHANGED company
  <2>1. call'[k].pc = "idle" /\ \A q \in Others(k) : call'[q] = call[q]
    BY <1>2, CallMoves, IdleIs
  <2> QED BY <1>1, <1>2, <1>4, <2>1 DEF Effect, Leaves, Running, CallAt, Strayed
<1>3. ASSUME NEW step \in {"block", "begin"}, status \in {"pending", "in_progress"},
             call' = [call EXCEPT ![k].pc = step, ![k].status = status],
             company' = (company \/ \E q \in Others(k) : CallAt(q, "complete"))
      PROVE  Effect(k)
  <2>1. call \in [Calls -> Call]
    BY DEF SessionInv, SessionTypes
  <2>2. call'[k].pc = step /\ \A q \in Others(k) : call'[q] = call[q]
    BY <1>3, <2>1 DEF Others, Call
  <2> QED BY <1>1, <1>3, <1>4, <2>2 DEF Effect, Enters, Strayed
<1> QED BY <1>2, <1>3, Zenon DEF GetSession

(* A step of a call that only moves it on, or sends it the map.            *)
LEMMA CallGoes ==
  ASSUME SessionInv, NEW k \in Calls, NEW step,
         \/ call' = [call EXCEPT ![k].pc = step]
         \/ \E m : call' = [call EXCEPT ![k].pc = step, ![k].map = m]
         \/ \E s : call' = [call EXCEPT ![k].pc = step, ![k].status = s]
  PROVE  call'[k].pc = step /\ \A q \in Others(k) : call'[q] = call[q]
<1>1. call \in [Calls -> Call]
  BY DEF SessionInv, SessionTypes
<1> QED BY <1>1 DEF Others, Call

(* The map written holds the chunk of the call, and without overlap all    *)
(* that was there.                                                         *)
LEMMA RecordAdds ==
  ASSUME SessionInv, NEW k \in Calls, RecordBlockForChunk(k)
  PROVE  /\ call[k].chunk \in Expected \/ Strayed'
         /\ Calm /\ Strayed => Strayed'
<1> DEFINE c == call[k].chunk
<1>1. /\ CallAt(k, "record") /\ c \in Index /\ call[k].hash # 0
      /\ call[k].map \in [Index -> Flags] /\ map' = [call[k].map EXCEPT ![c] = call[k].hash]
  BY DEF RecordBlockForChunk, CallAt, SessionInv, Carries, SessionTypes, Call
<1>2. map'[c] # 0 /\ \A d \in Index \ {c} : map'[d] = call[k].map[d]
  BY <1>1
<1>3. Calm => call[k].map = map
  BY <1>1 DEF SessionInv, Fresh
<1> QED BY <1>1, <1>2, <1>3 DEF Strayed

LEMMA EffectOfWork ==
  ASSUME SessionInv, NEW k \in Calls,
         TakeReference(k) \/ ReadChunkMap(k) \/ RecordBlockForChunk(k) \/ BeginUpload(k)
  PROVE  Effect(k)
<1>1. PICK step \in {"map", "record", "begin", "count"} :
        \/ call' = [call EXCEPT ![k].pc = step]
        \/ \E m : call' = [call EXCEPT ![k].pc = step, ![k].map = m]
        \/ \E s : call' = [call EXCEPT ![k].pc = step, ![k].status = s]
  BY Zenon DEF TakeReference, ReadChunkMap, RecordBlockForChunk, BeginUpload, MoveCall
<1>2. call'[k].pc = step /\ \A q \in Others(k) : call'[q] = call[q]
  BY <1>1, CallGoes
<1>3. /\ call[k].pc \in {"block", "map", "record", "begin"}
      /\ UNCHANGED <<files, deaths, ended, company, late>>
      /\ CallAt(k, "record") \/ UNCHANGED map
  BY DEF TakeReference, ReadChunkMap, RecordBlockForChunk, BeginUpload, CallAt, sessionHistory
<1>6. Calm /\ Strayed => Strayed'
  <2>1. CASE CallAt(k, "record")
    BY <2>1, RecordAdds DEF TakeReference, ReadChunkMap, BeginUpload, CallAt
  <2>2. CASE ~CallAt(k, "record")
    BY <1>3, <2>2 DEF Strayed
  <2> QED BY <2>1, <2>2
<1>7. CallAt(k, "record") => call[k].chunk \in Expected \/ Strayed'
  BY RecordAdds DEF TakeReference, ReadChunkMap, BeginUpload, CallAt
<1>4. GoesOn(k)
  BY <1>2, <1>3, <1>7 DEF GoesOn, Running, CallAt
<1>5. Calm' => Calm
  <2>1. CASE ReadChunkMap(k)
    BY <2>1, Zenon DEF ReadChunkMap, Calm
  <2>2. CASE ~ReadChunkMap(k)
    <3>1. overlap' = overlap /\ doubled' = doubled
      BY <2>2 DEF TakeReference, RecordBlockForChunk, BeginUpload, sessionHistory
    <3> QED BY <3>1 DEF Calm
  <2> QED BY <2>1, <2>2
<1> QED BY <1>2, <1>3, <1>4, <1>5, <1>6 DEF Effect

LEMMA EffectOfCount ==
  ASSUME SessionInv, NEW k \in Calls, CountChunks(k)
  PROVE  Effect(k)
<1>1. /\ CallAt(k, "count")
      /\ UNCHANGED <<status, map, files, deaths, ended, overlap, doubled, company, late>>
  BY DEF CountChunks
<1>2. CASE Counted(map) /\ MoveCall(k, "load")
  <2>1. call'[k].pc = "load" /\ \A q \in Others(k) : call'[q] = call[q]
    BY <1>2, CallGoes DEF MoveCall
  <2>2. GoesOn(k)
    BY <1>1, <1>2, <2>1 DEF GoesOn, Running, CallAt
  <2> QED BY <1>1, <2>1, <2>2 DEF Effect, Calm, Strayed
<1>3. CASE AnswerCall(k)
  <2>1. call'[k].pc = "idle" /\ \A q \in Others(k) : call'[q] = call[q]
    BY <1>3, CallMoves, IdleIs DEF AnswerCall
  <2> QED BY <1>1, <2>1 DEF Effect, Leaves, Calm, Strayed
<1> QED BY <1>2, <1>3, Zenon DEF CountChunks

LEMMA EffectOfLoad ==
  ASSUME SessionInv, NEW k \in Calls, LoadSession(k)
  PROVE  Effect(k)
<1>1. /\ CallAt(k, "load")
      /\ UNCHANGED <<status, map, files, deaths, ended, overlap, doubled, company, late>>
      /\ call' = [call EXCEPT ![k].pc = "create", ![k].map = map]
  BY DEF LoadSession, sessionHistory
<1>2. call'[k].pc = "create" /\ \A q \in Others(k) : call'[q] = call[q]
  BY <1>1, CallGoes
<1>3. call'[k].map = map
  BY <1>1 DEF SessionInv, SessionTypes, Call
<1>4. GoesOn(k)
  BY <1>1, <1>2, <1>3 DEF GoesOn, Running, CallAt
<1> QED BY <1>1, <1>2, <1>4 DEF Effect, Calm, Strayed

LEMMA EffectOfCreate ==
  ASSUME SessionInv, NEW k \in Calls, CreateMetadataRecord(k)
  PROVE  Effect(k)
<1>1. CallAt(k, "create") /\ UNCHANGED <<status, map, deaths, ended, overlap, doubled, late>>
  BY DEF CreateMetadataRecord
<1>2. files' = Append(files, OrderedBlockHashes(call[k].map))
      /\ company' = (company \/ \E q \in Others(k) : Running(q))
  BY DEF CreateMetadataRecord
<1>3. call'[k].pc = "complete" /\ \A q \in Others(k) : call'[q] = call[q]
  BY CallGoes, Zenon DEF CreateMetadataRecord
<1>4. Makes(k)
  BY <1>1, <1>2, <1>3 DEF Makes
<1> QED BY <1>1, <1>3, <1>4 DEF Effect, Calm, Strayed

LEMMA EffectOfEnd ==
  ASSUME SessionInv, NEW k \in Calls, CompleteSession(k) \/ FailCall(k)
  PROVE  Effect(k)
<1>1. /\ call' = [call EXCEPT ![k] = IdleCall]
      /\ UNCHANGED <<map, files, ended, overlap, doubled, company, late>>
  BY DEF CompleteSession, FailCall, AnswerCall
<1>2. call'[k].pc = "idle" /\ \A q \in Others(k) : call'[q] = call[q]
  BY <1>1, CallMoves, IdleIs
<1>3. CASE CompleteSession(k)
  BY <1>1, <1>2, <1>3 DEF CompleteSession, Effect, Completes, Calm, Strayed
<1>4. CASE FailCall(k)
  <2>1. deaths' = deaths + 1 /\ deaths' # 0 /\ UNCHANGED status
    BY <1>4 DEF FailCall, SessionInv, SessionTypes
  <2> QED BY <1>1, <1>2, <2>1 DEF Effect, Leaves, Calm, Strayed
<1> QED BY <1>3, <1>4

-----------------------------------------------------------------------------
(* The three parts under one step of a call.                               *)
LEMMA MapKeeps ==
  ASSUME ChunksAreFinite, SessionInv, FilesInv, NEW k \in Calls, Effect(k), Calm,
         ~(Strayed')
  PROVE  FilesAreTheMap'
<1>0. ~Strayed
  BY DEF Effect
<1>1. FilesAreTheMap /\ Claims /\ call[k] \in Call /\ map \in [Index -> Flags]
  BY <1>0 DEF FilesInv, SessionInv, SessionTypes
<1>2. \A q \in Others(k) : call'[q] = call[q]
  BY DEF Effect
<1>3. CASE UNCHANGED <<map, files>>
  <2>1. call'[k].pc \in Finishing => Full(map)
    BY <1>0, <1>1, CountedIsFull DEF Effect, Leaves, Enters, GoesOn, Makes, Completes, Finishing, CallAt,
       FilesAreTheMap
  <2>2. call'[k].pc = "create" => call'[k].map = map
    BY DEF Effect, Leaves, Enters, GoesOn, Makes, Completes
  <2> QED BY <1>1, <1>2, <1>3, <2>1, <2>2 DEF FilesAreTheMap, Full, Whole, CallAt, Others
<1>4. CASE CallAt(k, "record") /\ GoesOn(k)
  <2>1. call[k].chunk \in Expected /\ map[call[k].chunk] = 0
    BY <1>1, <1>4 DEF Claims, CallAt, Claiming, GoesOn
  <2>2. ~Full(map)
    BY <2>1 DEF Full
  <2>3. \A q \in Calls : call[q].pc \notin Finishing
    BY <1>1, <2>2 DEF FilesAreTheMap
  <2>4. call'[k].pc \notin Finishing
    BY <1>4 DEF GoesOn, CallAt, Finishing
  <2>5. \A q \in Calls : call'[q].pc \notin Finishing
    BY <1>2, <2>3, <2>4 DEF Others
  <2>6. files' = files
    BY <1>4 DEF Effect, GoesOn, Makes, CallAt
  <2>7. Len(files) \in Nat /\ ~(Len(files) > 0)
    BY <1>1, <2>2 DEF FilesAreTheMap, FilesInv
  <2> QED BY <2>5, <2>6, <2>7 DEF FilesAreTheMap, Finishing, CallAt
<1>5. CASE Makes(k)
  <2>1. CallAt(k, "create") /\ Full(map) /\ call[k].map = map /\ map' = map
    BY <1>1, <1>5 DEF Makes, FilesAreTheMap, Finishing, CallAt, Effect, GoesOn
  <2>2. OrderedBlockHashes(map) = Whole(map) /\ Whole(map)' = Whole(map)
    BY <2>1, WholeList DEF Whole
  <2>3. files' = Append(files, Whole(map))
    BY <1>5, <2>1, <2>2 DEF Makes
  <2>4. PICK S : files \in Seq(S)
    BY DEF FilesInv
  <2>5. /\ Len(files) \in Nat /\ Len(files') = Len(files) + 1
        /\ \A i \in 1..Len(files) : files'[i] = files[i]
        /\ files'[Len(files) + 1] = Whole(map)
    <3>1. files \in Seq(S \cup {Whole(map)})
      BY <2>4
    <3> QED BY <2>3, <3>1
  <2>6. \A i \in 1..Len(files') : i \in 1..Len(files) \/ i = Len(files) + 1
    BY <2>5
  <2>7. \A i \in 1..Len(files') : files'[i] = Whole(map)
    BY <1>1, <2>5, <2>6 DEF FilesAreTheMap
  <2>8. call'[k].pc = "complete"
    BY <1>5 DEF Makes
  <2> QED BY <1>1, <1>2, <2>1, <2>2, <2>7, <2>8 DEF FilesAreTheMap, Full, CallAt, Others
<1> QED BY <1>3, <1>4, <1>5 DEF Effect, GoesOn

LEMMA OneFileKeeps ==
  ASSUME SessionInv, FilesInv, NEW k \in Calls, Effect(k), ~company', ~(Died')
  PROVE  OneFile'
<1>1. deaths \in Nat /\ deaths' = 0
  BY DEF SessionInv, SessionTypes, Died
<1>2. ~Died
  BY <1>1 DEF Effect, Died
<1>3. ~company
  BY DEF Effect, Leaves, Enters, GoesOn, Makes, Completes
<1>4. OneFile /\ Len(files) \in Nat
  BY <1>2, <1>3 DEF FilesInv
<1>5. \A q \in Others(k) : call'[q] = call[q] /\ (Running(q)' <=> Running(q))
  BY DEF Effect, Running
<1>6. CASE files' = files /\ Len(files) = 0
  BY <1>6 DEF OneFile
<1>7. CASE Makes(k)
  <2>1. \A q \in Others(k) : ~Running(q)
    BY <1>7 DEF Makes
  <2>6. Running(k) /\ ~CallAt(k, "complete")
    BY <1>7 DEF Makes, Running, CallAt
  <2>7. Len(files) # 1
    BY <1>4, <2>6 DEF OneFile
  <2>2. Len(files) = 0
    BY <1>4, <2>7 DEF OneFile
  <2>3. Len(files') = 1
    <3>1. PICK S : files \in Seq(S)
      BY DEF FilesInv
    <3>2. files \in Seq(S \cup {OrderedBlockHashes(call[k].map)})
      BY <3>1
    <3> QED BY <1>7, <2>2, <3>2 DEF Makes
  <2>4. Running(k)' /\ CallAt(k, "complete")'
    BY <1>7 DEF Makes, Running, CallAt
  <2>5. \A q \in Calls : Running(q)' => q = k
    BY <1>5, <2>1 DEF Others
  <2> QED BY <2>3, <2>4, <2>5 DEF OneFile, Others
<1>8. CASE files' = files /\ Len(files) = 1
  <2>1. /\ \A q \in Calls : Running(q) =>
             CallAt(q, "complete") /\ \A p \in Others(q) : ~Running(p)
        /\ (\A q \in Calls : ~Running(q)) => status \in {"completed", "aborted"}
    BY <1>4, <1>8 DEF OneFile
  <2>2. CASE Running(k)
    <3>1. CallAt(k, "complete") /\ \A q \in Others(k) : ~Running(q)
      BY <2>1, <2>2
    <3>2. ~Running(k)' /\ status' = "completed"
      BY <1>1, <2>2, <3>1 DEF Effect, Leaves, Enters, GoesOn, Makes, Completes, Running, CallAt
    <3>3. \A q \in Calls : ~Running(q)'
      BY <1>5, <3>1, <3>2 DEF Others
    <3> QED BY <1>8, <3>2, <3>3 DEF OneFile
  <2>3. CASE ~Running(k)
    <3>1. ~Running(k)' /\ status' = status
      <4>1. CASE Leaves(k)
        BY <4>1 DEF Leaves, Running
      <4>2. CASE Enters(k)
        <5>1. \A q \in Others(k) : ~CallAt(q, "complete")
          BY <4>2 DEF Enters
        <5>2. \A q \in Calls : ~Running(q)
          BY <2>1, <2>3, <5>1 DEF Others
        <5> QED BY <2>1, <4>2, <5>2 DEF Enters
      <4> QED BY <2>3, <4>1, <4>2 DEF Effect, GoesOn, Makes, Completes, Running, CallAt
    <3>2. \A q \in Calls : (Running(q)' <=> Running(q)) /\ (Running(q) => call'[q] = call[q])
      BY <1>5, <2>3, <3>1 DEF Others
    <3> QED BY <1>8, <2>1, <3>1, <3>2 DEF OneFile, CallAt, Others
  <2> QED BY <2>2, <2>3
<1> QED BY <1>4, <1>6, <1>7, <1>8 DEF Effect, OneFile

LEMMA NoneAfterKeeps ==
  ASSUME SessionInv, FilesInv, NEW k \in Calls, Effect(k), ended # 0, ~late
  PROVE  NoneAfter'
<1>1. NoneAfter
  BY DEF FilesInv
<1>2. ~Running(k)
  BY <1>1 DEF NoneAfter
<1>3. Leaves(k) /\ files' = files /\ ended' = ended
  BY <1>1, <1>2 DEF NoneAfter, Effect, Enters, GoesOn, Makes, Completes, Running, CallAt
<1>4. \A q \in Others(k) : Running(q)' <=> Running(q)
  BY DEF Effect, Running
<1>5. ~Running(k)' /\ status' = status
  BY <1>3 DEF Leaves, Running
<1>6. \A q \in Calls : ~Running(q)'
  BY <1>1, <1>4, <1>5 DEF NoneAfter, Others
<1> QED BY <1>1, <1>3, <1>5, <1>6 DEF NoneAfter

LEMMA FilesStep ==
  ASSUME ChunksAreFinite, SessionInv, FilesInv, NEW k \in Calls, Effect(k)
  PROVE  FilesInv'
<1>1. (\E S : files \in Seq(S))'
  <2>1. PICK S : files \in Seq(S)
    BY DEF FilesInv
  <2>2. CASE files' = files
    BY <2>1, <2>2
  <2>3. CASE Makes(k)
    <3>1. files \in Seq(S \cup {OrderedBlockHashes(call[k].map)})
      BY <2>1
    <3>2. files' \in Seq(S \cup {OrderedBlockHashes(call[k].map)})
      BY <2>3, <3>1 DEF Makes
    <3> QED BY <3>2
  <2> QED BY <2>2, <2>3 DEF Effect
<1>2. ended' = ended /\ late' = late /\ ended \in Nat
  BY DEF Effect, FilesInv
<1>3. Calm' => Calm
  BY DEF Effect
<1> QED BY <1>1, <1>2, <1>3, MapKeeps, OneFileKeeps, NoneAfterKeeps DEF FilesInv

(* The abort: what is under way then is late.                              *)
LEMMA FilesAbort == ASSUME SessionInv, FilesInv, AbortUpload PROVE FilesInv'
<1>1. /\ status' = "aborted" /\ ended' = Len(files) + 1 /\ late' = \E k \in Calls : Running(k)
      /\ UNCHANGED <<map, files, call, deaths, overlap, doubled, company>>
  BY DEF AbortUpload
<1>2. Len(files) \in Nat
  BY DEF FilesInv
<1>3. ended' \in Nat /\ Len(files) = ended' - 1
  BY <1>1, <1>2
<1>4. (\E S : files \in Seq(S))' /\ (Calm' /\ ~Strayed' => FilesAreTheMap')
  BY <1>1 DEF FilesInv, Calm, FilesAreTheMap, CallAt, Full, Whole, Strayed
<1>5. ~company' /\ ~Died' => OneFile'
  BY <1>1 DEF FilesInv, Died, OneFile, Running, CallAt
<1>6. ~late' => NoneAfter'
  BY <1>1, <1>3 DEF NoneAfter, Running
<1> QED BY <1>3, <1>4, <1>5, <1>6 DEF FilesInv

LEMMA FilesNextInv ==
  ChunksAreFinite /\ SessionInv /\ FilesInv /\ [SessionNext]_sessionVars => FilesInv'
<1> SUFFICES ASSUME ChunksAreFinite, SessionInv, FilesInv, [SessionNext]_sessionVars
             PROVE  FilesInv'
  OBVIOUS
<1>1. CASE UNCHANGED sessionVars
  BY <1>1 DEF sessionVars, sessionHistory, FilesInv, Calm, FilesAreTheMap, OneFile, NoneAfter,
     Died, Running, CallAt, Full, Whole, Strayed
<1>3. ASSUME NEW k \in Calls, NEW c \in Index, NEW h \in Hashes[c], SendChunk(k, c, h)
      PROVE  FilesInv'
  BY <1>3, EffectOfSend, FilesStep
<1>4. ASSUME NEW k \in Calls, ReceiveChunk(k) \/ FailCall(k) PROVE FilesInv'
  <2>1. Effect(k)
    BY <1>4, EffectOfGet, EffectOfWork, EffectOfCount, EffectOfLoad, EffectOfCreate,
       EffectOfEnd DEF ReceiveChunk
  <2> QED BY <2>1, FilesStep
<1> QED BY <1>1, <1>3, <1>4, FilesAbort DEF SessionNext

LEMMA FilesInvariance ==
  HashesAreReal /\ ChunksAreFinite /\ SessionSpec => [](SessionInv /\ FilesInv)
<1> SUFFICES ASSUME ChunksAreFinite PROVE HashesAreReal /\ SessionSpec => [](SessionInv /\ FilesInv)
  OBVIOUS
<1>1. HashesAreReal /\ SessionInit => SessionInv /\ FilesInv
  BY SessionInitInv, FilesInitInv
<1>2. SessionInv /\ FilesInv /\ [SessionNext]_sessionVars => SessionInv' /\ FilesInv'
  BY SessionNextInv, FilesNextInv
<1> QED BY <1>1, <1>2, PTL DEF SessionSpec

LEMMA FilesAreWhole == FilesInv => FileIsWholeAndOnce
  BY DEF FilesInv, FileIsWholeAndOnce, Calm, FilesAreTheMap, OneFile, NoneAfter

(* A session makes one file, of all its chunks in their order, and none    *)
(* after an abort; the flags name the overlaps that break it (CountChunks, *)
(* CreateMetadataRecord, AbortUpload).                                     *)
THEOREM OneWholeFile ==
  HashesAreReal /\ ChunksAreFinite /\ SessionSpec => []FileIsWholeAndOnce
<1> QED BY FilesAreWhole, FilesInvariance, PTL

-----------------------------------------------------------------------------
(* ---- Consolidation: a file that waits is in the work index              *)

Owning == {"unindex", "reindex", "manifest", "copy", "skipped?", "skipped"} \cup Marking
Failing == {"failed?", "failed", "retire", "relist"}
Unclaimed == {"idle", "claim", "update"}

Listing == stitchRow.state \in Listed => index # {}

(* A worker that is alone with the file: what holds when it stops there.    *)
WaitsAt(w) ==
  LET pc == worker[w].pc
      seen == worker[w].seen
  IN  /\ pc \in {"reap", "index first", "insert"} => stitchRow.state = "none"
      /\ pc = "drop" => stitchRow.state \notin Listed
      /\ pc = "claim" => Listing
      /\ pc \in {"insert", "update", "failed?", "failed", "retire"} \cup (Owning \ {"reindex"}) => index # {}
      /\ pc = "reindex" /\ seen = "stitching" => index # {}
      /\ pc = "relist" /\ seen = "failed" => index # {}

AloneWithIt ==
  /\ \A v, w \in Workers : Busy(v) /\ Busy(w) => v = w
  /\ (\A w \in Workers : ~Busy(w)) => Listing
  /\ \A w \in Workers : Busy(w) => WaitsAt(w)

(* Nothing has failed: a claimed row has a worker that will mark it.        *)
NothingFailed ==
  /\ stitchRow.state # "failed"
  /\ \A w \in Workers : worker[w].pc \notin Failing
  /\ stitchRow.state = "pending" =>
       "pending" \in index /\ \A w \in Workers : worker[w].pc \in Unclaimed
  /\ stitchRow.state = "stitching" => \E w \in Workers : worker[w].pc \in Owning
  /\ live = "trashed" => job.purge

Unlisted ==
  /\ job.pc \in {"unlist", "list", "insert"} => stitchRow.state = "none"
  /\ job.pc = "insert" => "pending" \in index

WaitInv ==
  /\ failures \in Nat /\ version # 0 /\ (lost => failures # 0)
  /\ ~raced /\ ~torn => /\ Unlisted
                        /\ ~shared => AloneWithIt
                        /\ failures = 0 => NothingFailed

LEMMA WaitInitInv == ConsolidationInit => WaitInv
<1> SUFFICES ASSUME ConsolidationInit PROVE WaitInv
  OBVIOUS
<1>1. /\ job.pc = "none" /\ live = "yes" /\ failures = 0 /\ version = 1 /\ lost = FALSE
      /\ \A w \in Workers : worker[w].pc = "idle"
      /\ stitchRow.state \in {"none", "pending"}
      /\ stitchRow.state = "pending" => "pending" \in index
  BY DEF ConsolidationInit, NoJob, Resting, NoStitch
<1>2. Unlisted
  BY <1>1 DEF Unlisted
<1>3. AloneWithIt
  BY <1>1 DEF AloneWithIt, Busy, Listing, Listed
<1>4. NothingFailed
  BY <1>1 DEF NothingFailed, Failing, Unclaimed
<1> QED BY <1>1, <1>2, <1>3, <1>4 DEF WaitInv

(* What a step of one worker owes to either.                                *)
KeepsListing(w) ==
  IF worker[w].pc = "idle" THEN Listing ELSE WaitsAt(w)

KeepsOwners(w) ==
  /\ stitchRow'.state # "failed"
  /\ worker'[w].pc \notin Failing
  /\ stitchRow'.state = "pending" =>
       stitchRow.state = "pending" /\ "pending" \in index' /\ worker'[w].pc \in Unclaimed
  /\ stitchRow'.state = "stitching" =>
       worker'[w].pc \in Owning \/ (stitchRow.state = "stitching" /\ worker[w].pc \notin Owning)

LEMMA WaitFrame ==
  ASSUME CopyInv, WaitInv, NEW w \in Workers,
         \A v \in Workers \ {w} : worker'[v] = worker[v],
         UNCHANGED Outside, torn => torn', ~raced' => ~raced /\ job.pc = "none", shared => shared',
         ~shared' => Busy(w) \/ \A v \in Workers : ~Busy(v),
         failures' \in Nat, failures' = 0 => failures = 0,
         KeepsListing(w) => KeepsListing(w)',
         NothingFailed /\ (Busy(w) => fileManifest # 0) => KeepsOwners(w) \/ failures' # 0
  PROVE  WaitInv'
<1>1. UNCHANGED <<live, version, fileManifest, job, lost>>
  BY DEF Outside
<1>2. failures' \in Nat /\ version' # 0 /\ (lost' => failures' # 0)
  BY <1>1 DEF WaitInv
<1> SUFFICES ASSUME ~raced', ~torn'
             PROVE  Unlisted' /\ (~shared' => AloneWithIt') /\ (failures' = 0 => NothingFailed')
  BY <1>2 DEF WaitInv
<1>3. /\ ~raced /\ ~torn /\ job.pc = "none" /\ Unlisted /\ (~shared => AloneWithIt)
      /\ failures = 0 => NothingFailed
  BY <1>1 DEF WaitInv
<1>4. Unlisted'
  BY <1>1, <1>3 DEF Unlisted
<1>5. ASSUME ~shared' PROVE AloneWithIt'
  <2>1. AloneWithIt /\ (Busy(w) \/ \A v \in Workers : ~Busy(v))
    BY <1>3, <1>5
  <2>2. \A v \in Workers \ {w} : ~Busy(v) /\ ~Busy(v)'
    BY <2>1 DEF AloneWithIt, Busy
  <2>3. KeepsListing(w)
    BY <2>1, <2>2 DEF AloneWithIt, KeepsListing, Busy
  <2>4. KeepsListing(w)'
    BY <2>3
  <2> QED BY <2>2, <2>4 DEF AloneWithIt, KeepsListing, Busy
<1>6. ASSUME failures' = 0 PROVE NothingFailed'
  <2>1. NothingFailed /\ ~lost
    BY <1>3, <1>6 DEF WaitInv
  <2>2. Busy(w) => fileManifest # 0
    <3>1. live # "trashed" /\ (live = "gone" => ~Busy(w))
      BY <1>3, <2>1 DEF NothingFailed, CopyInv, Purged, Jobs, Deleting
    <3>2. live \in {"yes", "trashed", "gone"} /\ Held
      BY <1>3, <2>1 DEF CopyInv, CopyTypes, Copied
    <3> QED BY <1>3, <3>1, <3>2 DEF Held, Early, WaitInv
  <2>3. KeepsOwners(w)
    BY <1>6, <2>1, <2>2
  <2>4. \A v \in Workers : worker'[v].pc \notin Failing
    BY <2>1, <2>3 DEF NothingFailed, KeepsOwners
  <2>5. stitchRow'.state = "pending" =>
          "pending" \in index' /\ \A v \in Workers : worker'[v].pc \in Unclaimed
    BY <2>1, <2>3 DEF NothingFailed, KeepsOwners
  <2>6. stitchRow'.state = "stitching" => \E v \in Workers : worker'[v].pc \in Owning
    BY <2>1, <2>3 DEF NothingFailed, KeepsOwners
  <2> QED BY <1>1, <2>1, <2>3, <2>4, <2>5, <2>6 DEF NothingFailed, KeepsOwners
<1> QED BY <1>4, <1>5, <1>6

(* Where a worker goes and what it then has seen.                           *)
Goes(w, step) ==
  /\ worker'[w].pc = step
  /\ \A v \in Workers \ {w} : worker'[v] = worker[v]

LEMMA Going1 ==
  ASSUME CopyTypes, NEW w \in Workers
  PROVE  /\ RestWorker(w) => Goes(w, "idle")
         /\ \A step : MoveWorker(w, step) => Goes(w, step) /\ worker'[w].seen = worker[w].seen
         /\ \A step : Saw(w, step) => Goes(w, step) /\ worker'[w].seen = stitchRow.state
<1>1. worker \in [Workers -> Worker] /\ worker[w] \in Worker
  BY DEF CopyTypes
<1>2. ASSUME RestWorker(w) PROVE Goes(w, "idle")
  BY <1>1, <1>2 DEF RestWorker, Goes, Resting
<1>3. ASSUME NEW step, MoveWorker(w, step) PROVE Goes(w, step) /\ worker'[w].seen = worker[w].seen
  BY <1>1, <1>3 DEF MoveWorker, Goes, Worker
<1>4. ASSUME NEW step, Saw(w, step) PROVE Goes(w, step) /\ worker'[w].seen = stitchRow.state
  BY <1>1, <1>4 DEF Saw, Goes, Worker
<1> QED BY <1>2, <1>3, <1>4

(* A step of a busy worker.                                                 *)
LEMMA BusyStep ==
  ASSUME CopyInv, WaitInv, NEW w \in Workers, Busy(w), NEW step, Goes(w, step),
         UNCHANGED <<raced, shared, Outside>>, torn => torn', failures' \in Nat, failures' = 0 => failures = 0,
         WaitsAt(w) => KeepsListing(w)',
         NothingFailed /\ fileManifest # 0 => KeepsOwners(w) \/ failures' # 0
  PROVE  WaitInv'
<1>1. ~raced' => ~raced /\ job.pc = "none"
  BY DEF CopyInv, Apart
<1>2. KeepsListing(w) => KeepsListing(w)'
  BY DEF KeepsListing, Busy
<1> QED BY <1>1, <1>2, WaitFrame DEF Goes

LEMMA ListWaits ==
  ASSUME CopyInv, WaitInv, NEW w \in Workers, ListPending(w) PROVE WaitInv'
<1>1. /\ CopyTypes /\ ~Busy(w) /\ index # {} /\ UNCHANGED <<stitchRow, index, object, failures, torn, Outside>>
      /\ raced' = (raced \/ job.pc # "none")
      /\ shared' = (shared \/ \E v \in Workers : Busy(v))
  BY DEF ListPending, stitched, CopyInv
<1>2. PICK step \in {"reap", "claim"} : Goes(w, step) /\ (step = "reap" => stitchRow.state = "none")
  <2>1. CASE MoveWorker(w, "claim")
    BY <1>1, <2>1, Going1
  <2>2. CASE /\ stitchRow.state = "none"
             /\ \E s \in index : worker' = [worker EXCEPT ![w].pc = "reap", ![w].seen = s]
    <3>1. PICK s : worker' = [worker EXCEPT ![w].pc = "reap", ![w].seen = s]
      BY <2>2
    <3>2. worker \in [Workers -> Worker] /\ worker[w] \in Worker
      BY <1>1 DEF CopyTypes
    <3>3. Goes(w, "reap")
      BY <3>1, <3>2 DEF Goes, Worker
    <3> QED BY <2>2, <3>3
  <2> QED BY <2>1, <2>2 DEF ListPending
<1>3. KeepsListing(w)'
  BY <1>1, <1>2 DEF KeepsListing, Goes, WaitsAt, Listing, Owning, Marking
<1>4. NothingFailed => KeepsOwners(w)
  BY <1>1, <1>2 DEF NothingFailed, KeepsOwners, Goes, Busy, Failing, Unclaimed, Owning, Marking
<1>5. failures' \in Nat /\ failures' = failures
  BY <1>1 DEF WaitInv
<1>6. /\ ~raced' => ~raced /\ job.pc = "none"
      /\ ~shared' => \A v \in Workers : ~Busy(v)
      /\ shared => shared'
  BY <1>1
<1> QED BY <1>1, <1>2, <1>3, <1>4, <1>5, <1>6, WaitFrame DEF Goes

LEMMA SweepWaits ==
  ASSUME CopyInv, WaitInv, NEW w \in Workers, SweepOnce(w) PROVE WaitInv'
<1> USE Going1
<1>0. CopyTypes /\ failures \in Nat
  BY DEF CopyInv, WaitInv
<1>1. ASSUME Busy(w), NEW step, Goes(w, step),
             UNCHANGED <<raced, shared, torn, Outside>>, failures' = failures,
             WaitsAt(w) => KeepsListing(w)',
             NothingFailed /\ fileManifest # 0 => KeepsOwners(w)
      PROVE  WaitInv'
  BY <1>0, <1>1, BusyStep
<1>2. CASE ReapIndex(w)
  <2>1. /\ worker[w].pc = "reap" /\ Goes(w, "idle") /\ index' = index \ {worker[w].seen}
        /\ UNCHANGED <<stitchRow, failures, raced, shared, torn, Outside>>
    BY <1>0, <1>2 DEF ReapIndex, WorkerAt
  <2>2. WaitsAt(w) => KeepsListing(w)'
    BY <2>1 DEF WaitsAt, KeepsListing, Goes, Listing, Listed
  <2>3. NothingFailed => KeepsOwners(w)
    BY <2>1 DEF NothingFailed, KeepsOwners, Goes, Failing, Unclaimed, Owning, Marking
  <2> QED BY <1>1, <2>1, <2>2, <2>3 DEF Busy
<1>3. CASE ReadClaim(w)
  <2>1. /\ worker[w].pc = "claim"
        /\ UNCHANGED <<stitchRow, index, failures, raced, shared, torn, Outside>>
    BY <1>3 DEF ReadClaim, WorkerAt, stitched
  <2>2. PICK step : /\ Goes(w, step)
                    /\ \/ step = "index first" /\ stitchRow.state = "none"
                       \/ step = "idle" /\ stitchRow.state \in {"ready", "skipped"}
                       \/ step = "update" /\ stitchRow.state \in Listed
    BY <1>0, <1>3 DEF ReadClaim
  <2>3. WaitsAt(w) => KeepsListing(w)'
    BY <2>1, <2>2 DEF WaitsAt, KeepsListing, Goes, Listing, Listed, Owning, Marking
  <2>4. NothingFailed => KeepsOwners(w)
    BY <2>1, <2>2 DEF NothingFailed, KeepsOwners, Goes, Failing, Unclaimed, Owning, Marking
  <2> QED BY <1>1, <2>1, <2>2, <2>3, <2>4 DEF Busy
<1>4. CASE IndexClaim(w)
  <2>1. /\ worker[w].pc = "index first" /\ Goes(w, "insert") /\ index' = index \cup {"stitching"}
        /\ UNCHANGED <<stitchRow, failures, raced, shared, torn, Outside>>
    BY <1>0, <1>4 DEF IndexClaim, WorkerAt
  <2>2. WaitsAt(w) => KeepsListing(w)'
    BY <2>1 DEF WaitsAt, KeepsListing, Goes, Owning, Marking
  <2>3. NothingFailed => KeepsOwners(w)
    BY <2>1 DEF NothingFailed, KeepsOwners, Goes, Failing, Unclaimed, Owning, Marking
  <2> QED BY <1>1, <2>1, <2>2, <2>3 DEF Busy
<1>5. CASE InsertClaim(w)
  <2>1. /\ worker[w].pc = "insert" /\ Goes(w, "manifest") /\ stitchRow'.state = "stitching"
        /\ UNCHANGED <<index, failures, raced, shared, torn, Outside>>
    BY <1>0, <1>5 DEF InsertClaim, WorkerAt
  <2>2. WaitsAt(w) => KeepsListing(w)'
    BY <2>1 DEF WaitsAt, KeepsListing, Goes, Owning, Marking
  <2>3. NothingFailed => KeepsOwners(w)
    BY <2>1 DEF NothingFailed, KeepsOwners, Goes, Failing, Unclaimed, Owning, Marking
  <2> QED BY <1>1, <2>1, <2>2, <2>3 DEF Busy
<1>6. CASE UpdateClaim(w)
  <2>1. /\ worker[w].pc = "update" /\ Goes(w, "unindex") /\ stitchRow'.state = "stitching"
        /\ UNCHANGED <<index, failures, raced, shared, torn, Outside>>
    BY <1>0, <1>6 DEF UpdateClaim, WorkerAt
  <2>2. WaitsAt(w) => KeepsListing(w)'
    BY <2>1 DEF WaitsAt, KeepsListing, Goes, Owning, Marking
  <2>3. NothingFailed => KeepsOwners(w)
    BY <2>1 DEF NothingFailed, KeepsOwners, Goes, Failing, Unclaimed, Owning, Marking
  <2> QED BY <1>1, <2>1, <2>2, <2>3 DEF Busy
<1>7. CASE IndexStitching(w)
  <2>1. UNCHANGED <<stitchRow, failures, raced, shared, torn, Outside>>
    BY <1>7 DEF IndexStitching
  <2>2. CASE /\ worker[w].pc = "unindex" /\ index' = Cleared(worker[w].seen, "stitching")
             /\ MoveWorker(w, "reindex")
    <3>1. Goes(w, "reindex") /\ worker'[w].seen = worker[w].seen
      BY <1>0, <2>2
    <3>2. WaitsAt(w) => KeepsListing(w)'
      BY <2>1, <2>2, <3>1 DEF WaitsAt, KeepsListing, Goes, Owning, Marking, Cleared
    <3>3. NothingFailed => KeepsOwners(w)
      BY <2>1, <2>2, <3>1 DEF NothingFailed, KeepsOwners, Goes, Failing, Unclaimed, Owning, Marking
    <3> QED BY <1>1, <2>1, <2>2, <3>1, <3>2, <3>3 DEF Busy
  <2>3. CASE /\ worker[w].pc = "reindex" /\ index' = Published(worker[w].seen, "stitching")
             /\ MoveWorker(w, "manifest")
    <3>1. Goes(w, "manifest") /\ worker'[w].seen = worker[w].seen
      BY <1>0, <2>3
    <3>2. WaitsAt(w) => KeepsListing(w)'
      BY <2>1, <2>3, <3>1 DEF WaitsAt, KeepsListing, Goes, Owning, Marking, Published, Listed
    <3>3. NothingFailed => KeepsOwners(w)
      BY <2>1, <2>3, <3>1 DEF NothingFailed, KeepsOwners, Goes, Failing, Unclaimed, Owning, Marking
    <3> QED BY <1>1, <2>1, <2>3, <3>1, <3>2, <3>3 DEF Busy
  <2> QED BY <1>7, <2>2, <2>3, Zenon DEF IndexStitching, MoveIndex, WorkerAt
<1>8. CASE ReadManifest(w)
  <2>1. /\ worker[w].pc = "manifest"
        /\ UNCHANGED <<stitchRow, index, failures, raced, shared, torn, Outside>>
    BY <1>8 DEF ReadManifest, WorkerAt, stitched
  <2>2. PICK step \in {"failed?", "skipped?", "copy"} :
          Goes(w, step) /\ (fileManifest # 0 => step # "failed?")
    <3>1. worker \in [Workers -> Worker] /\ worker[w] \in Worker
      BY <1>0 DEF CopyTypes
    <3> DEFINE to == IF fileManifest = 0 THEN "failed?" ELSE
                     IF fileManifest \in Parked THEN "skipped?" ELSE "copy"
    <3>2. worker' = [worker EXCEPT ![w].read = fileManifest, ![w].pc = to]
      BY <1>8 DEF ReadManifest
    <3>3. Goes(w, to)
      <4> HIDE DEF to
      <4> QED BY <3>1, <3>2 DEF Goes, Worker
    <3> QED BY <3>3
  <2>3. WaitsAt(w) => KeepsListing(w)'
    BY <2>1, <2>2 DEF WaitsAt, KeepsListing, Goes, Owning, Marking
  <2>4. NothingFailed /\ fileManifest # 0 => KeepsOwners(w)
    BY <2>1, <2>2 DEF NothingFailed, KeepsOwners, Goes, Failing, Unclaimed, Owning, Marking
  <2> QED BY <1>1, <2>1, <2>2, <2>3, <2>4 DEF Busy
<1>9. CASE Stitch(w)
  <2>1. /\ worker[w].pc = "copy"
        /\ UNCHANGED <<stitchRow, index, raced, shared, torn, Outside>>
    BY <1>9 DEF Stitch, WorkerAt
  <2>2. PICK step \in {"ready?", "failed?"} :
          Goes(w, step) /\ (IF step = "ready?" THEN failures' = failures ELSE failures' = failures + 1)
    BY <1>0, <1>9 DEF Stitch
  <2>3. WaitsAt(w) => KeepsListing(w)'
    BY <2>1, <2>2 DEF WaitsAt, KeepsListing, Goes, Owning, Marking
  <2>4. failures' \in Nat /\ (failures' = 0 => failures = 0 /\ step = "ready?")
    BY <1>0, <2>2
  <2>5. NothingFailed => KeepsOwners(w) \/ failures' # 0
    BY <2>1, <2>2, <2>4 DEF NothingFailed, KeepsOwners, Goes, Failing, Unclaimed, Owning, Marking
  <2> QED BY <2>1, <2>2, <2>3, <2>4, <2>5, BusyStep DEF Busy
<1>10. CASE StateOf(w)
  <2>1. /\ UNCHANGED <<stitchRow, index, failures, raced, shared, torn, Outside>>
        /\ worker[w].pc \in {"ready?", "failed?", "skipped?"}
    BY <1>10 DEF StateOf, stitched, WorkerAt
  <2>2. PICK step : /\ Goes(w, step)
                    /\ \/ worker[w].pc = "ready?" /\ step = "ready"
                       \/ worker[w].pc = "failed?" /\ step = "failed"
                       \/ worker[w].pc = "skipped?" /\ step = "skipped"
                       \/ step = "idle" /\ stitchRow.state \in {"none", "ready"}
    BY <1>0, <1>10 DEF StateOf, WorkerAt
  <2>3. WaitsAt(w) => KeepsListing(w)'
    BY <2>1, <2>2 DEF WaitsAt, KeepsListing, Goes, Owning, Marking, Listing, Listed
  <2>4. NothingFailed => KeepsOwners(w)
    BY <2>1, <2>2 DEF NothingFailed, KeepsOwners, Goes, Failing, Unclaimed, Owning, Marking
  <2> QED BY <1>1, <2>1, <2>2, <2>3, <2>4 DEF Busy
<1>11. CASE MarkReady(w) \/ MarkSkipped(w)
  <2>1. /\ UNCHANGED <<index, failures, raced, shared, torn, Outside>>
        /\ worker[w].pc \in {"ready", "skipped"}
    BY <1>11 DEF MarkReady, MarkSkipped, WorkerAt
  <2>2. PICK step : /\ Goes(w, step)
                    /\ \/ step = "idle" /\ stitchRow.state = "none" /\ stitchRow' = stitchRow
                       \/ step = "drop" /\ stitchRow'.state \in {"ready", "skipped"}
    <3>1. stitchRow \in [state : States, attempts : Nat]
      BY <1>0 DEF CopyTypes
    <3> QED BY <1>0, <1>11, <3>1 DEF MarkReady, MarkSkipped
  <2>3. WaitsAt(w) => KeepsListing(w)'
    BY <2>1, <2>2 DEF WaitsAt, KeepsListing, Goes, Owning, Marking, Listing, Listed
  <2>4. NothingFailed => KeepsOwners(w)
    BY <2>1, <2>2 DEF NothingFailed, KeepsOwners, Goes, Failing, Unclaimed, Owning, Marking
  <2> QED BY <1>1, <2>1, <2>2, <2>3, <2>4 DEF Busy
<1>12. CASE DropIndex(w)
  <2>1. /\ worker[w].pc = "drop" /\ Goes(w, "idle") /\ index' = index \ {worker[w].seen}
        /\ UNCHANGED <<stitchRow, failures, raced, shared, torn, Outside>>
    BY <1>0, <1>12 DEF DropIndex, WorkerAt
  <2>2. WaitsAt(w) => KeepsListing(w)'
    BY <2>1 DEF WaitsAt, KeepsListing, Goes, Listing
  <2>3. NothingFailed => KeepsOwners(w)
    BY <2>1 DEF NothingFailed, KeepsOwners, Goes, Failing, Unclaimed, Owning, Marking
  <2> QED BY <1>1, <2>1, <2>2, <2>3 DEF Busy
<1>13. CASE MarkFailed(w)
  <2>1. /\ worker[w].pc = "failed" /\ Goes(w, "retire")
        /\ UNCHANGED <<index, failures, raced, shared, torn, Outside>>
    BY <1>0, <1>13 DEF MarkFailed, WorkerAt
  <2>2. WaitsAt(w) => KeepsListing(w)'
    BY <2>1 DEF WaitsAt, KeepsListing, Goes, Owning, Marking
  <2>3. ~NothingFailed
    BY <2>1 DEF NothingFailed, Failing
  <2> QED BY <1>1, <2>1, <2>2, <2>3 DEF Busy
<1>14. CASE IndexFailed(w)
  <2>1. UNCHANGED <<stitchRow, failures, raced, shared, torn, Outside>>
    BY <1>14 DEF IndexFailed
  <2>2. CASE /\ worker[w].pc = "retire" /\ index' = Cleared(worker[w].seen, "failed")
             /\ MoveWorker(w, "relist")
    <3>1. Goes(w, "relist") /\ worker'[w].seen = worker[w].seen /\ ~NothingFailed
      BY <1>0, <2>2 DEF NothingFailed, Failing
    <3>2. WaitsAt(w) => KeepsListing(w)'
      BY <2>1, <2>2, <3>1 DEF WaitsAt, KeepsListing, Goes, Owning, Marking, Cleared
    <3> QED BY <1>1, <2>1, <2>2, <3>1, <3>2 DEF Busy
  <2>3. CASE /\ worker[w].pc = "relist" /\ index' = Published(worker[w].seen, "failed")
             /\ RestWorker(w)
    <3>1. Goes(w, "idle") /\ ~NothingFailed
      BY <1>0, <2>3 DEF NothingFailed, Failing
    <3>2. WaitsAt(w) => KeepsListing(w)'
      BY <2>1, <2>3, <3>1 DEF WaitsAt, KeepsListing, Goes, Published, Listing, Listed
    <3> QED BY <1>1, <2>1, <2>3, <3>1, <3>2 DEF Busy
  <2> QED BY <1>14, <2>2, <2>3, Zenon DEF IndexFailed, MoveIndex, WorkerAt
<1>15. CASE ListPending(w)
  BY <1>15, ListWaits
<1> QED BY <1>2, <1>3, <1>4, <1>5, <1>6, <1>7, <1>8, <1>9, <1>10, <1>11, <1>12, <1>13, <1>14, <1>15
        DEF SweepOnce

LEMMA DeathWaits ==
  ASSUME CopyInv, WaitInv, NEW w \in Workers, WorkerDies(w) PROVE WaitInv'
<1>1. /\ CopyTypes /\ Busy(w) /\ RestWorker(w) /\ failures' = failures + 1 /\ failures \in Nat
      /\ torn' = (torn \/ worker[w].pc \in {"reindex", "relist"})
      /\ UNCHANGED <<stitchRow, index, raced, shared, Outside>>
  BY DEF WorkerDies, stitched, CopyInv, WaitInv
<1>2. Goes(w, "idle") /\ worker[w].pc \in Places
  BY <1>1, Going1 DEF CopyTypes, Worker
<1>3. CASE torn'
  BY <1>1, <1>3 DEF WaitInv, Outside
<1>4. CASE ~torn'
  <2>1. WaitsAt(w) => KeepsListing(w)'
    BY <1>1, <1>2, <1>4 DEF WaitsAt, KeepsListing, Goes, Owning, Marking, Listing, Listed, Places, Busy
  <2>2. failures' \in Nat /\ failures' # 0
    BY <1>1
  <2> QED BY <1>1, <1>2, <1>4, <2>1, <2>2, BusyStep
<1> QED BY <1>1, <1>3, <1>4

(* While a job is under way no worker is at work.                           *)
LEMMA JobWaits ==
  ASSUME CopyInv, WaitInv, Commit \/ Purge \/ JobStep \/ JobFails PROVE WaitInv'
<1>1. CopyTypes /\ failures \in Nat /\ version \in Nat
  BY DEF CopyInv, WaitInv, CopyTypes
<1>2. /\ UNCHANGED <<worker, shared, torn>> /\ (raced => raced')
      /\ ~raced' => \A w \in Workers : ~Busy(w)
  <2>1. CASE Commit \/ Purge
    BY <2>1 DEF Commit, Purge, Begin
  <2>2. CASE JobStep \/ JobFails
    <3>1. job.pc # "none" /\ UNCHANGED <<worker, raced, shared, torn>>
      BY <2>2 DEF JobStep, JobFails, ClearManifest, RewriteManifest, InvalidateManifest,
         DeleteConsolidated, DeleteRow, ClearIndex, EnqueueRead, EnqueueIndex, EnqueueInsert, Job,
         copyHistory
    <3> QED BY <3>1 DEF CopyInv, Apart
  <2> QED BY <2>1, <2>2
<1>3. /\ version' # 0 /\ failures' \in Nat /\ (failures' = 0 => failures = 0 /\ ~lost')
  <2>1. CASE Commit
    BY <1>1, <2>1 DEF Commit, WaitInv
  <2>2. CASE Purge
    BY <1>1, <2>2 DEF Purge, WaitInv
  <2>3. CASE JobFails
    BY <1>1, <2>3 DEF JobFails, WaitInv
  <2>4. CASE JobStep
    <3>1. UNCHANGED <<version, failures, lost>>
      BY <2>4 DEF JobStep, ClearManifest, RewriteManifest, InvalidateManifest,
         DeleteConsolidated, DeleteRow, ClearIndex, EnqueueRead, EnqueueIndex, EnqueueInsert, Job,
         copyHistory
    <3> QED BY <3>1 DEF WaitInv
  <2> QED BY <2>1, <2>2, <2>3, <2>4
<1> SUFFICES ASSUME ~raced', ~torn'
             PROVE  Unlisted' /\ (~shared' => AloneWithIt') /\ (failures' = 0 => NothingFailed')
  BY <1>3 DEF WaitInv
<1>4. /\ Unlisted /\ (~shared => AloneWithIt) /\ (failures = 0 => NothingFailed)
      /\ \A w \in Workers : worker[w].pc = "idle"
  BY <1>2 DEF WaitInv, Busy
<1>5. ~shared => Listing
  BY <1>2, <1>4 DEF AloneWithIt
<1>6. ASSUME Unlisted', (~shared => Listing'),
             failures' = 0 => /\ stitchRow'.state \notin {"failed", "stitching"}
                              /\ stitchRow'.state = "pending" => "pending" \in index'
                              /\ live' = "trashed" => job'.purge
      PROVE  Unlisted' /\ (~shared' => AloneWithIt') /\ (failures' = 0 => NothingFailed')
  <2>1. \A w \in Workers : worker'[w].pc = "idle"
    BY <1>2, <1>4
  <2>2. ~shared' => AloneWithIt'
    BY <1>2, <1>6, <2>1 DEF AloneWithIt, Busy
  <2>3. failures' = 0 => NothingFailed'
    BY <1>6, <2>1 DEF NothingFailed, Failing, Unclaimed
  <2> QED BY <1>6, <2>2, <2>3
<1>7. failures = 0 => /\ stitchRow.state \notin {"failed", "stitching"}
                      /\ stitchRow.state = "pending" => "pending" \in index
                      /\ live = "trashed" => job.purge
  BY <1>4 DEF NothingFailed, Owning, Marking
<1>8. CASE Commit
  <2>1. /\ live' = "yes" /\ job'.pc = "clear" /\ UNCHANGED <<stitchRow, index>>
    BY <1>8 DEF Commit, Begin, stitched
  <2> QED BY <1>3, <1>5, <1>6, <1>7, <2>1 DEF Unlisted, Listing
<1>9. CASE Purge
  <2>1. /\ job'.purge /\ job'.pc = "object" /\ UNCHANGED <<stitchRow, index>>
    BY <1>9 DEF Purge, Begin, stitched
  <2> QED BY <1>3, <1>5, <1>6, <1>7, <2>1 DEF Unlisted, Listing
<1>10. CASE JobFails
  <2>1. UNCHANGED <<stitchRow, index>> /\ failures' # 0
    BY <1>1, <1>10 DEF JobFails, stitched
  <2>2. job'.pc \in {"none", "uncache", "row", "enqueue"}
    <3>1. job \in [pc : JobSteps, purge : BOOLEAN]
      BY <1>1 DEF CopyTypes
    <3> QED BY <1>10, <3>1 DEF JobFails, NoJob
  <2> QED BY <1>5, <1>6, <2>1, <2>2 DEF Unlisted, Listing
<1>11. CASE ClearManifest \/ RewriteManifest \/ InvalidateManifest \/ DeleteConsolidated
  <2>1. UNCHANGED <<stitchRow, index, live, failures>>
    BY <1>11 DEF ClearManifest, RewriteManifest, InvalidateManifest, DeleteConsolidated, Job, stitched
  <2>2. job'.pc \in {"row", "write", "uncache", "object", "clear"} /\ job'.purge = job.purge
    <3>1. PICK step, next \in {"row", "write", "uncache", "object", "clear"} : Job(step, next)
      BY <1>11 DEF ClearManifest, RewriteManifest, InvalidateManifest, DeleteConsolidated
    <3>2. next \in JobSteps
      BY <3>1 DEF JobSteps
    <3> QED BY <1>1, <3>1, <3>2, JobMoves
  <2> QED BY <1>5, <1>6, <1>7, <2>1, <2>2 DEF Unlisted, Listing
<1>12. CASE DeleteRow
  <2>1. /\ stitchRow'.state = "none" /\ UNCHANGED <<index, live, failures>>
    BY <1>12 DEF DeleteRow, Job, NoStitch
  <2>2. job'.pc = "unlist" /\ job'.purge = job.purge
    <3>1. "unlist" \in JobSteps /\ Job("row", "unlist")
      BY <1>12 DEF JobSteps, DeleteRow
    <3> QED BY <1>1, <3>1, JobMoves
  <2> QED BY <1>6, <1>7, <2>1, <2>2 DEF Unlisted, Listing, Listed
<1>13. CASE ClearIndex
  <2>1. /\ job.pc = "unlist" /\ UNCHANGED <<stitchRow, failures>>
        /\ \/ job' = NoJob /\ live' = "gone"
           \/ job' = [job EXCEPT !.pc = "enqueue"] /\ live' = live
    BY <1>13 DEF ClearIndex
  <2>2. stitchRow'.state = "none"
    BY <1>4, <2>1 DEF Unlisted
  <2>3. job'.pc \in {"none", "enqueue"} /\ (live' = "trashed" => live = "trashed" /\ job'.purge = job.purge)
    <3>1. job \in [pc : JobSteps, purge : BOOLEAN]
      BY <1>1 DEF CopyTypes
    <3> QED BY <2>1, <3>1 DEF NoJob
  <2> QED BY <1>6, <1>7, <2>1, <2>2, <2>3 DEF Unlisted, Listing, Listed
<1>14. CASE EnqueueRead
  <2>1. /\ UNCHANGED <<stitchRow, live, failures>> /\ job.pc = "enqueue"
        /\ index' = IF stitchRow.state \in Listed THEN index \cup {stitchRow.state} ELSE index
    BY <1>14 DEF EnqueueRead, Job
  <2>2. job'.pc = (IF stitchRow.state = "none" THEN "list" ELSE "none")
        /\ (job'.purge = job.purge \/ job'.pc = "none")
    <3>1. PICK next : next = (IF stitchRow.state = "none" THEN "list" ELSE "none") /\ Job("enqueue", next)
      BY <1>14 DEF EnqueueRead
    <3>2. next \in JobSteps
      BY <3>1 DEF JobSteps
    <3> QED BY <1>1, <3>1, <3>2, JobMoves
  <2>3. live # "trashed"
    BY <2>1 DEF CopyInv, Jobs, Deleting
  <2> QED BY <1>5, <1>6, <1>7, <2>1, <2>2, <2>3 DEF Unlisted, Listing, Listed
<1>15. CASE EnqueueIndex \/ EnqueueInsert
  <2>1. /\ job.pc \in {"list", "insert"} /\ UNCHANGED <<live, failures>> /\ stitchRow.state = "none"
        /\ live # "trashed"
    BY <1>4, <1>15 DEF EnqueueIndex, EnqueueInsert, Job, Unlisted, CopyInv, Jobs, Deleting
  <2>2. CASE EnqueueIndex
    <3>1. job'.pc = "insert" /\ "pending" \in index' /\ UNCHANGED stitchRow
      <4>1. Job("list", "insert") /\ "insert" \in JobSteps
        BY <2>2 DEF EnqueueIndex, JobSteps
      <4> QED BY <1>1, <2>2, <4>1, JobMoves DEF EnqueueIndex
    <3> QED BY <1>6, <2>1, <3>1 DEF Unlisted, Listing, Listed
  <2>3. CASE EnqueueInsert
    <3>1. job.pc = "insert" /\ job'.pc = "none" /\ "pending" \in index' /\ stitchRow'.state = "pending"
      <4>1. Job("insert", "none") /\ "none" \in JobSteps
        BY <2>3 DEF EnqueueInsert, JobSteps
      <4>2. job.pc = "insert" /\ job'.pc = "none"
        BY <1>1, <4>1, JobMoves
      <4> QED BY <1>4, <2>1, <2>3, <4>2 DEF EnqueueInsert, Unlisted
    <3> QED BY <1>6, <2>1, <3>1 DEF Unlisted, Listing, Listed
  <2> QED BY <1>15, <2>2, <2>3
<1> QED BY <1>8, <1>9, <1>10, <1>11, <1>12, <1>13, <1>14, <1>15 DEF JobStep

LEMMA WaitNextInv == ASSUME CopyInv, WaitInv, [ConsolidationNext]_consolidationVars PROVE WaitInv'
<1>1. CASE Serve \/ UNCHANGED consolidationVars
  <2>1. UNCHANGED <<live, version, stitchRow, index, worker, job, failures, raced, lost, shared, torn>>
    BY <1>1 DEF Serve, HandleContent, GetFileManifest, GetStitchedObjectKey, CacheManifest, Stream,
       Sent, CacheExpires, Store, consolidationVars, stitched, served, copyHistory
  <2> QED BY <2>1 DEF WaitInv, Unlisted, AloneWithIt, WaitsAt, Listing, NothingFailed, Busy
<1> QED BY <1>1, SweepWaits, DeathWaits, JobWaits DEF ConsolidationNext

LEMMA WaitInvariance == ConsolidationSpec => [](CopyInv /\ WaitInv)
  BY CopyInitInv, WaitInitInv, CopyNextInv, WaitNextInv, PTL DEF ConsolidationSpec

LEMMA StillListed == CopyInv /\ WaitInv => WaitingIsListed
<1> SUFFICES ASSUME CopyInv, WaitInv, Quiet, ~raced, ~torn, shared => failures = 0,
                    stitchRow.state \in Listed
             PROVE  index # {}
  BY DEF WaitingIsListed
<1>1. CASE ~shared
  BY <1>1 DEF WaitInv, AloneWithIt, Listing, Quiet
<1>2. CASE failures = 0
  <2>1. NothingFailed /\ \A w \in Workers : worker[w].pc = "idle"
    BY <1>2 DEF WaitInv, Quiet, Busy
  <2> QED BY <2>1 DEF NothingFailed, Listed, Owning, Marking
<1> QED BY <1>1, <1>2

\* Once workers and jobs are at rest a file that waits for its consolidated copy
\* is in the work index, so that a sweep finds it (ClaimForStitch, MarkFailed,
\* Enqueue), but for a death inside indexSet, a sweep during a commit, or a
\* failure after two workers were at work at once.
THEOREM WaitingStaysListed == ConsolidationSpec => []WaitingIsListed
<1> QED BY StillListed, WaitInvariance, PTL
=============================================================================
