------------------------------ MODULE AuditChain ------------------------------
(***************************************************************************)
(* identity/audit_log.py: the hash-chained file that every layer of the    *)
(* cognitive core appends to.  append reads the last line and later writes *)
(* its own; nothing holds a lock in between, and the threads that run      *)
(* cycles share one log.  A hash is a number no other entry has.           *)
(***************************************************************************)
EXTENDS Optional, Naturals, Sequences, FiniteSets

CONSTANTS
  Writer,        \* the threads that append
  MaxDrafts      \* bound: entries ever drafted

ASSUME DraftAssumption == MaxDrafts \in Nat

Genesis == 0

VARIABLES
  chain,         \* the readable lines of the file
  torn,          \* the file ends in a part of a line
  drafting,      \* the entry a thread has built and not written
  drafts,        \* history: entries drafted, the source of hashes
  overtaken      \* history: drafts another line was written ahead of

auditVars == <<chain, torn, drafting, drafts, overtaken>>

AuditEntry == [seq : 0 .. MaxDrafts, prev : 0 .. MaxDrafts, hash : 1 .. MaxDrafts]
ASSUME NoEntryAssumption == None \notin AuditEntry

AuditTypeOK ==
  /\ chain \in Seq(AuditEntry) /\ torn \in BOOLEAN
  /\ drafting \in [Writer -> Maybe(AuditEntry)]
  /\ drafts \in 0 .. MaxDrafts /\ overtaken \subseteq 1 .. MaxDrafts

AuditInit ==
  /\ chain = <<>> /\ torn = FALSE
  /\ drafting = [w \in Writer |-> None]
  /\ drafts = 0 /\ overtaken = {}

LastEntry == IF chain = <<>> THEN None ELSE chain[Len(chain)]

\* Mutant of Successor: the sequence number is taken over and not counted up.
SameSeq(last, hash) ==
  [seq |-> IF last = None THEN 0 ELSE last.seq,
   prev |-> IF last = None THEN Genesis ELSE last.hash, hash |-> hash]

Successor(last, hash) ==
  [seq |-> IF last = None THEN 0 ELSE last.seq + 1,
   prev |-> IF last = None THEN Genesis ELSE last.hash, hash |-> hash]

\* append, up to the signature.  A torn line raises while the file is read.
Draft(w) ==
  /\ drafting[w] = None /\ ~torn /\ drafts < MaxDrafts
  /\ drafts' = drafts + 1
  /\ drafting' = [drafting EXCEPT ![w] = Successor(LastEntry, drafts + 1)]
  /\ UNCHANGED <<chain, torn, overtaken>>

\* append, the write
WriteLine(w) ==
  /\ drafting[w] # None
  /\ chain' = Append(chain, drafting[w])
  /\ drafting' = [drafting EXCEPT ![w] = None]
  /\ overtaken' = overtaken \cup {drafting[v].hash : v \in {u \in Writer \ {w} : drafting[u] # None}}
  /\ UNCHANGED <<torn, drafts>>

\* The process dies, possibly inside the write of one thread; what is cut off
\* is more than the line's end
AuditCrash ==
  /\ \E w \in Writer : drafting[w] # None
  /\ torn' \in BOOLEAN
  /\ drafting' = [w \in Writer |-> None]
  /\ UNCHANGED <<chain, drafts, overtaken>>

AuditNext ==
  \/ \E w \in Writer : Draft(w) \/ WriteLine(w)
  \/ AuditCrash

AuditSpec == AuditInit /\ [][AuditNext]_auditVars

\* The checks verify_chain makes at one line
Verified(i) ==
  /\ chain[i].seq = i - 1
  /\ chain[i].prev = (IF i = 1 THEN Genesis ELSE chain[i - 1].hash)

\* Where verify_chain stops: 0 when it returns True, the number of the line it
\* names when it raises AuditChainCorruptedError, and the line after the last
\* readable one when json.loads raises on the torn part behind it.
VerifyStopsAt ==
  IF \E i \in DOMAIN chain : ~Verified(i)
  THEN CHOOSE i \in DOMAIN chain : ~Verified(i) /\ \A j \in 1 .. i - 1 : Verified(j)
  ELSE IF torn THEN Len(chain) + 1 ELSE 0

\* verify_chain names the first line whose append was overtaken; when none was,
\* it returns True, or reads up to the torn part a crash left, where it fails as
\* every later append does.  No line written without interference is ever
\* blamed, a crash or not (append reading the last line before it writes).
VerifyBlamesTheOvertaken ==
  VerifyStopsAt =
    IF \E i \in DOMAIN chain : chain[i].hash \in overtaken
    THEN CHOOSE i \in DOMAIN chain :
           /\ chain[i].hash \in overtaken
           /\ \A j \in 1 .. i - 1 : chain[j].hash \notin overtaken
    ELSE IF torn THEN Len(chain) + 1 ELSE 0
===============================================================================
