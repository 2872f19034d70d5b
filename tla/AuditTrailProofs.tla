--------------------------- MODULE AuditTrailProofs ---------------------------
(***************************************************************************)
(* Proofs about the audit trail, for any set of operations, any division   *)
(* of them into sections and any number of crashes; then about the         *)
(* evidence taken from it: the sidecars of backups, and what tells that a  *)
(* line was edited.                                                        *)
(***************************************************************************)
EXTENDS AuditRefinement, AuditEvidence, SequenceTheorems, FiniteSetTheorems, TLAPS

-------------------------------------------------------------------------------
(* Lemmas about digests. *)

(* A digest of lines is a digest. *)
LEMMA DigestType ==
    ASSUME NEW lines \in Seq(Line)
    PROVE  DigestOf(lines) \in Digest
<1>1. \A i \in 1..Len(lines) : EntryHash(i - 1, IdOf(lines[i])) \in Nat \X LineId
    <2> SUFFICES ASSUME NEW i \in 1..Len(lines)
                 PROVE  EntryHash(i - 1, IdOf(lines[i])) \in Nat \X LineId
        OBVIOUS
    <2>1. lines[i] \in Line
        OBVIOUS
    <2>2. IdOf(lines[i]) \in LineId
        BY <2>1 DEF Line, IdOf, LineId
    <2> QED
        BY <2>2 DEF EntryHash
<1>2. DigestOf(lines) = [i \in 1..Len(lines) |-> EntryHash(i - 1, IdOf(lines[i]))]
    BY DEF DigestOf
<1>3. Len(lines) \in Nat
    OBVIOUS
<1> QED
    BY <1>1, <1>2, <1>3, IsASeq DEF Digest

(* Digesting one more line is absorbing it. *)
LEMMA DigestAppend ==
    ASSUME NEW lines \in Seq(Line), NEW l \in Line
    PROVE  DigestOf(Append(lines, l)) = Absorb(DigestOf(lines), Len(lines), IdOf(l))
<1> DEFINE more == Append(lines, l)
           left == DigestOf(more)
           right == Absorb(DigestOf(lines), Len(lines), IdOf(l))
<1>1. more \in Seq(Line) /\ Len(more) = Len(lines) + 1 /\ Len(lines) \in Nat
    OBVIOUS
<1>2. DigestOf(lines) \in Digest /\ Len(DigestOf(lines)) = Len(lines)
    BY DigestType, <1>1 DEF DigestOf
<1>3. left \in Digest /\ Len(left) = Len(lines) + 1
    <2>1. more \in Seq(Line) /\ Len(more) \in Nat
        BY <1>1
    <2> HIDE DEF more
    <2>2. left \in Digest
        BY <2>1, DigestType
    <2>3. Len(left) = Len(more)
        BY <2>1 DEF DigestOf
    <2> QED
        BY <2>2, <2>3, <1>1
<1>4. <<Len(lines), IdOf(l)>> \in Nat \X LineId
    BY <1>1 DEF Line, IdOf, LineId
<1>5. right \in Digest /\ Len(right) = Len(lines) + 1
    BY <1>2, <1>4 DEF Absorb, EntryHash, Digest
<1>6. ASSUME NEW i \in 1..(Len(lines) + 1)
      PROVE  left[i] = right[i]
    <2>1. left[i] = <<i - 1, IdOf(more[i])>>
        BY <1>1 DEF DigestOf, EntryHash
    <2>2. CASE i = Len(lines) + 1
        <3>1. more[i] = l
            BY <2>2
        <3>2. right[i] = <<Len(lines), IdOf(l)>>
            BY <2>2, <1>2, <1>4 DEF Absorb, EntryHash, Digest
        <3> QED
            BY <2>1, <2>2, <3>1, <3>2, <1>1
    <2>3. CASE i \in 1..Len(lines)
        <3>1. more[i] = lines[i]
            BY <2>3
        <3>2. right[i] = DigestOf(lines)[i]
            BY <2>3, <1>2, <1>4 DEF Absorb, EntryHash, Digest
        <3>3. DigestOf(lines)[i] = <<i - 1, IdOf(lines[i])>>
            BY <2>3 DEF DigestOf, EntryHash
        <3> QED
            BY <2>1, <3>1, <3>2, <3>3
    <2> QED
        BY <2>2, <2>3, <1>1
<1> QED
    <2> HIDE DEF left, right
    <2>1. left \in Seq(Nat \X LineId) /\ right \in Seq(Nat \X LineId) /\ Len(left) = Len(right)
        BY <1>3, <1>5 DEF Digest
    <2>2. \A i \in 1..Len(left) : left[i] = right[i]
        BY <1>6, <1>3
    <2>3. left = right
        BY <2>1, <2>2, SeqEqual
    <2> QED
        BY <2>3 DEF left, right

(* The beginnings of a log are those of its extension by a line. *)
LEMMA BeginningOfAppend ==
    ASSUME NEW lines \in Seq(Line), NEW l \in Line, NEW n \in 0..Len(lines)
    PROVE  SubSeq(Append(lines, l), 1, n) = SubSeq(lines, 1, n)
<1>1. Append(lines, l) = lines \o <<l>>
    BY AppendIsConcat
<1>2. <<l>> \in Seq(Line) /\ n \in 0..Len(lines)
    OBVIOUS
<1> QED
    BY <1>1, <1>2, SubSeqOfConcat1

-------------------------------------------------------------------------------
(* What file faults make of the lines. *)

(* The line of an operation is a line. *)
LEMMA LineOfIsLine ==
    ASSUME TypeOK, NEW o \in Ops
    PROVE  /\ LineOf(o) \in Line /\ LineOf(o).ev = EventOf(o)
           /\ LineOf(o).seq = seqRead[o] /\ seqRead[o] \in Nat
<1>1. EventOf(o) \in Event
    BY DEF TypeOK, EventOf, Event
<1>2. seqRead[o] \in Nat /\ prevRead[o] \in Digest
    BY DEF TypeOK
<1> QED
    BY <1>1, <1>2 DEF LineOf, Line, Cut

(* A crash in the middle of its write leaves a line of the operation. *)
LEMMA TornLineIsLine ==
    ASSUME TypeOK, NEW o \in Ops, NEW t, TornLine(o, t)
    PROVE  \E l \in Line :
                /\ log' = Append(log, l) /\ l.ev = EventOf(o) /\ l.seq <= seqRead[o]
                /\ t = "open" => l.cut = 1
<1>0. seqRead[o] \in Nat
    BY DEF TypeOK
<1>1. CASE t = "ragged" /\ log' = Append(log, LineOf(o))
    <2>1. LineOf(o).seq <= seqRead[o] /\ t # "open"
        BY <1>0, <1>1, LineOfIsLine
    <2> QED
        BY <1>1, <2>1, LineOfIsLine
<1>2. ASSUME NEW n \in SeqsOfCut(seqRead[o]), log' = Append(log, [LineOf(o) EXCEPT !.seq = n, !.cut = 1])
      PROVE  \E l \in Line :
                /\ log' = Append(log, l) /\ l.ev = EventOf(o) /\ l.seq <= seqRead[o]
                /\ t = "open" => l.cut = 1
    <2>1. n \in Nat /\ n <= seqRead[o]
        BY <1>0 DEF SeqsOfCut
    <2>2. PICK l : l = [LineOf(o) EXCEPT !.seq = n, !.cut = 1]
        OBVIOUS
    <2>3. l \in Line /\ l.ev = EventOf(o) /\ l.seq = n /\ l.cut = 1
        BY <2>1, <2>2, LineOfIsLine DEF LineOf, Line, Cut
    <2> QED
        BY <1>2, <2>1, <2>2, <2>3
<1> QED
    BY <1>1, <1>2 DEF TornLine

(* Continuing the last line leaves the others, and of it all but the text. *)
LEMMA ContinuedLines ==
    ASSUME log \in Seq(Line)
    PROVE  /\ Continued \in Seq(Line) /\ Len(Continued) = Len(log)
           /\ \A i \in 1..Len(log) :
                /\ i # Len(log) => Continued[i] = log[i]
                /\ i = Len(log) => Continued[i] = [log[i] EXCEPT !.cut = @ + 1]
                /\ Continued[i].ev = log[i].ev /\ Continued[i].seq = log[i].seq
                /\ Continued[i].cut \in Nat /\ Continued[i].cut >= log[i].cut
<1> DEFINE n == Len(log)
           l == [log[n] EXCEPT !.cut = @ + 1]
<1>1. n \in Nat /\ Continued = [log EXCEPT ![n] = l]
    BY DEF Continued
<1>2. \A i \in 1..n : log[i] \in Line
    OBVIOUS
<1>3. CASE n = 0
    <2>1. log = << >>
        BY <1>3, EmptySeq
    <2>2. Continued = log
        BY <1>1, <1>3, <2>1
    <2> QED
        BY <1>3, <2>2
<1>4. CASE n # 0
    <2>1. n \in 1..n
        BY <1>1, <1>4
    <2>2. log[n] \in Line
        BY <1>2, <2>1
    <2>3. l \in Line /\ l.ev = log[n].ev /\ l.seq = log[n].seq /\ l.cut = log[n].cut + 1
        BY <2>2 DEF Line, Cut
    <2> HIDE DEF l
    <2>4. Continued \in Seq(Line) /\ Len(Continued) = n
        BY <1>1, <2>1, <2>3
    <2>5. \A i \in 1..n : Continued[i] = IF i = n THEN l ELSE log[i]
        BY <1>1, <2>1
    <2>6. \A i \in 1..n : log[i].cut \in Nat
        BY <1>2 DEF Line, Cut
    <2>7. \A i \in 1..n : /\ Continued[i].ev = log[i].ev /\ Continued[i].seq = log[i].seq
                          /\ Continued[i].cut \in Nat /\ Continued[i].cut >= log[i].cut
        BY <2>3, <2>5, <2>6
    <2> QED
        BY <2>4, <2>5, <2>7 DEF l
<1> QED
    BY <1>3, <1>4

-------------------------------------------------------------------------------
(* The initial state has the right types. *)
LEMMA InitTypeOK == Init => TypeOK
<1> USE DEF TypeOK, Places, Tails
<1>0. Genesis \in Digest
    BY EmptySeq DEF Genesis, Digest
<1>1. <<>> \in Seq(Line)
    BY EmptySeq
<1> QED
    <2>1. Init => log \in Seq(Line) /\ tail \in Tails /\ head \in Digest /\ size \in Nat
        BY <1>0, <1>1 DEF Init
    <2>2. Init => up \in BOOLEAN /\ mu \in Ops \cup {NoOp} /\ pc \in [Ops -> Places]
        BY DEF Init
    <2>3. Init => sec \in [Ops -> Nat \ {0}] /\ nth \in [Ops -> Nat \ {0}]
        BY DEF Init
    <2>4. Init => seqRead \in [Ops -> Nat] /\ prevRead \in [Ops -> Digest]
        BY <1>0 DEF Init
    <2>5. Init => mark \in [Ops -> [size : Nat, head : Digest]]
        BY <1>0 DEF Init
    <2>6. Init => crashes \in 0..MaxCrashes
        BY FaultAssumption DEF Init
    <2>7. Init => faults \in Nat
        BY DEF Init
    <2> QED
        BY <2>1, <2>2, <2>3, <2>4, <2>5, <2>6, <2>7

(* No step takes a variable out of its type. *)
LEMMA TypeStep == TypeOK /\ [Next]_vars => TypeOK'
<1> USE DEF TypeOK, Places, Tails
<1>0. Genesis \in Digest
    BY EmptySeq DEF Genesis, Digest
<1> SUFFICES ASSUME TypeOK, [Next]_vars
             PROVE  TypeOK'
    OBVIOUS
<1>1. CASE Boot
    <2>1. DigestOf(log) \in Digest /\ Len(log) \in Nat
        BY DigestType
    <2> QED
        BY <1>1, <2>1 DEF Boot, disk, locals
<1>2. ASSUME NEW o \in Ops, Enter(o)
      PROVE  TypeOK'
    BY <1>2 DEF Enter, disk, chain, locals
<1>3. ASSUME NEW o \in Ops, ReadSize(o)
      PROVE  TypeOK'
    BY <1>3, SMTT(30) DEF ReadSize, disk, chain
<1>4. Torn \in Digest
    <2>1. <<NoOp, 0, 0>> \in Event
        BY DEF Event
    <2>2. <<0, <<<<NoOp, 0, 0>>, 1>>>> \in Nat \X LineId
        BY <2>1 DEF LineId, Cut
    <2> QED
        BY <2>2 DEF Torn, Digest
<1>5. ASSUME NEW o \in Ops
      PROVE  HeadsSeenBy(o) \subseteq Digest
    BY <1>4 DEF HeadsSeenBy
<1>6. ASSUME NEW o \in Ops, ReadPrev(o)
      PROVE  TypeOK'
    BY <1>5, <1>6 DEF ReadPrev, disk, chain
<1>7. ASSUME NEW o \in Ops
      PROVE  LineOf(o) \in Line /\ EventOf(o) \in Event
    BY LineOfIsLine DEF EventOf, Event
<1>8. ASSUME NEW o \in Ops, AppendLog(o)
      PROVE  TypeOK'
    <2>1. log' \in Seq(Line) /\ tail' \in Tails
        <3>1. Append(log, LineOf(o)) \in Seq(Line)
            BY <1>7, AppendProperties
        <3>2. Continued \in Seq(Line)
            BY ContinuedLines
        <3>3. CASE WriteLine(LineOf(o))
            BY <3>1, <3>2, <3>3 DEF WriteLine
        <3>4. CASE UNCHANGED <<log, tail>>
            BY <3>4
        <3> QED
            BY <1>8, <3>3, <3>4 DEF AppendLog
    <2>2. faults' \in Nat
        BY <1>8 DEF AppendLog
    <2> QED
        BY <1>8, <2>1, <2>2 DEF AppendLog, chain, locals
<1>9. ASSUME NEW o \in Ops, LoadChain(o)
      PROVE  TypeOK'
    BY <1>5, <1>9, SMTT(30) DEF LoadChain, disk, chain
<1>10. ASSUME NEW o \in Ops, StoreChain(o)
       PROVE  TypeOK'
    <2>1. Absorb(mark[o].head, mark[o].size, <<EventOf(o), 0>>) \in Digest
        <3>1. <<mark[o].size, <<EventOf(o), 0>>>> \in Nat \X LineId
            BY <1>7 DEF LineId, Cut
        <3> QED
            BY <3>1, AppendProperties DEF Absorb, EntryHash, Digest
    <2>2. head' \in Digest
        BY <1>4, <1>10, <2>1 DEF StoreChain
    <2>3. size' \in Nat
        BY <1>10 DEF StoreChain
    <2>4. /\ mu' \in Ops \cup {NoOp} /\ pc' \in [Ops -> Places]
          /\ sec' \in [Ops -> Nat \ {0}] /\ nth' \in [Ops -> Nat \ {0}]
        <3>1. CASE nth[o] < SectionOf(o).records
            <4>1. pc' \in [Ops -> Places] /\ mu' = mu /\ sec' = sec
                BY <1>10, <3>1 DEF StoreChain, Advance
            <4>2. nth' = [nth EXCEPT ![o] = nth[o] + 1] /\ nth[o] + 1 \in Nat \ {0}
                BY <1>10, <3>1 DEF StoreChain, Advance
            <4> QED
                BY <4>1, <4>2
        <3>2. CASE ~(nth[o] < SectionOf(o).records)
            <4>1. mu' \in Ops \cup {NoOp} /\ pc' \in [Ops -> Places]
                BY <1>10, <3>2 DEF StoreChain, Advance
            <4>2. \/ sec' = sec /\ nth' = nth
                  \/ sec' = [sec EXCEPT ![o] = sec[o] + 1] /\ nth' = [nth EXCEPT ![o] = 1]
                BY <1>10, <3>2 DEF StoreChain, Advance
            <4>3. sec' \in [Ops -> Nat \ {0}]
                <5>1. sec[o] + 1 \in Nat \ {0}
                    OBVIOUS
                <5> QED
                    BY <4>2, <5>1
            <4>4. nth' \in [Ops -> Nat \ {0}]
                <5>1. 1 \in Nat \ {0}
                    OBVIOUS
                <5> QED
                    BY <4>2, <5>1
            <4> QED
                BY <4>1, <4>3, <4>4
        <3> QED
            BY <3>1, <3>2
    <2> QED
        BY <1>10, <2>2, <2>3, <2>4 DEF StoreChain, disk
<1>11. ASSUME Die
       PROVE  /\ head' \in Digest /\ size' \in Nat /\ up' \in BOOLEAN
              /\ mu' \in Ops \cup {NoOp} /\ pc' \in [Ops -> Places]
              /\ UNCHANGED locals /\ crashes' \in 0..MaxCrashes
    <2>1. crashes' \in 0..MaxCrashes
        BY <1>11, FaultAssumption DEF Die
    <2> QED
        BY <1>0, <1>11, <2>1 DEF Die
<1>12. CASE Crash
    BY <1>11, <1>12 DEF Crash, disk, locals
<1>13. ASSUME NEW o \in Ops, TearingCrash(o)
       PROVE  TypeOK'
    <2>1. log' \in Seq(Line)
        <3>1. CASE TornLine(o, tail')
            <4>1. PICK l \in Line : log' = Append(log, l)
                BY <3>1, TornLineIsLine
            <4> QED
                BY <4>1, AppendProperties
        <3>2. CASE log' = Continued
            BY <3>2, ContinuedLines
        <3> QED
            BY <1>13, <3>1, <3>2 DEF TearingCrash
    <2>2. tail' \in Tails
        BY <1>13 DEF TearingCrash
    <2>3. faults' \in Nat
        BY <1>13 DEF TearingCrash
    <2> QED
        BY <1>11, <1>13, <2>1, <2>2, <2>3 DEF TearingCrash, locals
<1>14. CASE UNCHANGED vars
    BY <1>14 DEF vars
<1> QED
    BY <1>1, <1>2, <1>3, <1>6, <1>8, <1>9, <1>10, <1>12, <1>13, <1>14
       DEF Next, Step

(* Every variable keeps its type in every behaviour of the service. *)
THEOREM TypeCorrect == Spec => []TypeOK
BY InitTypeOK, TypeStep, PTL DEF Spec

-------------------------------------------------------------------------------
(* Every step keeps the log, appends one line to it, or continues its last. *)
LEMMA LogSteps ==
    ASSUME TypeOK, [Next]_vars
    PROVE  \/ log' = log
           \/ \E o \in Ops, l \in Line :
                /\ pc[o] = "append" /\ log' = Append(log, l)
                /\ l.ev = EventOf(o) /\ l.seq <= seqRead[o]
                /\ tail' = "open" => l.cut = 1
           \/ tail = "open" /\ log' = Continued
<1>1. CASE Boot \/ Crash \/ UNCHANGED vars
    BY <1>1 DEF Boot, Crash, disk, vars
<1>2. ASSUME NEW o \in Ops, Enter(o) \/ ReadSize(o) \/ ReadPrev(o) \/ LoadChain(o) \/ StoreChain(o)
      PROVE  log' = log
    BY <1>2 DEF Enter, ReadSize, ReadPrev, LoadChain, StoreChain, disk
<1>3. ASSUME NEW o \in Ops, AppendLog(o)
      PROVE  \/ log' = log
             \/ /\ pc[o] = "append" /\ log' = Append(log, LineOf(o)) /\ tail' = "clean"
             \/ tail = "open" /\ log' = Continued
    BY <1>3 DEF AppendLog, WriteLine
<1>4. ASSUME NEW o \in Ops
      PROVE  LineOf(o) \in Line /\ LineOf(o).ev = EventOf(o) /\ LineOf(o).seq <= seqRead[o]
    BY LineOfIsLine
<1>5. ASSUME NEW o \in Ops, TearingCrash(o)
      PROVE  \/ \E l \in Line :
                    /\ log' = Append(log, l) /\ l.ev = EventOf(o) /\ l.seq <= seqRead[o]
                    /\ tail' = "open" => l.cut = 1
             \/ tail = "open" /\ log' = Continued
    BY <1>5, TornLineIsLine DEF TearingCrash
<1>6. \A o \in Ops : TearingCrash(o) => pc[o] = "append"
    BY DEF TearingCrash
<1>7. ASSUME NEW o \in Ops, AppendLog(o) \/ TearingCrash(o)
      PROVE  \/ log' = log
             \/ \E l \in Line :
                    /\ pc[o] = "append" /\ log' = Append(log, l)
                    /\ l.ev = EventOf(o) /\ l.seq <= seqRead[o]
                    /\ tail' = "open" => l.cut = 1
             \/ tail = "open" /\ log' = Continued
    BY <1>3, <1>4, <1>5, <1>6, <1>7
<1> QED
    BY <1>1, <1>2, <1>7 DEF Next, Step

(* Where no line is open the log only grows. *)
LEMMA LogGrows ==
    ASSUME TypeOK, [Next]_vars, tail # "open"
    PROVE  log' = log \/ \E l \in Line : log' = Append(log, l)
BY LogSteps

(* An open line is a cut one. *)
OpenIsCut == tail = "open" => Len(log) > 0 /\ log[Len(log)].cut > 0

LEMMA OpenIsCutStep ==
    ASSUME TypeOK, OpenIsCut, [Next]_vars
    PROVE  OpenIsCut'
<1>1. log \in Seq(Line) /\ Len(log) \in Nat
    BY DEF TypeOK
<1>2. SUFFICES ASSUME tail' = "open"
               PROVE  Len(log') > 0 /\ log'[Len(log')].cut > 0
    BY DEF OpenIsCut
<1>3. \/ UNCHANGED <<log, tail>>
      \/ \E o \in Ops : TearingCrash(o)
    BY <1>2 DEF Next, Step, Boot, Enter, ReadSize, ReadPrev, AppendLog, WriteLine, LoadChain,
                StoreChain, Crash, disk, vars
<1>4. CASE UNCHANGED <<log, tail>>
    BY <1>2, <1>4 DEF OpenIsCut
<1>5. ASSUME NEW o \in Ops, TearingCrash(o)
      PROVE  Len(log') > 0 /\ log'[Len(log')].cut > 0
    <2>1. CASE TornLine(o, tail')
        <3>1. PICK l \in Line : log' = Append(log, l) /\ l.cut = 1
            BY <1>2, <2>1, TornLineIsLine
        <3>2. Len(log') = Len(log) + 1 /\ log'[Len(log) + 1] = l
            BY <1>1, <3>1, AppendProperties
        <3> QED
            BY <1>1, <3>1, <3>2
    <2>2. CASE tail = "open" /\ log' = Continued
        <3>1. Len(log) > 0 /\ log[Len(log)].cut > 0 /\ log[Len(log)] \in Line
            BY <1>1, <2>2 DEF OpenIsCut
        <3>2. Len(log) \in 1..Len(log)
            BY <1>1, <3>1
        <3>3. Len(log') = Len(log) /\ log'[Len(log)].cut \in Nat /\ log'[Len(log)].cut >= log[Len(log)].cut
            BY <1>1, <2>2, <3>2, ContinuedLines
        <3> QED
            BY <3>1, <3>3 DEF Line, Cut
    <2> QED
        BY <1>5, <2>1, <2>2 DEF TearingCrash
<1> QED
    BY <1>3, <1>4, <1>5

(* A line that was written whole is never changed or dropped: in every      *)
(* behaviour, with unlocked operations, opens that fail, torn lines,        *)
(* crashes and restarts.  A cut line changes only while it is the last and  *)
(* ends inside a string, by the brace of the record that continues it.      *)
THEOREM LogIsAppendOnly == Spec => AppendOnly
<1>1. TypeOK /\ OpenIsCut /\ [Next]_vars => [KeepsLines]_vars
    <2> SUFFICES ASSUME TypeOK, OpenIsCut, [Next]_vars
                 PROVE  KeepsLines
        OBVIOUS
    <2>0. log \in Seq(Line) /\ Len(log) \in Nat
        BY DEF TypeOK
    <2>1. CASE log' = log
        BY <2>0, <2>1 DEF KeepsLines, KeepsLine
    <2>2. ASSUME NEW l \in Line, log' = Append(log, l)
          PROVE  KeepsLines
        BY <2>0, <2>2, AppendProperties DEF KeepsLines, KeepsLine
    <2>3. CASE tail = "open" /\ log' = Continued
        <3>1. Len(log') = Len(log)
            BY <2>0, <2>3, ContinuedLines
        <3>2. ASSUME NEW i \in 1..Len(log), i # Len(log)
              PROVE  log'[i] = log[i]
            BY <2>0, <2>3, <3>2, ContinuedLines
        <3>3. ASSUME NEW i \in 1..Len(log), i = Len(log)
              PROVE  Unclosed(i) /\ log'[i] = [log[i] EXCEPT !.cut = @ + 1]
            <4>1. Unclosed(i)
                BY <2>3, <3>3 DEF OpenIsCut, Unclosed
            <4>2. log'[i] = [log[i] EXCEPT !.cut = @ + 1]
                BY <2>0, <2>3, <3>3, ContinuedLines
            <4> QED
                BY <4>1, <4>2
        <3>4. \A i \in 1..Len(log) : KeepsLine(i)
            BY <3>2, <3>3 DEF KeepsLine
        <3> QED
            BY <2>0, <3>1, <3>4 DEF KeepsLines
    <2> QED
        BY <2>1, <2>2, <2>3, LogSteps
<1>2. Init => OpenIsCut
    BY DEF Init, OpenIsCut
<1>3. TypeOK /\ OpenIsCut /\ [Next]_vars => OpenIsCut'
    BY OpenIsCutStep
<1> QED
    BY <1>1, <1>2, <1>3, TypeCorrect, PTL DEF Spec, AppendOnly

-------------------------------------------------------------------------------
(* seq is a length the log had when it was read, and the log only grows. *)
SeqInv ==
    /\ SeqNeverAhead
    /\ \A o \in Ops : pc[o] \in {"prev", "append"} => seqRead[o] <= Len(log)

(* No line claims a position beyond its own, whoever records without mu_. *)
THEOREM SeqNeverAheadHolds == Spec => []SeqNeverAhead
<1>1. Init => SeqInv
    BY DEF Init, SeqInv, SeqNeverAhead
<1>2. TypeOK /\ SeqInv /\ [Next]_vars => SeqInv'
    <2> SUFFICES ASSUME TypeOK, SeqInv, [Next]_vars
                 PROVE  SeqInv'
        OBVIOUS
    <2>1. log \in Seq(Line) /\ Len(log) \in Nat /\ seqRead \in [Ops -> Nat]
        BY DEF TypeOK
    <2>2. Len(log') \in Nat /\ Len(log) <= Len(log')
        BY <2>1, LogSteps, AppendProperties, ContinuedLines
    <2>3. ASSUME NEW o \in Ops, pc'[o] \in {"prev", "append"}
          PROVE  seqRead'[o] <= Len(log')
        <3>1. \/ pc[o] \in {"prev", "append"} /\ seqRead'[o] = seqRead[o]
              \/ seqRead'[o] = Len(log)
            <4>1. CASE Boot
                BY <2>3, <4>1 DEF Boot, locals
            <4>2. ASSUME NEW q \in Ops, Enter(q) \/ AppendLog(q) \/ LoadChain(q)
                  PROVE  pc[o] \in {"prev", "append"} /\ seqRead'[o] = seqRead[o]
                BY <2>3, <4>2 DEF TypeOK, Enter, AppendLog, LoadChain, locals
            <4>3. ASSUME NEW q \in Ops, ReadSize(q)
                  PROVE  \/ pc[o] \in {"prev", "append"} /\ seqRead'[o] = seqRead[o]
                         \/ seqRead'[o] = Len(log)
                BY <2>3, <4>3 DEF TypeOK, ReadSize
            <4>4. ASSUME NEW q \in Ops, ReadPrev(q)
                  PROVE  pc[o] \in {"prev", "append"} /\ seqRead'[o] = seqRead[o]
                BY <2>3, <4>4 DEF TypeOK, ReadPrev
            <4>5. ASSUME NEW q \in Ops, StoreChain(q)
                  PROVE  pc[o] \in {"prev", "append"} /\ seqRead'[o] = seqRead[o]
                <5>1. pc' = [pc EXCEPT ![q] = pc'[q]] /\ pc'[q] \in {"size", "ready", "done"}
                    BY <4>5 DEF TypeOK, StoreChain, Advance
                <5> QED
                    BY <2>3, <4>5, <5>1 DEF TypeOK, StoreChain
            <4>6. CASE Die
                BY <2>3, <4>6 DEF TypeOK, Die, locals
            <4>7. CASE UNCHANGED vars
                BY <2>3, <4>7 DEF vars
            <4> QED
                BY <4>1, <4>2, <4>3, <4>4, <4>5, <4>6, <4>7
                   DEF Next, Step, Crash, TearingCrash
        <3> QED
            BY <2>1, <2>2, <3>1 DEF SeqInv
    <2>4. ASSUME NEW i \in 1..Len(log')
          PROVE  log'[i].seq < i
        <3>1. CASE log' = log
            BY <2>4, <3>1 DEF SeqInv, SeqNeverAhead
        <3>2. ASSUME NEW o \in Ops, NEW l \in Line,
                     pc[o] = "append", log' = Append(log, l), l.seq <= seqRead[o]
              PROVE  log'[i].seq < i
            <4>1. l.seq \in Nat /\ seqRead[o] \in Nat /\ seqRead[o] <= Len(log)
                BY <2>1, <3>2 DEF SeqInv, Line
            <4>2. i \in 1..(Len(log) + 1)
                BY <2>1, <2>4, <3>2, AppendProperties
            <4>3. CASE i = Len(log) + 1
                BY <2>1, <3>2, <4>1, <4>3, AppendProperties
            <4>4. CASE i \in 1..Len(log)
                BY <2>1, <3>2, <4>4, AppendProperties DEF SeqInv, SeqNeverAhead
            <4> QED
                BY <2>1, <4>2, <4>3, <4>4
        <3>3. CASE log' = Continued
            <4>1. i \in 1..Len(log) /\ log'[i].seq = log[i].seq
                BY <2>1, <2>4, <3>3, ContinuedLines
            <4> QED
                BY <4>1 DEF SeqInv, SeqNeverAhead
        <3> QED
            BY <3>1, <3>2, <3>3, LogSteps
    <2> QED
        BY <2>3, <2>4 DEF SeqInv, SeqNeverAhead
<1>3. SeqInv => SeqNeverAhead
    BY DEF SeqInv
<1> QED
    BY <1>1, <1>2, <1>3, TypeCorrect, PTL DEF Spec

-------------------------------------------------------------------------------
(***************************************************************************)
(* The chain in memory against the log on disk, as long as every record    *)
(* was made under mu_ and the file did not fail.  Linked is not inductive: *)
(* a record is linked because the recorder owns mu_ and what it read is    *)
(* still what the log and the chain hold when it appends.                  *)
(***************************************************************************)
ChainInv ==
    /\ tail = "clean"
    /\ \A o \in Ops : pc[o] \in Recording => mu = o /\ up
    /\ \A o \in Ops : pc[o] \in {"prev", "append"} => seqRead[o] = Len(log)
    /\ \A o \in Ops : pc[o] = "append" => prevRead[o] = DigestOf(log)
    /\ (up /\ \A o \in Ops : pc[o] \notin {"load", "store"})
            => head = DigestOf(log) /\ size = Len(log)
    /\ \A o \in Ops : pc[o] \in {"load", "store"} =>
            /\ DigestOf(log) = Absorb(head, size, <<EventOf(o), 0>>)
            /\ size + 1 = Len(log)
    /\ \A o \in Ops : pc[o] = "store" => mark[o] = [size |-> size, head |-> head]
    /\ Linked

IInv == TypeOK /\ (Guarded => ChainInv)

(* An unguarded section that started stays started. *)
LEMMA GuardedBefore ==
    ASSUME TypeOK, [Next]_vars, Guarded'
    PROVE  Guarded
<1>1. ASSUME NEW q \in Ops
      PROVE  /\ sec'[q] \in Nat /\ sec'[q] >= sec[q]
             /\ pc[q] # "ready" => pc'[q] # "ready" \/ sec'[q] > sec[q]
    <2>1. ASSUME NEW o \in Ops, Enter(o) \/ ReadSize(o) \/ ReadPrev(o) \/ AppendLog(o) \/ LoadChain(o)
          PROVE  sec' = sec /\ (pc'[q] # "ready" \/ pc'[q] = pc[q])
        BY <2>1 DEF TypeOK, Enter, ReadSize, ReadPrev, AppendLog, LoadChain, locals
    <2>2. ASSUME NEW o \in Ops, StoreChain(o)
          PROVE  \/ sec'[q] = sec[q] + 1
                 \/ sec'[q] = sec[q] /\ (pc'[q] # "ready" \/ pc'[q] = pc[q])
        <3>1. \/ sec' = sec /\ pc' = [pc EXCEPT ![o] = "size"]
              \/ sec' = [sec EXCEPT ![o] = sec[o] + 1] /\ pc' = [pc EXCEPT ![o] = "ready"]
              \/ sec' = sec /\ pc' = [pc EXCEPT ![o] = "done"]
            BY <2>2 DEF StoreChain, Advance
        <3>2. CASE q = o
            BY <3>1, <3>2 DEF TypeOK
        <3>3. CASE q # o
            BY <3>1, <3>3 DEF TypeOK
        <3> QED
            BY <3>2, <3>3
    <2>3. ASSUME Die
          PROVE  sec' = sec /\ (pc'[q] = "dead" \/ pc'[q] = pc[q])
        BY <2>3 DEF TypeOK, Die, locals
    <2>4. ASSUME Boot \/ UNCHANGED vars
          PROVE  sec' = sec /\ pc' = pc
        BY <2>4 DEF Boot, locals, vars
    <2>5. sec[q] \in Nat
        BY DEF TypeOK
    <2>6. \/ sec'[q] = sec[q] + 1
          \/ sec'[q] = sec[q] /\ (pc'[q] # "ready" \/ pc'[q] = pc[q])
        BY <2>1, <2>2, <2>3, <2>4 DEF Next, Step, Crash, TearingCrash
    <2> QED
        BY <2>5, <2>6
<1>2a. faults = 0
    <2>1. faults' = 0 /\ faults \in Nat
        BY DEF Guarded, TypeOK
    <2>2. ASSUME NEW o \in Ops
          PROVE  AppendLog(o) \/ TearingCrash(o) => faults' = faults \/ faults' = faults + 1
        BY DEF AppendLog, TearingCrash
    <2>3. ASSUME NEW o \in Ops, StoreChain(o)
          PROVE  faults' = faults
        BY <2>3 DEF StoreChain, disk
    <2>4. faults' = faults \/ faults' = faults + 1
        BY <2>2, <2>3
           DEF Next, Step, Boot, Enter, ReadSize, ReadPrev, LoadChain, Crash, disk, vars
    <2> QED
        BY <2>1, <2>4
<1>2. SUFFICES ASSUME UnguardedStarted
               PROVE  UnguardedStarted'
    BY <1>2a DEF Guarded
<1>3a. PICK o \in Ops : \E s \in 1..sec[o] :
        ~Sections[o][s].locked /\ (s < sec[o] \/ pc[o] # "ready")
    BY <1>2 DEF UnguardedStarted
<1>3. PICK s \in 1..sec[o] : ~Sections[o][s].locked /\ (s < sec[o] \/ pc[o] # "ready")
    BY <1>3a
<1>4. sec[o] \in Nat /\ s \in 1..sec'[o] /\ (s < sec'[o] \/ pc'[o] # "ready")
    BY <1>1, <1>3 DEF TypeOK
<1> QED
    BY <1>3, <1>4 DEF UnguardedStarted

(* The step that appends the line keeps the links. *)
LEMMA AppendKeepsLinks ==
    ASSUME NEW l \in Line, log \in Seq(Line), Linked,
           l.seq = Len(log), l.prev = DigestOf(log), log' = Append(log, l)
    PROVE  Linked'
<1>1. Len(log) \in Nat /\ Len(log') = Len(log) + 1
    BY AppendProperties
<1> SUFFICES ASSUME NEW i \in 1..Len(log')
             PROVE  /\ log'[i].seq = i - 1
                    /\ log'[i].prev = DigestOf(SubSeq(log', 1, i - 1))
    BY DEF Linked, LinkedAt
<1>2. i - 1 \in 0..Len(log)
    BY <1>1
<1>3. SubSeq(log', 1, i - 1) = SubSeq(log, 1, i - 1)
    BY <1>2, BeginningOfAppend
<1>4. CASE i \in 1..Len(log)
    <2>1. log'[i] = log[i]
        BY <1>4, AppendProperties
    <2> QED
        BY <1>3, <1>4, <2>1 DEF Linked, LinkedAt
<1>5. CASE i = Len(log) + 1
    <2>1. log'[i] = l
        BY <1>5, AppendProperties
    <2>2. SubSeq(log, 1, Len(log)) = log
        BY SubSeqFull, log \in Seq(Line)
    <2>3. i - 1 = Len(log)
        BY <1>1, <1>5
    <2>4. SubSeq(log', 1, i - 1) = log
        BY <1>3, <2>2, <2>3
    <2> QED
        BY <2>1, <2>3, <2>4
<1> QED
    BY <1>1, <1>4, <1>5

(* One step of the service keeps the invariant. *)
LEMMA ChainInvStep ==
    ASSUME TypeOK, Guarded, Guarded', ChainInv, [Next]_vars
    PROVE  ChainInv'
<1>1. /\ log \in Seq(Line) /\ Len(log) \in Nat /\ size \in Nat
      /\ pc \in [Ops -> Places] /\ mark \in [Ops -> [size : Nat, head : Digest]]
      /\ seqRead \in [Ops -> Nat] /\ prevRead \in [Ops -> Digest]
      /\ sec \in [Ops -> Nat \ {0}] /\ nth \in [Ops -> Nat \ {0}]
    BY DEF TypeOK
<1>2. ASSUME NEW o \in Ops, pc[o] \in Recording
      PROVE  mu = o /\ up /\ \A q \in Ops \ {o} : pc[q] \notin Recording
    BY <1>2 DEF ChainInv
<1>3. ASSUME NEW o \in Ops, pc[o] \in Recording
      PROVE  ~Racing(o) /\ HeadsSeenBy(o) = {head}
    BY <1>2, <1>3 DEF Racing, HeadsSeenBy, Recording
<1>4. CASE Boot
    <2>1. \A o \in Ops : pc[o] \notin Recording
        BY <1>2, <1>4 DEF Boot
    <2> QED
        BY <1>4, <2>1 DEF Boot, ChainInv, Recording, disk, locals, Linked, LinkedAt, EventOf
<1>5. ASSUME NEW o \in Ops, Enter(o)
      PROVE  ChainInv'
    <2>1. /\ UNCHANGED <<log, tail, head, size, up, sec, nth, seqRead, prevRead, mark>>
          /\ up /\ pc[o] = "ready" /\ pc' = [pc EXCEPT ![o] = "size"]
        BY <1>5 DEF Enter, disk, chain, locals
    <2>2. sec[o] \in 1..sec'[o] /\ pc'[o] # "ready"
        BY <1>1, <2>1
    <2>3. Locked(o)
        BY <2>1, <2>2 DEF Guarded, UnguardedStarted, Locked, SectionOf
    <2>4. mu = NoOp /\ mu' = o
        BY <1>5, <2>3 DEF Enter
    <2>5. \A q \in Ops : pc[q] \notin Recording
        BY <1>2, <2>4, NoOpAssumption
    <2> QED
        BY <1>1, <2>1, <2>4, <2>5 DEF ChainInv, Recording, Linked, LinkedAt, EventOf
<1>6. ASSUME NEW o \in Ops, ReadSize(o)
      PROVE  ChainInv'
    <2>1. /\ UNCHANGED <<log, tail, head, size, up, mu, sec, nth, prevRead, mark>>
          /\ pc[o] = "size" /\ pc' = [pc EXCEPT ![o] = "prev"]
          /\ seqRead' = [seqRead EXCEPT ![o] = Len(log)]
        BY <1>6 DEF ReadSize, disk, chain
    <2>2. mu = o /\ up /\ \A q \in Ops \ {o} : pc[q] \notin Recording
        BY <1>2, <2>1 DEF Recording
    <2> QED
        BY <1>1, <2>1, <2>2 DEF ChainInv, Recording, Linked, LinkedAt, EventOf
<1>7. ASSUME NEW o \in Ops, ReadPrev(o)
      PROVE  ChainInv'
    <2>1. pc[o] \in Recording
        BY <1>7 DEF ReadPrev, Recording
    <2>2. /\ UNCHANGED <<log, tail, head, size, up, mu, sec, nth, seqRead, mark>>
          /\ pc[o] = "prev" /\ pc' = [pc EXCEPT ![o] = "append"]
          /\ prevRead' = [prevRead EXCEPT ![o] = head]
        BY <1>3, <1>7, <2>1 DEF ReadPrev, disk, chain
    <2>3. mu = o /\ up /\ \A q \in Ops \ {o} : pc[q] \notin Recording
        BY <1>2, <2>1
    <2>4. head = DigestOf(log)
        BY <2>2, <2>3 DEF ChainInv, Recording
    <2> QED
        BY <1>1, <2>2, <2>3, <2>4 DEF ChainInv, Recording, Linked, LinkedAt, EventOf
<1>8. ASSUME NEW o \in Ops, AppendLog(o)
      PROVE  ChainInv'
    <2>1. pc[o] \in Recording /\ pc[o] = "append"
        BY <1>8 DEF AppendLog, Recording
    <2>2. mu = o /\ up /\ \A q \in Ops \ {o} : pc[q] \notin Recording
        BY <1>2, <2>1
    <2>3. /\ UNCHANGED <<head, size, up, mu, sec, nth, seqRead, prevRead, mark>>
          /\ pc' = [pc EXCEPT ![o] = "load"]
          /\ log' = Append(log, LineOf(o)) /\ tail' = "clean"
        <3>1. tail = "clean" /\ faults = 0 /\ faults' = 0
            BY DEF Guarded, ChainInv
        <3>2. WriteLine(LineOf(o))
            BY <1>8, <3>1 DEF AppendLog
        <3> QED
            BY <1>8, <3>1, <3>2 DEF AppendLog, WriteLine, chain, locals
    <2>4. LineOf(o) \in Line
        BY LineOfIsLine
    <2>5. head = DigestOf(log) /\ size = Len(log)
        BY <2>1, <2>2 DEF ChainInv, Recording
    <2>6. LineOf(o).seq = Len(log) /\ LineOf(o).prev = DigestOf(log)
        BY <2>1 DEF ChainInv, LineOf
    <2>7. Linked'
        BY <1>1, <2>3, <2>4, <2>6, AppendKeepsLinks DEF ChainInv
    <2>8. EventOf(o)' = EventOf(o) /\ IdOf(LineOf(o)) = <<EventOf(o), 0>>
        BY <2>3 DEF EventOf, IdOf, LineOf
    <2>9. DigestOf(log') = Absorb(head', size', <<EventOf(o)', 0>>)
        BY <1>1, <2>3, <2>4, <2>5, <2>8, DigestAppend
    <2>10. size' + 1 = Len(log')
        BY <1>1, <2>3, <2>4, <2>5, AppendProperties
    <2>11. \A q \in Ops : pc'[q] = (IF q = o THEN "load" ELSE pc[q])
        BY <1>1, <2>3
    <2> QED
        <3>1. \A q \in Ops : pc'[q] \in Recording => q = o /\ pc'[q] = "load"
            BY <2>2, <2>11 DEF Recording
        <3>2. pc'[o] = "load" /\ mu' = o /\ up'
            BY <2>2, <2>3, <2>11
        <3> QED
            BY <2>3, <2>7, <2>9, <2>10, <3>1, <3>2 DEF ChainInv, Recording
<1>9. ASSUME NEW o \in Ops, LoadChain(o)
      PROVE  ChainInv'
    <2>1. pc[o] \in Recording
        BY <1>9 DEF LoadChain, Recording
    <2>2. /\ UNCHANGED <<log, tail, head, size, up, mu, sec, nth, seqRead, prevRead>>
          /\ pc[o] = "load" /\ pc' = [pc EXCEPT ![o] = "store"]
          /\ mark' = [mark EXCEPT ![o] = [size |-> size, head |-> head]]
        BY <1>3, <1>9, <2>1 DEF LoadChain, disk, chain
    <2>3. mu = o /\ up /\ \A q \in Ops \ {o} : pc[q] \notin Recording
        BY <1>2, <2>1
    <2> QED
        <3>1. \A q \in Ops : pc'[q] = IF q = o THEN "store" ELSE pc[q]
            BY <1>1, <2>2
        <3>2. mark'[o] = [size |-> size', head |-> head']
            BY <1>1, <2>2
        <3>3. \A q \in Ops : pc'[q] = "store" => q = o
            BY <2>3, <3>1 DEF Recording
        <3>4. /\ DigestOf(log') = Absorb(head', size', <<EventOf(o)', 0>>)
              /\ size' + 1 = Len(log')
            BY <2>2 DEF ChainInv, EventOf
        <3>5. Linked' /\ tail' = "clean" /\ mu' = o /\ up'
            BY <2>2, <2>3 DEF ChainInv, Linked, LinkedAt
        <3>6. \A q \in Ops : pc'[q] \in Recording => q = o /\ pc'[q] = "store"
            BY <2>3, <3>1 DEF Recording
        <3> QED
            BY <3>1, <3>2, <3>4, <3>5, <3>6 DEF ChainInv, Recording
<1>10. ASSUME NEW o \in Ops, StoreChain(o)
       PROVE  ChainInv'
    <2>1. pc[o] \in Recording /\ pc[o] = "store"
        BY <1>10 DEF StoreChain, Recording
    <2>2. mu = o /\ up /\ \A q \in Ops \ {o} : pc[q] \notin Recording
        BY <1>2, <2>1
    <2>3. mark[o] = [size |-> size, head |-> head]
        BY <2>1 DEF ChainInv
    <2>4. head' = Absorb(mark[o].head, mark[o].size, <<EventOf(o), 0>>) /\ size' = size + 1
        BY <1>3, <1>10, <2>1 DEF StoreChain
    <2>5. head' = DigestOf(log) /\ size' = Len(log)
        <3>1. DigestOf(log) = Absorb(head, size, <<EventOf(o), 0>>) /\ size + 1 = Len(log)
            BY <2>1 DEF ChainInv
        <3>2. mark[o].head = head /\ mark[o].size = size
            BY <2>3
        <3> QED
            BY <2>4, <3>1, <3>2
    <2>6. UNCHANGED <<log, tail, up, seqRead, prevRead, mark>>
        BY <1>10 DEF StoreChain, disk
    <2>7. \/ pc' = [pc EXCEPT ![o] = "size"] /\ mu' = mu
          \/ pc' = [pc EXCEPT ![o] = "ready"]
          \/ pc' = [pc EXCEPT ![o] = "done"]
        <3>1. CASE nth[o] < SectionOf(o).records
            BY <1>10, <3>1 DEF StoreChain, Advance
        <3>2. CASE ~(nth[o] < SectionOf(o).records)
            BY <1>10, <3>2 DEF StoreChain, Advance
        <3> QED
            BY <3>1, <3>2
    <2>8. \A q \in Ops \ {o} : pc'[q] = pc[q] /\ pc'[q] \notin Recording
        BY <1>1, <2>2, <2>7
    <2>9. pc'[o] \in {"size", "ready", "done"} /\ (pc'[o] = "size" => mu' = o)
        BY <1>1, <2>2, <2>7
    <2>10. \A q \in Ops : pc'[q] \in Recording => q = o /\ pc'[q] = "size"
        BY <2>8, <2>9 DEF Recording
    <2>11. DigestOf(log)' = DigestOf(log) /\ (Linked <=> Linked')
        BY <2>6 DEF Linked, LinkedAt
    <2> QED
        BY <2>2, <2>5, <2>6, <2>9, <2>10, <2>11 DEF ChainInv, Recording
<1>11. CASE Crash
    <2>1. \A o \in Ops : pc'[o] \notin Recording
        BY <1>1, <1>11 DEF Crash, Die, Started, Recording
    <2> QED
        BY <1>11, <2>1 DEF Crash, Die, ChainInv, Recording, disk, Linked, LinkedAt
<1>12. ASSUME NEW o \in Ops
       PROVE  ~TearingCrash(o)
    BY DEF TearingCrash, Guarded
<1>13. CASE UNCHANGED vars
    BY <1>13 DEF vars, ChainInv, Linked, LinkedAt, EventOf
<1> QED
    BY <1>4, <1>5, <1>6, <1>7, <1>8, <1>9, <1>10, <1>11, <1>12, <1>13
       DEF Next, Step

(* The invariant holds in every behaviour. *)
LEMMA ChainInvariant == Spec => []IInv
<1>1. Init => IInv
    <2>1. Init => TypeOK
        BY InitTypeOK
    <2>2. Init => ChainInv
        BY DEF Init, ChainInv, Recording, Linked
    <2> QED
        BY <2>1, <2>2 DEF IInv
<1>2. TypeOK /\ TypeOK' /\ IInv /\ [Next]_vars => IInv'
    BY GuardedBefore, ChainInvStep DEF IInv
<1> QED
    BY <1>1, <1>2, TypeCorrect, PTL DEF Spec

(* As long as all records were made under mu_ and the file did not fail,    *)
(* every line carries its position and the digest of the lines before it.   *)
THEOREM LinksHold == Spec => []LinkedWhileGuarded
<1>1. IInv => LinkedWhileGuarded
    BY DEF IInv, ChainInv, LinkedWhileGuarded
<1> QED
    BY <1>1, ChainInvariant, PTL

(* ... and the head in memory is the digest of the log whenever no record   *)
(* is between its two appends.                                              *)
THEOREM HeadHolds == Spec => []HeadMatchesLog
<1>1. IInv => HeadMatchesLog
    BY DEF IInv, ChainInv, HeadMatchesLog
<1> QED
    BY <1>1, ChainInvariant, PTL

-------------------------------------------------------------------------------
(***************************************************************************)
(* Every record an operation got past is in the log once, but for those    *)
(* the file faults took.  The bound on their number is not inductive: a    *)
(* torn line takes its record only later, when another continues it, so it *)
(* is counted as long as the file does not end in a newline.               *)
(***************************************************************************)
TimesOf(e) == TimesInLog(e[1], e[2], e[3])
InPlace == \A e \in Recordable : Cardinality(PlacesOf(e)) \in TimesOf(e) \cup {0}
Pending == IF tail = "clean" THEN 0 ELSE 1
OnceInv ==
    /\ InPlace
    /\ IsFiniteSet(Lost) /\ Cardinality(Lost) + Pending <= faults

LEMMA OneMorePlace ==
    ASSUME log \in Seq(Line), NEW l \in Line, log' = Append(log, l), NEW e
    PROVE  /\ l.ev # e => PlacesOf(e)' = PlacesOf(e)
           /\ l.ev = e /\ Cardinality(PlacesOf(e)) = 0 => Cardinality(PlacesOf(e)') = 1
<1>1. /\ Len(log) \in Nat /\ Len(log') = Len(log) + 1 /\ log'[Len(log) + 1] = l
      /\ \A i \in 1..Len(log) : log'[i] = log[i]
    BY AppendProperties
<1>2. l.ev # e => PlacesOf(e)' = PlacesOf(e)
    <2> SUFFICES ASSUME l.ev # e, NEW i PROVE i \in PlacesOf(e)' <=> i \in PlacesOf(e)
        OBVIOUS
    <2>1. i \in 1..Len(log') <=> i \in 1..Len(log) \/ i = Len(log) + 1
        BY <1>1
    <2> QED BY <1>1, <2>1 DEF PlacesOf
<1>3. ASSUME Cardinality(PlacesOf(e)) = 0, l.ev = e PROVE Cardinality(PlacesOf(e)') = 1
    <2>1. IsFiniteSet(PlacesOf(e))
        <3>1. IsFiniteSet(1..Len(log)) /\ PlacesOf(e) \in SUBSET (1..Len(log))
            BY <1>1, FS_Interval DEF PlacesOf
        <3> QED BY <3>1, FS_Subset
    <2>2. PlacesOf(e) = {}
        BY <1>3, <2>1, FS_EmptySet
    <2>3. PlacesOf(e)' = {Len(log) + 1}
        <3> SUFFICES ASSUME NEW i PROVE i \in PlacesOf(e)' <=> i = Len(log) + 1
            OBVIOUS
        <3>1. i \in 1..Len(log') <=> i \in 1..Len(log) \/ i = Len(log) + 1
            BY <1>1
        <3>2. i \in 1..Len(log) => log[i].ev # e
            BY <2>2 DEF PlacesOf
        <3> QED BY <1>1, <1>3, <3>1, <3>2 DEF PlacesOf
    <2> QED BY <2>3, FS_Singleton
<1> QED BY <1>2, <1>3

(* A continued line names the record it named. *)
LEMMA SamePlaces ==
    ASSUME log \in Seq(Line), log' = log \/ log' = Continued, NEW e
    PROVE  PlacesOf(e)' = PlacesOf(e)
<1>1. Len(log') = Len(log) /\ \A i \in 1..Len(log) : log'[i].ev = log[i].ev
    BY ContinuedLines
<1> QED BY <1>1 DEF PlacesOf

(* Which records are in place and which are lost, when all but those of X   *)
(* stay where they are and nothing new is asked of them.                    *)
LEMMA RecordsKept ==
    ASSUME InPlace, NEW X,
           \A e \in Recordable \ X : PlacesOf(e)' = PlacesOf(e) /\ TimesOf(e) \subseteq TimesOf(e)',
           \A e \in Recordable \cap X : Cardinality(PlacesOf(e)') \in TimesOf(e)' \cup {0}
    PROVE  InPlace' /\ Lost' \subseteq Lost \cup (Recordable \cap X \cap Lost')
<1>1. InPlace'
    BY DEF InPlace
<1>2. ASSUME NEW e \in Recordable \ X, TimesOf(e)' = {1}
      PROVE  TimesOf(e) = {1}
    <2>1. TimesOf(e) # {}
        BY DEF TimesOf, TimesInLog
    <2> QED BY <1>2, <2>1
<1>3. ASSUME NEW e \in Lost', e \notin X
      PROVE  e \in Lost
    <2>1. e \in Recordable /\ TimesOf(e)' = {1} /\ PlacesOf(e)' = {}
        BY <1>3 DEF Lost, TimesOf
    <2>2. TimesOf(e) = {1} /\ PlacesOf(e) = {}
        BY <1>2, <1>3, <2>1
    <2> QED BY <2>1, <2>2 DEF Lost, TimesOf
<1>4. Lost' \subseteq Recordable
    BY DEF Lost
<1> QED BY <1>1, <1>3, <1>4

(* At most one record is lost in a step that can lose only one. *)
LEMMA OneMoreLost ==
    ASSUME IsFiniteSet(Lost), NEW e, Lost' \subseteq Lost \cup {e}
    PROVE  /\ IsFiniteSet(Lost') /\ Cardinality(Lost) \in Nat /\ Cardinality(Lost') \in Nat
           /\ Cardinality(Lost') <= Cardinality(Lost) + 1
           /\ (e \notin Lost' => Cardinality(Lost') <= Cardinality(Lost))
<1>1. Cardinality(Lost) \in Nat
    BY FS_CardinalityType
<1>2. IsFiniteSet(Lost \cup {e}) /\ Cardinality(Lost \cup {e}) \in {Cardinality(Lost), Cardinality(Lost) + 1}
    BY FS_AddElement
<1>3. /\ IsFiniteSet(Lost') /\ Cardinality(Lost') <= Cardinality(Lost \cup {e})
    BY <1>2, FS_Subset
<1>4. Cardinality(Lost') \in Nat
    BY <1>3, FS_CardinalityType
<1>5. e \notin Lost' => Cardinality(Lost') <= Cardinality(Lost)
    <2> SUFFICES ASSUME e \notin Lost' PROVE Cardinality(Lost') <= Cardinality(Lost)
        OBVIOUS
    <2>1. Lost' \subseteq Lost
        OBVIOUS
    <2> QED BY <2>1, FS_Subset
<1> QED BY <1>1, <1>2, <1>3, <1>4, <1>5

(* A step that leaves the places of all records as they are, and asks for   *)
(* no more than before, keeps the invariant when it keeps the file's end.   *)
LEMMA QuietStep ==
    ASSUME TypeOK, OnceInv, NEW k \in Nat, faults' = faults + k, Pending' <= Pending + k,
           \A e \in Recordable : PlacesOf(e)' = PlacesOf(e) /\ TimesOf(e) \subseteq TimesOf(e)'
    PROVE  OnceInv'
<1>1. InPlace' /\ Lost' \subseteq Lost
    <2>1. InPlace' /\ Lost' \subseteq Lost \cup (Recordable \cap {} \cap Lost')
        BY RecordsKept DEF OnceInv
    <2> QED BY <2>1
<1>2. IsFiniteSet(Lost') /\ Cardinality(Lost') <= Cardinality(Lost)
    BY <1>1, FS_Subset DEF OnceInv
<1>3. Cardinality(Lost) \in Nat /\ Cardinality(Lost') \in Nat
    BY <1>2, FS_CardinalityType DEF OnceInv
<1>4. faults \in Nat /\ Pending \in Nat /\ Pending' \in Nat
    BY DEF TypeOK, Pending
<1> QED BY <1>1, <1>2, <1>3, <1>4 DEF OnceInv

LEMMA RecordedOnceStep ==
    ASSUME TypeOK, OnceInv, [Next]_vars
    PROVE  OnceInv'
<1>1. /\ pc \in [Ops -> Places] /\ sec \in [Ops -> Nat \ {0}] /\ nth \in [Ops -> Nat \ {0}]
      /\ log \in Seq(Line) /\ faults \in Nat
    BY DEF TypeOK
<1>2. ASSUME NEW q \in Ops, pc'[q] = pc[q], sec'[q] = sec[q], nth'[q] = nth[q], NEW s, NEW n
      PROVE  TimesInLog(q, s, n)' = TimesInLog(q, s, n)
    BY <1>2 DEF TimesInLog
<1>2a. ASSUME NEW e \in Recordable
       PROVE  \E q \in Ops : \E s \in 1..Len(Sections[q]) : \E n \in 1..Sections[q][s].records :
                    e = <<q, s, n>>
    BY DEF Recordable
<1>2b. ASSUME UNCHANGED disk,
              \A q \in Ops : \A s \in 1..Len(Sections[q]) : \A n \in 1..Sections[q][s].records :
                   TimesInLog(q, s, n) \subseteq TimesInLog(q, s, n)'
       PROVE  OnceInv'
    <2>1. \A e \in Recordable : PlacesOf(e)' = PlacesOf(e) /\ TimesOf(e) \subseteq TimesOf(e)'
        <3> SUFFICES ASSUME NEW e \in Recordable
                     PROVE  PlacesOf(e)' = PlacesOf(e) /\ TimesOf(e) \subseteq TimesOf(e)'
            OBVIOUS
        <3>1. PlacesOf(e)' = PlacesOf(e)
            BY <1>2b DEF PlacesOf, disk
        <3>2. PICK q \in Ops : \E s \in 1..Len(Sections[q]) : \E n \in 1..Sections[q][s].records :
                    e = <<q, s, n>>
            BY <1>2a
        <3>3. TimesOf(e) \subseteq TimesOf(e)'
            BY <1>2b, <3>2 DEF TimesOf
        <3> QED BY <3>1, <3>3
    <2>2. faults' = faults + 0 /\ Pending' = Pending + 0
        BY <1>1, <1>2b DEF Pending, disk
    <2>3. Pending' <= Pending + 0
        BY <2>2 DEF Pending
    <2> QED BY <2>1, <2>2, <2>3, QuietStep
<1>3. CASE Boot \/ UNCHANGED vars
    <2>1. UNCHANGED disk /\ UNCHANGED <<pc, sec, nth>>
        BY <1>3 DEF Boot, locals, vars, disk
    <2> QED BY <1>2, <1>2b, <2>1
<1>4. ASSUME NEW o \in Ops, Enter(o) \/ ReadSize(o) \/ ReadPrev(o) \/ LoadChain(o)
      PROVE  OnceInv'
    <2>1. /\ UNCHANGED disk /\ UNCHANGED <<sec, nth>> /\ \A q \in Ops : q # o => pc'[q] = pc[q]
          /\ \/ pc[o] \in {"ready", "size", "prev"} /\ pc'[o] \in {"size", "prev", "append"}
             \/ pc[o] = "load" /\ pc'[o] = "store"
        BY <1>1, <1>4 DEF Enter, ReadSize, ReadPrev, LoadChain, locals
    <2>2. ASSUME NEW s, NEW n PROVE TimesInLog(o, s, n) \subseteq TimesInLog(o, s, n)'
        BY <2>1 DEF TimesInLog
    <2> QED BY <1>2, <1>2b, <2>1, <2>2
<1>5. ASSUME NEW o \in Ops, StoreChain(o)
      PROVE  OnceInv'
    <2>1. UNCHANGED disk /\ pc[o] = "store" /\ Advance(o)
        BY <1>5 DEF StoreChain
    <2>2. \A q \in Ops : q # o => pc'[q] = pc[q] /\ sec'[q] = sec[q] /\ nth'[q] = nth[q]
        BY <1>1, <2>1 DEF Advance
    <2>3. ASSUME NEW s \in 1..Len(Sections[o]), NEW n \in 1..Sections[o][s].records
          PROVE  TimesInLog(o, s, n) \subseteq TimesInLog(o, s, n)'
        <3>1. /\ sec[o] \in Nat /\ nth[o] \in Nat /\ s \in Nat /\ n \in Nat
              /\ s <= Len(Sections[o]) /\ n <= Sections[o][s].records
              /\ Len(Sections[o]) \in Nat /\ Sections[o][s].records \in Nat
            <4>1. Sections[o] \in Seq(Section)
                BY SectionsAssumption
            <4>2. Sections[o][s] \in Section
                BY <4>1
            <4> QED BY <1>1, <4>1, <4>2 DEF Section
        <3>2. CASE nth[o] < SectionOf(o).records
            <4>1. pc'[o] = "size" /\ sec'[o] = sec[o] /\ nth'[o] = nth[o] + 1
                BY <1>1, <2>1, <3>2 DEF Advance
            <4> QED BY <2>1, <3>1, <4>1 DEF TimesInLog
        <3>3. CASE ~(nth[o] < SectionOf(o).records) /\ sec[o] < Len(Sections[o])
            <4>1. pc'[o] = "ready" /\ sec'[o] = sec[o] + 1 /\ nth'[o] = 1
                BY <1>1, <2>1, <3>3 DEF Advance
            <4>2. s = sec[o] => n <= nth[o]
                BY <3>1, <3>3 DEF SectionOf
            <4> QED BY <2>1, <3>1, <4>1, <4>2 DEF TimesInLog
        <3>4. CASE ~(nth[o] < SectionOf(o).records) /\ ~(sec[o] < Len(Sections[o]))
            <4>1. pc'[o] = "done" /\ sec'[o] = sec[o] /\ nth'[o] = nth[o]
                BY <1>1, <2>1, <3>4 DEF Advance
            <4> QED BY <2>1, <3>1, <4>1 DEF TimesInLog
        <3> QED BY <3>2, <3>3, <3>4
    <2> QED BY <1>2, <1>2b, <2>1, <2>2, <2>3
<1>6. ASSUME NEW o \in Ops, AppendLog(o)
      PROVE  OnceInv'
    <2>1. /\ UNCHANGED <<sec, nth>> /\ pc[o] = "append" /\ pc'[o] = "load"
          /\ \A q \in Ops : q # o => pc'[q] = pc[q]
        BY <1>1, <1>6 DEF AppendLog, locals
    <2>2. PICK own : own = EventOf(o)
        OBVIOUS
    <2>3. own = <<o, sec[o], nth[o]>> /\ TimesOf(own) = {0} /\ TimesOf(own)' = {1}
        BY <1>1, <2>1, <2>2 DEF EventOf, TimesOf, TimesInLog
    <2>4. ASSUME NEW e \in Recordable \ {own}
          PROVE  TimesOf(e)' = TimesOf(e)
        <3>1. PICK q \in Ops : \E s, n : e = <<q, s, n>>
            BY <1>2a
        <3> QED BY <2>1, <2>3, <2>4, <3>1 DEF TimesOf, TimesInLog
    <2>5. own \in Recordable => Cardinality(PlacesOf(own)) = 0
        BY <2>3 DEF OnceInv, InPlace
    <2>6. CASE tail = "clean" /\ WriteLine(LineOf(o)) /\ UNCHANGED faults
        <3>1. PICK l \in Line : log' = Append(log, l) /\ l.ev = own
            BY <2>2, <2>6, LineOfIsLine DEF WriteLine
        <3>2. \A e \in Recordable \ {own} : PlacesOf(e)' = PlacesOf(e) /\ TimesOf(e) \subseteq TimesOf(e)'
            BY <1>1, <2>4, <3>1, OneMorePlace
        <3>3. own \in Recordable => Cardinality(PlacesOf(own)') = 1 /\ PlacesOf(own)' # {}
            <4>1. own \in Recordable => Cardinality(PlacesOf(own)') = 1
                BY <1>1, <2>5, <3>1, OneMorePlace
            <4> QED BY <4>1, FS_EmptySet
        <3>4. \A e \in Recordable \cap {own} : Cardinality(PlacesOf(e)') \in TimesOf(e)' \cup {0}
            BY <2>3, <3>3
        <3>5. InPlace' /\ Lost' \subseteq Lost \cup (Recordable \cap {own} \cap Lost')
            BY <3>2, <3>4, RecordsKept DEF OnceInv
        <3>6. own \notin Lost'
            BY <3>3 DEF Lost
        <3>7. Lost' \subseteq Lost \cup {own}
            BY <3>5
        <3>8. /\ IsFiniteSet(Lost') /\ Cardinality(Lost') <= Cardinality(Lost)
              /\ Cardinality(Lost) \in Nat /\ Cardinality(Lost') \in Nat
            BY <3>6, <3>7, OneMoreLost DEF OnceInv
        <3>9. Pending' = 0 /\ Pending = 0 /\ faults' = faults
            BY <2>6 DEF WriteLine, Pending
        <3> QED BY <1>1, <3>5, <3>8, <3>9 DEF OnceInv
    <2>7. CASE \/ tail # "clean" /\ WriteLine(LineOf(o)) /\ UNCHANGED faults
               \/ faults' = faults + 1 /\ UNCHANGED <<log, tail>>
        <3>1. \A e : PlacesOf(e)' = PlacesOf(e)
            <4>1. log' = log \/ log' = Continued
                BY <2>7 DEF WriteLine
            <4> QED BY <1>1, <4>1, SamePlaces
        <3>2. \A e \in Recordable \ {own} : PlacesOf(e)' = PlacesOf(e) /\ TimesOf(e) \subseteq TimesOf(e)'
            BY <2>4, <3>1
        <3>3. \A e \in Recordable \cap {own} : Cardinality(PlacesOf(e)') \in TimesOf(e)' \cup {0}
            BY <2>5, <3>1
        <3>4. InPlace' /\ Lost' \subseteq Lost \cup {own}
            <4>1. InPlace' /\ Lost' \subseteq Lost \cup (Recordable \cap {own} \cap Lost')
                BY <3>2, <3>3, RecordsKept DEF OnceInv
            <4> QED BY <4>1
        <3>5. /\ IsFiniteSet(Lost') /\ Cardinality(Lost') <= Cardinality(Lost) + 1
              /\ Cardinality(Lost) \in Nat /\ Cardinality(Lost') \in Nat
            BY <3>4, OneMoreLost DEF OnceInv
        <3>6. \/ Pending' = 0 /\ Pending = 1 /\ faults' = faults
              \/ Pending' = Pending /\ faults' = faults + 1 /\ Pending \in Nat
            BY <2>7 DEF WriteLine, Pending
        <3> QED BY <1>1, <3>4, <3>5, <3>6 DEF OnceInv
    <2> QED BY <1>6, <2>6, <2>7 DEF AppendLog
<1>7. ASSUME Die
      PROVE  \A q \in Ops : \A s, n : TimesInLog(q, s, n) \subseteq TimesInLog(q, s, n)'
    <2>1. /\ UNCHANGED <<sec, nth>>
          /\ pc' = [o \in Ops |-> IF Started(o) THEN "dead" ELSE pc[o]]
        BY <1>7 DEF Die, locals
    <2>2. ASSUME NEW q \in Ops, NEW s, NEW n
          PROVE  TimesInLog(q, s, n) \subseteq TimesInLog(q, s, n)'
        <3>1. \/ pc'[q] = pc[q]
              \/ pc'[q] = "dead" /\ pc[q] \notin {"done", "dead"}
            BY <2>1 DEF Started, Recording
        <3> QED BY <2>1, <3>1 DEF TimesInLog
    <2> QED BY <2>2
<1>8. CASE Crash
    BY <1>2b, <1>7, <1>8 DEF Crash
<1>9. ASSUME NEW o \in Ops, TearingCrash(o)
      PROVE  OnceInv'
    <2>1. /\ Die /\ pc[o] = "append" /\ faults' = faults + 1
          /\ \/ tail = "clean" /\ TornLine(o, tail')
             \/ tail = "open" /\ log' = Continued
        BY <1>9 DEF TearingCrash
    <2>2. ASSUME NEW e \in Recordable
          PROVE  TimesOf(e) \subseteq TimesOf(e)'
        <3>1. PICK q \in Ops : \E s, n : e = <<q, s, n>>
            BY <1>2a
        <3> QED BY <1>7, <2>1, <3>1 DEF TimesOf
    <2>3. CASE log' = Continued /\ tail = "open"
        <3>1. \A e \in Recordable : PlacesOf(e)' = PlacesOf(e) /\ TimesOf(e) \subseteq TimesOf(e)'
            BY <1>1, <2>2, <2>3, SamePlaces
        <3>2. Pending' <= Pending + 1
            BY DEF Pending
        <3> QED BY <2>1, <3>1, <3>2, QuietStep
    <2>4. CASE tail = "clean" /\ TornLine(o, tail')
        <3>1. PICK own : own = EventOf(o)
            OBVIOUS
        <3>2. PICK l \in Line : log' = Append(log, l) /\ l.ev = own
            BY <2>4, <3>1, TornLineIsLine
        <3>3. own = <<o, sec[o], nth[o]>> /\ TimesOf(own) = {0} /\ TimesOf(own)' = {0, 1}
            <4>1. UNCHANGED <<sec, nth>> /\ pc'[o] = "dead"
                BY <1>1, <2>1 DEF Die, Started, Recording, locals
            <4> QED BY <1>1, <2>1, <3>1, <4>1 DEF EventOf, TimesOf, TimesInLog
        <3>4. \A e \in Recordable \ {own} : PlacesOf(e)' = PlacesOf(e) /\ TimesOf(e) \subseteq TimesOf(e)'
            BY <1>1, <2>2, <3>2, OneMorePlace
        <3>5. own \in Recordable => Cardinality(PlacesOf(own)') = 1
            <4>1. own \in Recordable => Cardinality(PlacesOf(own)) = 0
                BY <3>3 DEF OnceInv, InPlace
            <4> QED BY <1>1, <3>2, <4>1, OneMorePlace
        <3>6. \A e \in Recordable \cap {own} : Cardinality(PlacesOf(e)') \in TimesOf(e)' \cup {0}
            BY <3>3, <3>5
        <3>7. own \notin Lost'
            BY <3>3 DEF Lost, TimesOf
        <3>8. InPlace' /\ Lost' \subseteq Lost \cup {own}
            <4>1. InPlace' /\ Lost' \subseteq Lost \cup (Recordable \cap {own} \cap Lost')
                BY <3>4, <3>6, RecordsKept DEF OnceInv
            <4> QED BY <4>1
        <3>9. /\ IsFiniteSet(Lost') /\ Cardinality(Lost') <= Cardinality(Lost)
              /\ Cardinality(Lost) \in Nat /\ Cardinality(Lost') \in Nat
            BY <3>7, <3>8, OneMoreLost DEF OnceInv
        <3>10. Pending = 0 /\ Pending' \in {0, 1}
            BY <2>4 DEF Pending
        <3> QED BY <1>1, <2>1, <3>8, <3>9, <3>10 DEF OnceInv
    <2> QED BY <2>1, <2>3, <2>4
<1> QED BY <1>3, <1>4, <1>5, <1>6, <1>8, <1>9 DEF Next, Step

(* No record is doubled, whoever locks mu_ and wherever the process dies, and *)
(* of those an operation got past no more are missing than lines were torn or *)
(* opens failed: none without such faults (audit.cpp:13-24, store.cpp:64-71). *)
THEOREM RecordedOnceHolds == Spec => []RecordedOnce
<1>1. Init => OnceInv
    <2> SUFFICES ASSUME Init PROVE OnceInv
        OBVIOUS
    <2>1. ASSUME NEW e \in Recordable
          PROVE  PlacesOf(e) = {} /\ TimesOf(e) = {0}
        <3>1. PICK o \in Ops : \E s \in 1..Len(Sections[o]) : \E n \in 1..Sections[o][s].records :
                    e = <<o, s, n>>
            BY DEF Recordable
        <3>2. PICK s \in 1..Len(Sections[o]) : \E n \in 1..Sections[o][s].records : e = <<o, s, n>>
            BY <3>1
        <3>3. PICK n \in 1..Sections[o][s].records : e = <<o, s, n>>
            BY <3>2
        <3>4. s \in Nat \ {0} /\ n \in Nat \ {0} /\ sec[o] = 1 /\ nth[o] = 1 /\ pc[o] = "ready"
            <4>1. Sections[o] \in Seq(Section)
                BY SectionsAssumption
            <4>2. Sections[o][s] \in Section
                BY <4>1
            <4> QED BY <4>1, <4>2 DEF Init, Section
        <3>5. TimesOf(e) = {0}
            BY <3>3, <3>4 DEF TimesOf, TimesInLog
        <3>6. PlacesOf(e) = {}
            BY DEF Init, PlacesOf
        <3> QED BY <3>5, <3>6
    <2>2. InPlace
        BY <2>1, FS_EmptySet DEF InPlace
    <2>3. Lost = {}
        BY <2>1 DEF Lost, TimesOf
    <2>4. Pending = 0 /\ faults = 0
        BY DEF Init, Pending
    <2> QED BY <2>2, <2>3, <2>4, FS_EmptySet DEF OnceInv
<1>2. TypeOK /\ OnceInv /\ [Next]_vars => OnceInv'
    BY RecordedOnceStep
<1>3. TypeOK /\ OnceInv => RecordedOnce
    <2> SUFFICES ASSUME TypeOK, OnceInv PROVE RecordedOnce
        OBVIOUS
    <2>1. ASSUME NEW o \in Ops, NEW s \in 1..Len(Sections[o]), NEW n \in 1..Sections[o][s].records
          PROVE  Cardinality(PlacesOf(<<o, s, n>>)) \in TimesInLog(o, s, n) \cup {0}
        <3>1. <<o, s, n>> \in Recordable
            BY DEF Recordable
        <3> QED BY <3>1 DEF OnceInv, InPlace, TimesOf
    <2>2. Cardinality(Lost) <= faults
        <3>1. Cardinality(Lost) \in Nat /\ Pending \in Nat /\ faults \in Nat
            BY FS_CardinalityType DEF OnceInv, Pending, TypeOK
        <3> QED BY <3>1 DEF OnceInv
    <2> QED BY <2>1, <2>2 DEF RecordedOnce
<1> QED BY <1>1, <1>2, <1>3, TypeCorrect, PTL DEF Spec

-------------------------------------------------------------------------------
(* The number of the record in progress is one the section has. *)
PlaceInv ==
    \A o \in Ops : sec[o] \in 1..Len(Sections[o]) /\ nth[o] \in 1..SectionOf(o).records

LEMMA PlaceInvariant == Spec => []PlaceInv
<1>1. ASSUME NEW o \in Ops, NEW s \in 1..Len(Sections[o])
      PROVE  Sections[o][s].records \in Nat \ {0} /\ Len(Sections[o]) \in Nat
    <2>1. Sections[o] \in Seq(Section)
        BY SectionsAssumption
    <2>2. Sections[o][s] \in Section
        BY <2>1
    <2> QED
        BY <2>1, <2>2 DEF Section
<1>2. Init => PlaceInv
    <2> SUFFICES ASSUME Init, NEW o \in Ops
                 PROVE  sec[o] \in 1..Len(Sections[o]) /\ nth[o] \in 1..SectionOf(o).records
        BY DEF PlaceInv
    <2>1. sec[o] = 1 /\ nth[o] = 1
        BY DEF Init
    <2>2. Len(Sections[o]) \in Nat /\ Len(Sections[o]) > 0
        BY SectionsAssumption
    <2>3. 1 \in 1..Len(Sections[o])
        BY <2>2
    <2>4. SectionOf(o).records \in Nat \ {0}
        BY <1>1, <2>1, <2>3 DEF SectionOf
    <2> QED
        BY <2>1, <2>3, <2>4
<1>3. TypeOK /\ PlaceInv /\ [Next]_vars => PlaceInv'
    <2> SUFFICES ASSUME TypeOK, PlaceInv, [Next]_vars, NEW q \in Ops
                 PROVE  sec'[q] \in 1..Len(Sections[q]) /\ nth'[q] \in 1..SectionOf(q)'.records
        BY DEF PlaceInv
    <2>1. CASE UNCHANGED <<sec, nth>>
        BY <2>1 DEF PlaceInv, SectionOf
    <2>2. ASSUME NEW o \in Ops, StoreChain(o)
          PROVE  sec'[q] \in 1..Len(Sections[q]) /\ nth'[q] \in 1..SectionOf(q)'.records
        <3>1. /\ sec[o] \in 1..Len(Sections[o]) /\ nth[o] \in 1..SectionOf(o).records
              /\ SectionOf(o).records \in Nat \ {0} /\ Len(Sections[o]) \in Nat
            BY <1>1 DEF PlaceInv, SectionOf
        <3>2. CASE q # o
            <4>1. sec'[q] = sec[q] /\ nth'[q] = nth[q]
                <5>1. CASE nth[o] < SectionOf(o).records
                    BY <2>2, <3>2, <5>1 DEF TypeOK, StoreChain, Advance
                <5>2. CASE ~(nth[o] < SectionOf(o).records)
                    BY <2>2, <3>2, <5>2 DEF TypeOK, StoreChain, Advance
                <5> QED
                    BY <5>1, <5>2
            <4> QED
                BY <4>1 DEF PlaceInv, SectionOf
        <3>3. CASE q = o /\ nth[o] < SectionOf(o).records
            <4>1. sec' = sec /\ nth'[o] = nth[o] + 1
                BY <2>2, <3>3 DEF TypeOK, StoreChain, Advance
            <4> QED
                BY <3>1, <3>3, <4>1 DEF SectionOf
        <3>4. CASE q = o /\ ~(nth[o] < SectionOf(o).records) /\ sec[o] < Len(Sections[o])
            <4>1. sec'[o] = sec[o] + 1 /\ nth'[o] = 1
                BY <2>2, <3>4 DEF TypeOK, StoreChain, Advance
            <4>2. sec[o] + 1 \in 1..Len(Sections[o])
                BY <3>1, <3>4
            <4>3. Sections[o][sec[o] + 1].records \in Nat \ {0}
                BY <1>1, <4>2
            <4> QED
                BY <3>4, <4>1, <4>2, <4>3 DEF SectionOf
        <3>5. CASE q = o /\ ~(nth[o] < SectionOf(o).records) /\ ~(sec[o] < Len(Sections[o]))
            <4>1. sec' = sec /\ nth' = nth
                BY <2>2, <3>5 DEF TypeOK, StoreChain, Advance
            <4> QED
                BY <3>1, <3>5, <4>1 DEF SectionOf
        <3> QED
            BY <3>2, <3>3, <3>4, <3>5
    <2> QED
        BY <2>1, <2>2 DEF Next, Step, Boot, Enter, ReadSize, ReadPrev, AppendLog, LoadChain,
                          Crash, TearingCrash, Die, locals, vars
<1> QED
    BY <1>2, <1>3, TypeCorrect, PTL DEF Spec

(* A file that cannot fail has not failed. *)
LEMMA NoFault ==
    ASSUME ~MayTear, ~MayFailOpen
    PROVE  Spec => [](faults = 0)
<1>1. Init => faults = 0
    BY DEF Init
<1>2. faults = 0 /\ [Next]_vars => (faults = 0)'
    <2>1. ASSUME NEW o \in Ops, StoreChain(o)
          PROVE  faults' = faults
        BY <2>1 DEF StoreChain, disk
    <2>2. ASSUME NEW o \in Ops
          PROVE  ~TearingCrash(o) /\ (AppendLog(o) => faults' = faults)
        BY DEF TearingCrash, AppendLog
    <2> QED
        BY <2>1, <2>2 DEF Next, Step, Boot, Enter, ReadSize, ReadPrev, LoadChain, Crash, disk, vars
<1> QED
    BY <1>1, <1>2, PTL DEF Spec

(* When every section locks mu_ and the file cannot fail, the service       *)
(* implements the promise: each of its steps records one event, linked, or  *)
(* leaves the log alone.                                                    *)
THEOREM ServiceImplementsChainLog ==
    ASSUME AllLocked, ~MayTear, ~MayFailOpen
    PROVE  Spec => ImplementsChainLog
<1>1. Init => Promise!Init
    BY DEF Init, Promise!Init
<1>2. TypeOK /\ IInv /\ PlaceInv /\ faults = 0 /\ [Next]_vars => [Promise!Next]_log
    <2> SUFFICES ASSUME TypeOK, IInv, PlaceInv, faults = 0, [Next]_vars
                 PROVE  [Promise!Next]_log
        OBVIOUS
    <2>1. Guarded /\ ChainInv
        <3>1. \A o \in Ops : \A s \in 1..sec[o] : Sections[o][s].locked
            BY SMTT(30) DEF AllLocked, PlaceInv, TypeOK
        <3> QED
            BY <3>1 DEF Guarded, UnguardedStarted, IInv
    <2>2. ASSUME NEW o \in Ops, AppendLog(o)
          PROVE  Promise!Record(EventOf(o)) /\ EventOf(o) \in Recordable
        <3>1. log' = Append(log, LineOf(o))
            <4>1. WriteLine(LineOf(o)) /\ tail = "clean"
                BY <2>1, <2>2 DEF AppendLog, ChainInv
            <4> QED
                BY <4>1 DEF WriteLine
        <3>2. seqRead[o] = Len(log) /\ prevRead[o] = DigestOf(log)
            BY <2>1, <2>2 DEF AppendLog, ChainInv
        <3>3. LineOf(o) = [seq |-> Len(log), prev |-> Promise!Digested(log),
                           ev |-> EventOf(o), cut |-> 0]
            BY <3>2 DEF LineOf, DigestOf, EntryHash, IdOf, Promise!Digested
        <3>4. EventOf(o) \in Recordable
            BY DEF PlaceInv, EventOf, Recordable, SectionOf
        <3> QED
            BY <3>1, <3>3, <3>4 DEF Promise!Record
    <2>3. ASSUME NEW o \in Ops
          PROVE  ~TearingCrash(o)
        BY DEF TearingCrash
    <2>4. CASE \E o \in Ops : AppendLog(o)
        BY <2>2, <2>4 DEF Promise!Next
    <2>5. CASE UNCHANGED log
        BY <2>5
    <2> QED
        BY <2>3, <2>4, <2>5 DEF Next, Step, Boot, Enter, ReadSize, ReadPrev, LoadChain, StoreChain,
                                Crash, disk, vars
<1> QED
    BY <1>1, <1>2, TypeCorrect, ChainInvariant, PlaceInvariant, NoFault, PTL
       DEF Spec, ImplementsChainLog, Promise!Spec


-------------------------------------------------------------------------------
(* Digests of beginnings. *)
LEMMA BeginningType ==
    ASSUME NEW lines \in Seq(Line), NEW n \in 0..Len(lines)
    PROVE  /\ SubSeq(lines, 1, n) \in Seq(Line) /\ Len(SubSeq(lines, 1, n)) = n
           /\ \A i \in 1..n : SubSeq(lines, 1, n)[i] = lines[i]
BY SubSeqProperties

LEMMA DigestOfBeginning ==
    ASSUME NEW lines \in Seq(Line), NEW n \in 0..Len(lines)
    PROVE  /\ DigestOf(SubSeq(lines, 1, n)) \in Digest /\ Len(DigestOf(SubSeq(lines, 1, n))) = n
           /\ \A i \in 1..n : DigestOf(SubSeq(lines, 1, n))[i] = EntryHash(i - 1, IdOf(lines[i]))
<1> DEFINE b == SubSeq(lines, 1, n)
<1>1. b \in Seq(Line) /\ Len(b) = n /\ n \in Nat /\ \A i \in 1..n : b[i] = lines[i]
    BY BeginningType
<1> HIDE DEF b
<1>2. DigestOf(b) \in Digest
    BY <1>1, DigestType
<1>3. Len(DigestOf(b)) = n /\ \A i \in 1..n : DigestOf(b)[i] = EntryHash(i - 1, IdOf(b[i]))
    BY <1>1 DEF DigestOf
<1> QED BY <1>1, <1>2, <1>3 DEF b

(* Verification rebuilds the chain from the lines, so it accepts any lines.  *)
LEMMA VerifyAcceptsEveryLog ==
    ASSUME NEW lines \in Seq(Line)
    PROVE  ChainVerify(Chain(lines), DigestOf(lines))
<1> DEFINE d(n) == DigestOf(SubSeq(lines, 1, n))
           es == Chain(lines)
<1>1. Len(lines) \in Nat /\ d(0) = Genesis /\ d(Len(lines)) = DigestOf(lines)
    <2>1. SubSeq(lines, 1, Len(lines)) = lines
        BY SubSeqFull
    <2>2. d(0) \in Digest /\ Len(d(0)) = 0
        BY DigestOfBeginning
    <2> HIDE DEF d
    <2>3. d(0) = << >>
        BY <2>2, EmptySeq DEF Digest
    <2>4. Len(lines) \in Nat
        OBVIOUS
    <2>5. d(0) = Genesis
        BY <2>3 DEF Genesis
    <2>6. d(Len(lines)) = DigestOf(lines)
        BY <2>1 DEF d
    <2> QED BY <2>4, <2>5, <2>6
<1>2. ASSUME NEW i \in 1..Len(lines)
      PROVE  d(i) = Absorb(d(i - 1), i - 1, IdOf(lines[i]))
    <2>1. i - 1 \in 0..Len(lines) /\ i \in 0..Len(lines)
        OBVIOUS
    <2>2. SubSeq(lines, 1, i) = Append(SubSeq(lines, 1, i - 1), lines[i])
        <3> DEFINE s == SubSeq(lines, 1, i)
                   t == Append(SubSeq(lines, 1, i - 1), lines[i])
        <3>1. s \in Seq(Line) /\ Len(s) = i /\ \A k \in 1..i : s[k] = lines[k]
            BY <2>1, BeginningType
        <3>2. /\ SubSeq(lines, 1, i - 1) \in Seq(Line) /\ Len(SubSeq(lines, 1, i - 1)) = i - 1
              /\ \A k \in 1..(i - 1) : SubSeq(lines, 1, i - 1)[k] = lines[k]
            BY <2>1, BeginningType
        <3>3. t \in Seq(Line) /\ Len(t) = i /\ \A k \in 1..i : t[k] = lines[k]
            BY <3>2, AppendProperties
        <3> HIDE DEF s, t
        <3>4. s = t
            BY <3>1, <3>3, SeqEqual
        <3> QED BY <3>4 DEF s, t
    <2>3. SubSeq(lines, 1, i - 1) \in Seq(Line) /\ Len(SubSeq(lines, 1, i - 1)) = i - 1 /\ lines[i] \in Line
        BY <2>1, BeginningType
    <2> QED BY <2>2, <2>3, DigestAppend
<1>3. /\ Len(es) = Len(lines)
      /\ \A i \in 1..Len(lines) :
            /\ es[i].prev = d(i - 1) /\ es[i].seq = i - 1 /\ es[i].payload = IdOf(lines[i])
            /\ es[i].hash = Absorb(d(i - 1), i - 1, IdOf(lines[i]))
    BY <1>1 DEF Chain
<1>4. \A i \in 1..Len(lines) : es[i].hash = d(i)
    BY <1>2, <1>3
<1> HIDE DEF d, es
<1> DEFINE before(i) == IF i = 1 THEN Genesis ELSE es[i - 1].hash
<1>5. \A i \in 1..(Len(lines) + 1) : before(i) = d(i - 1)
    <2> SUFFICES ASSUME NEW i \in 1..(Len(lines) + 1) PROVE before(i) = d(i - 1)
        OBVIOUS
    <2>1. CASE i = 1
        BY <2>1, <1>1
    <2>2. CASE i # 1
        <3>1. i - 1 \in 1..Len(lines)
            BY <2>2, <1>1
        <3> QED BY <3>1, <2>2, <1>4
    <2> QED BY <2>1, <2>2
<1>6. \A i \in 1..Len(es) : es[i].prev = before(i) /\ es[i].hash = Absorb(es[i].prev, es[i].seq, es[i].payload)
    <2> SUFFICES ASSUME NEW i \in 1..Len(lines)
                 PROVE  es[i].prev = before(i) /\ es[i].hash = Absorb(es[i].prev, es[i].seq, es[i].payload)
        BY <1>3
    <2> QED BY <1>1, <1>3, <1>5
<1>7. DigestOf(lines) = before(Len(es) + 1)
    <2>1. Len(lines) + 1 \in 1..(Len(lines) + 1) /\ (Len(lines) + 1) - 1 = Len(lines)
        BY <1>1
    <2> HIDE DEF before
    <2> QED BY <2>1, <1>1, <1>3, <1>5
<1> QED BY <1>6, <1>7 DEF ChainVerify, es

-------------------------------------------------------------------------------
(* The head in memory, whenever it is read, is the digest of a beginning of  *)
(* the log: of all of it, or of all but the line just appended.              *)
IsBeginning(h, lines) == \E n \in 0..Len(lines) : h = DigestOf(SubSeq(lines, 1, n))

LEMMA HeadIsBeginning ==
    ASSUME TypeOK, ChainInv, up
    PROVE  IsBeginning(head, log)
<1>1. log \in Seq(Line) /\ Len(log) \in Nat /\ head \in Digest /\ size \in Nat
    BY DEF TypeOK
<1>2. CASE \A o \in Ops : pc[o] \notin {"load", "store"}
    <2>1. head = DigestOf(log) /\ SubSeq(log, 1, Len(log)) = log
        BY <1>1, <1>2, SubSeqFull DEF ChainInv
    <2>2. Len(log) \in 0..Len(log)
        BY <1>1
    <2>3. head = DigestOf(SubSeq(log, 1, Len(log)))
        BY <2>1, Zenon
    <2> QED BY <2>2, <2>3 DEF IsBeginning
<1>3. ASSUME NEW o \in Ops, pc[o] \in {"load", "store"}
      PROVE  IsBeginning(head, log)
    <2> DEFINE n == Len(log) - 1
               b == DigestOf(SubSeq(log, 1, n))
    <2>1. /\ DigestOf(log) = Append(head, EntryHash(size, <<EventOf(o), 0>>)) /\ size + 1 = Len(log)
        BY <1>3 DEF ChainInv, Absorb
    <2>2. n \in 0..Len(log) /\ n \in Nat /\ Len(log) = n + 1
        BY <1>1, <2>1
    <2>3. EntryHash(size, <<EventOf(o), 0>>) \in Nat \X LineId
        <3>1. EventOf(o) \in Event
            BY DEF TypeOK, EventOf, Event
        <3> QED BY <1>1, <3>1 DEF EntryHash, LineId, Cut
    <2> HIDE DEF n
    <2>4. b \in Digest /\ Len(b) = n /\ \A i \in 1..n : b[i] = EntryHash(i - 1, IdOf(log[i]))
        BY <1>1, <2>2, DigestOfBeginning
    <2>5. Len(DigestOf(log)) = n + 1 /\ \A i \in 1..n : DigestOf(log)[i] = EntryHash(i - 1, IdOf(log[i]))
        BY <1>1, <2>2 DEF DigestOf
    <2>6. Len(head) = n /\ \A i \in 1..n : head[i] = DigestOf(log)[i]
        BY <1>1, <2>1, <2>2, <2>3, <2>5, AppendProperties DEF Digest
    <2> HIDE DEF b
    <2>7. head = b
        <3>1. head \in Seq(Nat \X LineId) /\ b \in Seq(Nat \X LineId) /\ Len(head) = Len(b)
            BY <1>1, <2>4, <2>6 DEF Digest
        <3>2. \A i \in 1..Len(head) : head[i] = b[i]
            BY <2>4, <2>5, <2>6
        <3> QED BY <3>1, <3>2, SeqEqual
    <2> QED BY <2>2, <2>7 DEF IsBeginning, b
<1> QED BY <1>2, <1>3

(* A beginning of the log stays one while the log grows. *)
LEMMA BeginningStays ==
    ASSUME TypeOK, [Next]_vars, tail # "open", NEW h, IsBeginning(h, log)
    PROVE  IsBeginning(h, log')
<1>1. log \in Seq(Line) /\ Len(log) \in Nat
    BY DEF TypeOK
<1>2. CASE log' = log
    BY <1>2
<1>3. ASSUME NEW l \in Line, log' = Append(log, l)
      PROVE  IsBeginning(h, log')
    <2>1. PICK n \in 0..Len(log) : h = DigestOf(SubSeq(log, 1, n))
        BY DEF IsBeginning
    <2>2. SubSeq(log', 1, n) = SubSeq(log, 1, n) /\ Len(log') = Len(log) + 1
        BY <1>1, <1>3, BeginningOfAppend, AppendProperties
    <2>3. n \in 0..Len(log')
        BY <1>1, <2>1, <2>2
    <2>4. h = DigestOf(SubSeq(log', 1, n))
        BY <2>1, <2>2, Zenon
    <2> QED BY <2>3, <2>4 DEF IsBeginning
<1> QED BY <1>2, <1>3, LogGrows

(* What a step of the service adds to the log is named by an operation. *)
LEMMA LinesAreOfOps ==
    ASSUME TypeOK, [Next]_vars, \A i \in 1..Len(log) : log[i].ev[1] # NoOp
    PROVE  \A i \in 1..Len(log') : log'[i].ev[1] # NoOp
<1>1. log \in Seq(Line) /\ Len(log) \in Nat
    BY DEF TypeOK
<1>2. ASSUME NEW o \in Ops
      PROVE  EventOf(o)[1] # NoOp
    BY NoOpAssumption DEF EventOf
<1>3. CASE log' = log
    BY <1>3
<1>4. ASSUME NEW l \in Line, log' = Append(log, l), l.ev[1] # NoOp, NEW i \in 1..Len(log')
      PROVE  log'[i].ev[1] # NoOp
    <2>1. Len(log') = Len(log) + 1 /\ log'[Len(log) + 1] = l /\ \A k \in 1..Len(log) : log'[k] = log[k]
        BY <1>1, <1>4, AppendProperties
    <2>2. CASE i = Len(log) + 1
        BY <1>4, <2>1, <2>2
    <2>3. CASE i \in 1..Len(log)
        BY <2>1, <2>3
    <2> QED BY <1>1, <2>1, <2>2, <2>3
<1>5. CASE log' = Continued
    BY <1>1, <1>5, ContinuedLines
<1> QED BY <1>2, <1>3, <1>4, <1>5, LogSteps

(* A file without faults ends in a newline. *)
SoundTail == faults = 0 => tail = "clean"

LEMMA SoundTailStep ==
    ASSUME TypeOK, SoundTail, [Next]_vars
    PROVE  SoundTail'
<1>1. faults \in Nat
    BY DEF TypeOK
<1>2. CASE Boot \/ Crash \/ UNCHANGED vars
    BY <1>2 DEF SoundTail, Boot, Crash, disk, vars
<1>3. ASSUME NEW o \in Ops, Enter(o) \/ ReadSize(o) \/ ReadPrev(o) \/ LoadChain(o) \/ StoreChain(o)
      PROVE  SoundTail'
    BY <1>3 DEF SoundTail, Enter, ReadSize, ReadPrev, LoadChain, StoreChain, disk
<1>4. ASSUME NEW o \in Ops, AppendLog(o)
      PROVE  SoundTail'
    BY <1>1, <1>4 DEF SoundTail, AppendLog, WriteLine
<1>5. ASSUME NEW o \in Ops, TearingCrash(o)
      PROVE  SoundTail'
    BY <1>1, <1>5 DEF SoundTail, TearingCrash
<1> QED BY <1>2, <1>3, <1>4, <1>5 DEF Next, Step

-------------------------------------------------------------------------------
(* Before an edit the trail is as its own invariant says, and heads that were *)
(* read are digests of beginnings of what was copied after them; after one    *)
(* the stored link of the next line no longer fits.                           *)
Covered(h, lines) == h = Torn \/ IsBeginning(h, lines)
BeforeEdit ==
    edited = "no" =>
        /\ \A i \in 1..Len(log) : log[i].ev[1] # NoOp
        /\ Guarded => /\ ChainInv
                      /\ bpc = "tar" => Covered(root, log)
                      /\ bpc = "sidecar" => Covered(root, archive)
                      /\ sidecar = None \/ Covered(sidecar, archive)
Broken(i) == log[i + 1].prev[i] # EntryHash(i - 1, IdOf(log[i]))
AfterEdit == (Guarded /\ edited = "inner") => \E i \in 1..(Len(log) - 1) : Broken(i)
EInv == TypeOK /\ SoundTail /\ BeforeEdit /\ AfterEdit

LEMMA ServiceKeeps ==
    ASSUME EInv, ServiceStep
    PROVE  EInv'
<1>1. /\ TypeOK /\ [Next]_vars /\ UNCHANGED <<root, archive, sidecar, edited>>
      /\ bpc' = bpc \/ bpc' = "idle"
    BY DEF ServiceStep, EInv
<1>2. TypeOK' /\ SoundTail' /\ (Guarded' => Guarded)
    BY <1>1, TypeStep, SoundTailStep, GuardedBefore DEF EInv
<1>3. BeforeEdit'
    <2> SUFFICES ASSUME edited = "no"
                 PROVE  /\ \A i \in 1..Len(log') : log'[i].ev[1] # NoOp
                        /\ Guarded' => /\ ChainInv'
                                       /\ bpc' = "tar" => Covered(root, log')
                                       /\ bpc' = "sidecar" => Covered(root, archive)
                                       /\ sidecar = None \/ Covered(sidecar, archive)
        BY <1>1 DEF BeforeEdit, Covered, IsBeginning
    <2>1. \A i \in 1..Len(log') : log'[i].ev[1] # NoOp
        BY <1>1, LinesAreOfOps DEF EInv, BeforeEdit
    <2>2. ASSUME Guarded' PROVE ChainInv' /\ (bpc = "tar" => Covered(root, log'))
        <3>1. Guarded /\ ChainInv
            BY <1>2, <2>2 DEF EInv, BeforeEdit
        <3>2. ChainInv'
            BY <1>1, <2>2, <3>1, ChainInvStep
        <3>3. bpc = "tar" => Covered(root, log')
            BY <1>1, <3>1, BeginningStays DEF EInv, BeforeEdit, ChainInv, Covered
        <3> QED BY <3>2, <3>3
    <2> QED BY <1>1, <1>2, <2>1, <2>2 DEF EInv, BeforeEdit
<1>4. AfterEdit'
    <2> SUFFICES ASSUME Guarded', edited = "inner"
                 PROVE  \E i \in 1..(Len(log') - 1) : Broken(i)'
        BY <1>1 DEF AfterEdit
    <2>1. PICK i \in 1..(Len(log) - 1) : Broken(i)
        BY <1>2 DEF EInv, AfterEdit
    <2>2. log \in Seq(Line) /\ Len(log) \in Nat
        BY <1>1 DEF TypeOK
    <2>3. Len(log') \in Nat /\ Len(log) <= Len(log') /\ \A k \in 1..Len(log) : log'[k] = log[k]
        <3>1. CASE log' = log
            BY <2>2, <3>1
        <3>2. ASSUME NEW l \in Line, log' = Append(log, l)
              PROVE  Len(log') \in Nat /\ Len(log) <= Len(log') /\ \A k \in 1..Len(log) : log'[k] = log[k]
            BY <2>2, <3>2, AppendProperties
        <3>3. tail # "open"
            BY <1>2 DEF EInv, SoundTail, Guarded
        <3> QED BY <1>1, <3>1, <3>2, <3>3, LogGrows
    <2>4. i \in 1..Len(log) /\ i + 1 \in 1..Len(log) /\ i \in 1..(Len(log') - 1)
        BY <2>2, <2>3
    <2>5. log'[i] = log[i] /\ log'[i + 1] = log[i + 1]
        BY <2>3, <2>4
    <2>6. Broken(i)'
        BY <2>1, <2>5 DEF Broken
    <2> QED BY <2>4, <2>6
<1> QED BY <1>2, <1>3, <1>4 DEF EInv

LEMMA EditKeeps ==
    ASSUME EInv, PostHocEdit
    PROVE  EInv'
<1>1. PICK i \in 1..Len(log) :
        /\ log' = [log EXCEPT ![i].ev = <<NoOp, 0, 0>>]
        /\ edited' = IF i < Len(log) THEN "inner" ELSE "last"
    BY DEF PostHocEdit
<1>2. /\ UNCHANGED <<tail, faults, head, size, up, mu, pc, sec, nth, seqRead, prevRead, mark, crashes>>
      /\ edited = "no"
    BY DEF PostHocEdit, chain, locals
<1>3. log \in Seq(Line) /\ Len(log) \in Nat /\ log[i] \in Line
    BY DEF EInv, TypeOK
<1>4. <<NoOp, 0, 0>> \in Event /\ [log[i] EXCEPT !.ev = <<NoOp, 0, 0>>] \in Line
    BY <1>3 DEF Event, Line
<1>5. /\ log' \in Seq(Line) /\ Len(log') = Len(log)
      /\ log'[i] = [log[i] EXCEPT !.ev = <<NoOp, 0, 0>>]
      /\ \A k \in 1..Len(log) : k # i => log'[k] = log[k]
    <2> DEFINE line == [log[i] EXCEPT !.ev = <<NoOp, 0, 0>>]
    <2>1. log' = [log EXCEPT ![i] = line] /\ line \in Line
        BY <1>1, <1>4
    <2> HIDE DEF line
    <2>2. log' \in Seq(Line) /\ Len(log') = Len(log)
        BY <1>3, <2>1
    <2>3. log'[i] = line /\ \A k \in 1..Len(log) : k # i => log'[k] = log[k]
        BY <1>3, <2>1
    <2> QED BY <2>2, <2>3 DEF line
<1>6. TypeOK' /\ SoundTail'
    BY <1>2, <1>5 DEF EInv, TypeOK, SoundTail
<1>7. ASSUME Guarded', edited' = "inner" PROVE Broken(i)' /\ i \in 1..(Len(log') - 1)
    <2>1. Guarded /\ Linked /\ log[i].ev[1] # NoOp
        BY <1>2, <1>7 DEF Guarded, UnguardedStarted, EInv, BeforeEdit, ChainInv
    <2>2. i < Len(log) /\ i + 1 \in 1..Len(log) /\ (i + 1) - 1 = i /\ i \in 0..Len(log) /\ i \in 1..(Len(log) - 1)
        BY <1>1, <1>3, <1>7
    <2>3. log[i + 1].prev = DigestOf(SubSeq(log, 1, i))
        BY <2>1, <2>2 DEF Linked, LinkedAt
    <2>4. log[i + 1].prev[i] = EntryHash(i - 1, IdOf(log[i]))
        BY <1>3, <2>2, <2>3, DigestOfBeginning
    <2>5. log'[i + 1] = log[i + 1]
        BY <1>3, <1>5, <2>2
    <2>6. log'[i].ev = <<NoOp, 0, 0>>
        BY <1>3, <1>5 DEF Line
    <2>7. IdOf(log'[i]) # IdOf(log[i])
        BY <2>1, <2>6 DEF IdOf
    <2>8. EntryHash(i - 1, IdOf(log[i])) # EntryHash(i - 1, IdOf(log'[i]))
        BY <2>7 DEF EntryHash
    <2> QED BY <1>5, <2>2, <2>4, <2>5, <2>8 DEF Broken
<1>8. AfterEdit'
    BY <1>7 DEF AfterEdit
<1>9. edited' # "no"
    BY <1>1
<1> QED BY <1>6, <1>8, <1>9 DEF EInv, BeforeEdit

LEMMA EvidenceKept == EInv /\ [ENext]_evars => EInv'
<1> SUFFICES ASSUME EInv, [ENext]_evars PROVE EInv'
    OBVIOUS
<1> DEFINE Same == UNCHANGED <<vars, edited>>
<1>1. ASSUME Same
      PROVE  /\ TypeOK' /\ SoundTail' /\ AfterEdit' /\ (Guarded' = Guarded) /\ (ChainInv' = ChainInv)
             /\ log' = log /\ edited' = edited
    BY <1>1 DEF vars, EInv, TypeOK, SoundTail, AfterEdit, Broken, Guarded, UnguardedStarted, ChainInv, Linked, LinkedAt, EventOf
<1>2. CASE ServiceStep
    BY <1>2, ServiceKeeps
<1>3. CASE PostHocEdit
    BY <1>3, EditKeeps
<1>4. CASE BackupHead
    <2>1. Same /\ UNCHANGED <<archive, sidecar>> /\ up /\ bpc' = "tar" /\ root' \in {head, Torn}
        BY <1>4 DEF BackupHead
    <2>2. ASSUME Guarded, edited = "no" PROVE Covered(root', log)
        <3>1. IsBeginning(head, log)
            BY <2>1, <2>2, HeadIsBeginning DEF EInv, BeforeEdit
        <3> QED BY <2>1, <3>1 DEF Covered
    <2>3. BeforeEdit'
        BY <1>1, <2>1, <2>2 DEF EInv, BeforeEdit, Covered, IsBeginning
    <2> QED BY <1>1, <2>1, <2>3 DEF EInv
<1>5. CASE BackupTar
    <2>1. /\ Same /\ UNCHANGED root /\ bpc = "tar" /\ sidecar' = None
          /\ (archive' = log /\ bpc' = "sidecar") \/ bpc' = "idle"
        BY <1>5 DEF BackupTar
    <2>2. BeforeEdit'
        BY <1>1, <2>1 DEF EInv, BeforeEdit, Covered, IsBeginning
    <2> QED BY <1>1, <2>1, <2>2 DEF EInv
<1>6. CASE BackupSidecar
    <2>1. Same /\ UNCHANGED <<root, archive>> /\ bpc = "sidecar" /\ sidecar' = root /\ bpc' = "idle"
        BY <1>6 DEF BackupSidecar
    <2>2. BeforeEdit'
        BY <1>1, <2>1 DEF EInv, BeforeEdit, Covered, IsBeginning
    <2> QED BY <1>1, <2>1, <2>2 DEF EInv
<1>7. CASE UNCHANGED evars
    <2>1. Same /\ UNCHANGED <<bpc, root, archive, sidecar>>
        BY <1>7 DEF evars, backupVars
    <2>2. BeforeEdit'
        BY <1>1, <2>1 DEF EInv, BeforeEdit, Covered, IsBeginning
    <2> QED BY <1>1, <2>1, <2>2 DEF EInv
<1> QED BY <1>2, <1>3, <1>4, <1>5, <1>6, <1>7 DEF ENext

LEMMA EvidenceInvariant == ESpec => []EInv
<1>1. EInit => EInv
    <2> SUFFICES ASSUME EInit PROVE EInv
        OBVIOUS
    <2>1. TypeOK /\ SoundTail /\ ChainInv /\ log = << >>
        BY InitTypeOK DEF EInit, Init, SoundTail, ChainInv, Recording, Linked
    <2>2. edited = "no" /\ bpc = "idle" /\ sidecar = None
        BY DEF EInit
    <2> QED BY <2>1, <2>2 DEF EInv, BeforeEdit, AfterEdit
<1> QED BY <1>1, EvidenceKept, PTL DEF ESpec

(* With records under mu_ and sound files, the sidecar of a backup is the     *)
(* digest of a beginning of the log it archived, over any number of backups,  *)
(* crashes and restarts (fve-run.cpp:153, backup.cpp:25-44).                  *)
THEOREM SidecarIsOfArchiveHolds == ESpec => []SidecarIsOfArchive
<1>1. EInv => SidecarIsOfArchive
    BY DEF EInv, BeforeEdit, Covered, IsBeginning, SidecarIsOfArchive
<1> QED BY <1>1, EvidenceInvariant, PTL

(* An edit of a line that has a successor breaks a stored link for good, and  *)
(* verify() accepts the log all the same (audit.cpp:20, 47-52).               *)
THEOREM LinksAloneShowAnEditHolds == ESpec => []LinksAloneShowAnEdit
<1>1. EInv => LinksAloneShowAnEdit
    <2> SUFFICES ASSUME EInv, Guarded, edited = "inner" PROVE ~Linked /\ AuditOk
        BY DEF LinksAloneShowAnEdit
    <2>1. log \in Seq(Line) /\ Len(log) \in Nat
        BY DEF EInv, TypeOK
    <2>2. AuditOk
        BY <2>1, VerifyAcceptsEveryLog DEF AuditOk
    <2>3. PICK i \in 1..(Len(log) - 1) : Broken(i)
        BY DEF EInv, AfterEdit
    <2>4. i + 1 \in 1..Len(log) /\ (i + 1) - 1 = i /\ i \in 0..Len(log) /\ i \in 1..i
        BY <2>1
    <2>5. DigestOf(SubSeq(log, 1, i))[i] = EntryHash(i - 1, IdOf(log[i]))
        BY <2>1, <2>4, DigestOfBeginning
    <2>6. log[i + 1].prev # DigestOf(SubSeq(log, 1, i))
        BY <2>3, <2>5 DEF Broken
    <2>7. ~LinkedAt(i + 1)
        BY <2>4, <2>6 DEF LinkedAt
    <2> QED BY <2>2, <2>4, <2>7 DEF Linked
<1> QED BY <1>1, EvidenceInvariant, PTL
===============================================================================
