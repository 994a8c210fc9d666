------------------------ MODULE IncludeStack_proofs ------------------------
(***************************************************************************)
(* Theorems about reading a script, for every script, every directory and  *)
(* command, and any depth of the stacks.                                   *)
(***************************************************************************)
EXTENDS IncludeStack, NatLemmas, SequenceTheorems, TLAPS

-----------------------------------------------------------------------------
(* The inductive invariant. *)

\* The state of the reader and the entries of its stack are records with the
\* fields of NotReading and of Enter.
IsReader(r) ==
    r \in [file : {r.file}, src : {r.src}, pos : {r.pos}, stack : {r.stack}, cache : {r.cache},
           listing : {r.listing}, should : {r.should}, notOwner : {r.notOwner}, ifs : {r.ifs},
           base : {r.base}, ret : {r.ret}]

IsFrame(e) ==
    e \in [file : {e.file}, pos : {e.pos}, src : {e.src}, base : Nat, owned : {e.owned},
           chain : {e.chain}, saved : Seq(IfEntry)]

\* The base pointer of the file that entry k of the stack includes.
Above(stack, base, k) == IF k < Len(stack) THEN stack[k + 1].base ELSE base

Sizes(stack, ifs, base) ==
    /\ stack \in Seq(Range(stack)) /\ \A k \in 1 .. Len(stack) : IsFrame(stack[k])
    /\ ifs \in Seq(IfEntry) /\ base \in 0 .. Len(ifs)
    /\ Len(stack) <= INCLUDE_NEST /\ Len(ifs) <= IF_NEST

\* The blocks that were open at an INCLUDE are below the base pointer of the
\* included file, unchanged, and the ones of an outer INCLUDE are among them.
Enclosed(stack, ifs, base) ==
    /\ \A k \in 1 .. Len(stack) : /\ Above(stack, base, k) = Len(stack[k].saved)
                                  /\ Len(stack[k].saved) <= base
                                  /\ \A i \in 1 .. Len(stack[k].saved) : ifs[i] = stack[k].saved[i]
    /\ \A k \in 1 .. Len(stack) : \A j \in 1 .. k - 1 : Len(stack[j].saved) <= stack[k].base

\* The script itself is included from nowhere.
Outermost(stack, base) ==
    IF Len(stack) = 0 THEN base = 0 ELSE Len(stack[1].saved) = 0

AllExecuting(ifs, n) == \A i \in 1 .. n : Executing(ifs[i])

Nested(stack, ifs, base) ==
    /\ Sizes(stack, ifs, base) /\ Enclosed(stack, ifs, base)
    /\ Outermost(stack, base) /\ AllExecuting(ifs, base)

Good(r) == IsReader(r) /\ Nested(r.stack, r.ifs, r.base)

AtRest(r) == Len(r.stack) = 0 /\ Len(r.ifs) = 0 /\ ~r.ret

NestInv == /\ Good(rd)
           /\ pc = "start" => AtRest(rd)
           /\ pc = "read" => Len(rd.stack) > 0

-----------------------------------------------------------------------------
(* The two stacks. *)

(* What happens to the blocks of the current file does not concern the     *)
(* ones that include it.                                                   *)
LEMMA BlocksChange ==
    ASSUME NEW stack, NEW ifs, NEW base, Nested(stack, ifs, base),
           NEW new \in Seq(IfEntry), base <= Len(new), Len(new) <= IF_NEST,
           \A i \in 1 .. base : new[i] = ifs[i]
    PROVE  Nested(stack, new, base)
<1>1. Sizes(stack, new, base)
  BY DEF Nested, Sizes
<1>2. Enclosed(stack, new, base)
  <2>1. ASSUME NEW k \in 1 .. Len(stack), NEW i \in 1 .. Len(stack[k].saved)
        PROVE  new[i] = stack[k].saved[i]
    <3>1. stack[k].saved \in Seq(IfEntry) /\ Len(stack[k].saved) <= base /\ base \in Nat
      BY DEF Nested, Sizes, Enclosed, IsFrame
    <3>2. ifs[i] = stack[k].saved[i] /\ i \in 1 .. base
      BY <3>1 DEF Nested, Enclosed
    <3> QED
      BY <3>2
  <2> QED
    BY <2>1 DEF Nested, Enclosed
<1>3. AllExecuting(new, base)
  BY DEF Nested, AllExecuting
<1> QED
  BY <1>1, <1>2, <1>3 DEF Nested

(* An INCLUDE in a line that is executed (Enter).                          *)
LEMMA Entered ==
    ASSUME NEW stack, NEW ifs, NEW base, Nested(stack, ifs, base), AllExecuting(ifs, Len(ifs)),
           Len(stack) < INCLUDE_NEST, Len(stack) = 0 => Len(ifs) = 0,
           NEW e, IsFrame(e), e.base = base, e.saved = ifs
    PROVE  Nested(Append(stack, e), ifs, Len(ifs))
<1> DEFINE S   == Range(stack) \cup {e}
           new == Append(stack, e)
<1>1. stack \in Seq(S) /\ Len(stack) \in Nat /\ ifs \in Seq(IfEntry) /\ base \in Nat /\ base <= Len(ifs)
  BY DEF Nested, Sizes
<1>2. /\ new \in Seq(S) /\ Len(new) = Len(stack) + 1 /\ new[Len(stack) + 1] = e
      /\ \A k \in 1 .. Len(stack) : new[k] = stack[k]
  BY <1>1
<1> HIDE DEF new, S
<1>3. \A k \in 1 .. Len(new) : k = Len(stack) + 1 \/ k \in 1 .. Len(stack)
  BY <1>1, <1>2
<1>4. Sizes(new, ifs, Len(ifs))
  <2>1. new \in Seq(Range(new))
    BY <1>2 DEF Range
  <2>2. \A k \in 1 .. Len(new) : IsFrame(new[k])
    BY <1>2, <1>3 DEF Nested, Sizes
  <2>3. Len(new) <= INCLUDE_NEST /\ Len(ifs) <= IF_NEST /\ Len(ifs) \in 0 .. Len(ifs)
    BY <1>1, <1>2, IncludeAssumption DEF Nested, Sizes
  <2> QED
    BY <1>1, <2>1, <2>2, <2>3 DEF Sizes
<1>5. ASSUME NEW k \in 1 .. Len(new)
      PROVE  /\ Above(new, Len(ifs), k) = Len(new[k].saved)
             /\ Len(new[k].saved) <= Len(ifs)
             /\ \A i \in 1 .. Len(new[k].saved) : ifs[i] = new[k].saved[i]
  <2>1. CASE k = Len(stack) + 1
    BY <2>1, <1>1, <1>2 DEF Above
  <2>2. CASE k \in 1 .. Len(stack)
    <3>1. /\ Above(stack, base, k) = Len(stack[k].saved) /\ Len(stack[k].saved) <= base
          /\ \A i \in 1 .. Len(stack[k].saved) : ifs[i] = stack[k].saved[i]
          /\ stack[k].saved \in Seq(IfEntry)
      BY <2>2 DEF Nested, Enclosed, Sizes, IsFrame
    <3>2. Above(new, Len(ifs), k) = Above(stack, base, k)
      <4>1. CASE k = Len(stack)
        BY <4>1, <1>1, <1>2 DEF Above
      <4>2. CASE k < Len(stack)
        <5>1. k + 1 \in 1 .. Len(stack) /\ k < Len(new)
          BY <4>2, <2>2, <1>1, <1>2
        <5> QED
          BY <5>1, <4>2, <1>2 DEF Above
      <4> QED
        BY <4>1, <4>2, <2>2, <1>1
    <3> QED
      BY <3>1, <3>2, <2>2, <1>1, <1>2
  <2> QED
    BY <2>1, <2>2, <1>3
<1>6. ASSUME NEW k \in 1 .. Len(new), NEW j \in 1 .. k - 1
      PROVE  Len(new[j].saved) <= new[k].base
  <2>1. j \in 1 .. Len(stack) /\ new[j] = stack[j]
    BY <1>1, <1>2
  <2>2. CASE k = Len(stack) + 1
    BY <2>1, <2>2, <1>2 DEF Nested, Enclosed
  <2>3. CASE k \in 1 .. Len(stack)
    BY <2>1, <2>3, <1>2 DEF Nested, Enclosed
  <2> QED
    BY <2>2, <2>3, <1>3
<1>7. Outermost(new, Len(ifs))
  <2>1. CASE Len(stack) = 0
    BY <2>1, <1>1, <1>2 DEF Outermost
  <2>2. CASE Len(stack) # 0
    BY <2>2, <1>1, <1>2 DEF Outermost, Nested
  <2> QED
    BY <2>1, <2>2
<1> QED
  BY <1>4, <1>5, <1>6, <1>7 DEF Nested, Enclosed, new

(* The end of an included file (ReturnTo).                                 *)
LEMMA Left ==
    ASSUME NEW stack, NEW ifs, NEW base, Nested(stack, ifs, base), Len(stack) > 1
    PROVE  Nested(Front(stack), ifs, stack[Len(stack)].base)
<1> DEFINE new == Front(stack)
           n   == Len(stack)
           b   == stack[Len(stack)].base
<1>1. stack \in Seq(Range(stack)) /\ n \in Nat /\ n > 1 /\ ifs \in Seq(IfEntry) /\ base \in Nat /\ base <= Len(ifs)
  BY DEF Nested, Sizes
<1>2. /\ new \in Seq(Range(stack)) /\ Len(new) = n - 1
      /\ \A k \in 1 .. n - 1 : new[k] = stack[k]
  BY <1>1 DEF Front
<1>3. b = Len(stack[n - 1].saved) /\ b \in Nat /\ b <= base
  <2>1. n - 1 \in 1 .. n /\ n - 1 < n /\ n - 1 + 1 = n /\ n \in 1 .. n
    BY <1>1
  <2>2. IsFrame(stack[n - 1]) /\ IsFrame(stack[n])
    BY <2>1 DEF Nested, Sizes
  <2>3. Above(stack, base, n - 1) = Len(stack[n - 1].saved) /\ Len(stack[n - 1].saved) <= base
    BY <2>1 DEF Nested, Enclosed
  <2> QED
    BY <2>1, <2>2, <2>3 DEF Above, IsFrame
<1> HIDE DEF new, n, b
<1>4. Sizes(new, ifs, b)
  <2>1. new \in Seq(Range(new))
    BY <1>2 DEF Range
  <2>2. \A k \in 1 .. Len(new) : IsFrame(new[k])
    BY <1>1, <1>2 DEF Nested, Sizes, n
  <2>3. Len(new) <= INCLUDE_NEST /\ Len(ifs) <= IF_NEST /\ b \in 0 .. Len(ifs)
    BY <1>1, <1>2, <1>3, IncludeAssumption DEF Nested, Sizes, n
  <2> QED
    BY <1>1, <2>1, <2>2, <2>3 DEF Sizes
<1>5. ASSUME NEW k \in 1 .. Len(new)
      PROVE  /\ Above(new, b, k) = Len(new[k].saved)
             /\ Len(new[k].saved) <= b
             /\ \A i \in 1 .. Len(new[k].saved) : ifs[i] = new[k].saved[i]
  <2>1. k \in 1 .. n - 1 /\ k \in 1 .. n /\ k < n /\ n \in 1 .. n
    BY <1>1, <1>2
  <2>2. /\ Above(stack, base, k) = Len(stack[k].saved)
        /\ \A i \in 1 .. Len(stack[k].saved) : ifs[i] = stack[k].saved[i]
    BY <2>1 DEF Nested, Enclosed, n
  <2>3. Len(stack[k].saved) <= b
    <3>1. k \in 1 .. n - 1
      BY <2>1
    <3> QED
      BY <3>1, <2>1 DEF Nested, Enclosed, n, b
  <2>4. Above(new, b, k) = Above(stack, base, k)
    <3>1. CASE k = n - 1
      BY <3>1, <2>1, <1>1, <1>2 DEF Above, b, n
    <3>2. CASE k < n - 1
      <4>1. k + 1 \in 1 .. n - 1
        BY <3>2, <2>1, <1>1
      <4> QED
        BY <4>1, <3>2, <2>1, <1>2 DEF Above, n
    <3> QED
      BY <3>1, <3>2, <2>1, <1>1
  <2> QED
    BY <2>1, <2>2, <2>3, <2>4, <1>2
<1>6. ASSUME NEW k \in 1 .. Len(new), NEW j \in 1 .. k - 1
      PROVE  Len(new[j].saved) <= new[k].base
  <2>1. k \in 1 .. n - 1 /\ j \in 1 .. n - 1 /\ k \in 1 .. n
    BY <1>1, <1>2
  <2> QED
    BY <2>1, <1>2 DEF Nested, Enclosed, n
<1>7. Outermost(new, b)
  BY <1>1, <1>2 DEF Outermost, Nested, n
<1>8. AllExecuting(ifs, b)
  BY <1>1, <1>3 DEF AllExecuting, Nested
<1> QED
  BY <1>4, <1>5, <1>6, <1>7, <1>8 DEF Nested, Enclosed, new, b

(* The next file of a directory (PopFile): the chain is no part of this.   *)
LEMMA Rechained ==
    ASSUME NEW stack, NEW ifs, NEW base, Nested(stack, ifs, base), Len(stack) > 0, NEW chain
    PROVE  /\ Nested([stack EXCEPT ![Len(stack)].chain = chain], ifs, base)
           /\ Len([stack EXCEPT ![Len(stack)].chain = chain]) = Len(stack)
           /\ [stack EXCEPT ![Len(stack)].chain = chain][Len(stack)].base = stack[Len(stack)].base
<1> DEFINE n   == Len(stack)
           e   == [stack[n] EXCEPT !.chain = chain]
           new == [stack EXCEPT ![n] = e]
           S   == Range(stack) \cup {e}
<1>1. stack \in Seq(Range(stack)) /\ n \in Nat /\ n \in 1 .. n
  BY DEF Nested, Sizes
<1>2. IsFrame(e) /\ e.base = stack[n].base /\ e.saved = stack[n].saved
  <2>1. IsFrame(stack[n])
    BY <1>1 DEF Nested, Sizes
  <2> QED
    BY <2>1 DEF IsFrame
<1> HIDE DEF e
<1>3. new \in Seq(S) /\ Len(new) = n
  BY <1>1
<1>4. \A k \in 1 .. n : new[k] = IF k = n THEN e ELSE stack[k]
  BY <1>1
<1> HIDE DEF S, new
<1>5. \A k \in 1 .. n : IsFrame(new[k]) /\ new[k].base = stack[k].base /\ new[k].saved = stack[k].saved
  BY <1>2, <1>4 DEF Nested, Sizes, n
<1> HIDE DEF n
<1>6. Sizes(new, ifs, base)
  <2>1. new \in Seq(Range(new))
    BY <1>3 DEF Range
  <2> QED
    BY <2>1, <1>3, <1>5 DEF Nested, Sizes, n
<1>7. Enclosed(new, ifs, base)
  <2>1. \A k \in 1 .. n : Above(new, base, k) = Above(stack, base, k)
    <3>1. \A k \in 1 .. n : k < n => k + 1 \in 1 .. n
      BY <1>1
    <3> QED
      BY <3>1, <1>3, <1>5 DEF Above, n
  <2>2. \A k \in 1 .. n : \A j \in 1 .. k - 1 : j \in 1 .. n
    BY <1>1
  <2> QED
    BY <2>1, <2>2, <1>3, <1>5 DEF Nested, Enclosed, n
<1>8. Outermost(new, base)
  BY <1>1, <1>3, <1>5 DEF Nested, Outermost, n
<1>9. Nested(new, ifs, base)
  BY <1>6, <1>7, <1>8 DEF Nested
<1>10. new = [stack EXCEPT ![Len(stack)].chain = chain]
  BY DEF new, n, e
<1> QED
  BY <1>1, <1>3, <1>5, <1>9, <1>10 DEF n

-----------------------------------------------------------------------------
(* The state of the reader. *)

\* s is r but for the place in the files, the cache and the owner.
Beside(r, s) == IsReader(s) /\ s.stack = r.stack /\ s.ifs = r.ifs /\ s.base = r.base /\ s.ret = r.ret

(* The fields that Beside speaks of are all that matters.                  *)
LEMMA BesideIsGood ==
    ASSUME NEW r, NEW s, Good(r), Beside(r, s)
    PROVE  Good(s)
BY DEF Good, Beside

(* ... of which an unchanged state is a case.                              *)
LEMMA BesideItself ==
    ASSUME NEW r, IsReader(r)
    PROVE  Beside(r, r)
BY DEF Beside

(* Updates of the fields of files.c.                                       *)
LEMMA Updates ==
    ASSUME NEW r, NEW s, Beside(r, s), NEW x
    PROVE  /\ Beside(r, [s EXCEPT !.file = x])   /\ Beside(r, [s EXCEPT !.pos = x])
           /\ Beside(r, [s EXCEPT !.src = x])    /\ Beside(r, [s EXCEPT !.cache = x])
           /\ Beside(r, [s EXCEPT !.should = x]) /\ Beside(r, [s EXCEPT !.notOwner = x])
           /\ Beside(r, [s EXCEPT !.listing = x])
<1>1. Beside(r, [s EXCEPT !.file = x])
  BY DEF IsReader, Beside
<1>2. Beside(r, [s EXCEPT !.pos = x])
  BY DEF IsReader, Beside
<1>3. Beside(r, [s EXCEPT !.src = x])
  BY DEF IsReader, Beside
<1>4. Beside(r, [s EXCEPT !.cache = x])
  BY DEF IsReader, Beside
<1>5. Beside(r, [s EXCEPT !.should = x])
  BY DEF IsReader, Beside
<1>6. Beside(r, [s EXCEPT !.notOwner = x])
  BY DEF IsReader, Beside
<1>7. Beside(r, [s EXCEPT !.listing = x])
  BY DEF IsReader, Beside
<1> QED
  BY Zenon, <1>1, <1>2, <1>3, <1>4, <1>5, <1>6, <1>7

(* A cached file is opened (FromCache).                                    *)
LEMMA FromCacheBeside ==
    ASSUME NEW r, NEW s, Beside(r, s), NEW f
    PROVE  Beside(r, FromCache(s, f))
<1> DEFINE src   == IF text[f] = << >> THEN "none" ELSE "cache"
           owner == ~s.cache[f]
           s1    == [s EXCEPT !.file = f]
           s2    == [s1 EXCEPT !.pos = 0]
           s3    == [s2 EXCEPT !.src = src]
           s4    == [s3 EXCEPT !.notOwner = owner]
<1>1. FromCache(s, f) = s4
  BY Zenon DEF FromCache
<1> HIDE DEF src, owner
<1>2. Beside(r, s1)
  BY Zenon, Updates
<1> HIDE DEF s1
<1>3. Beside(r, s2)
  BY Zenon, <1>2, Updates
<1> HIDE DEF s2
<1>4. Beside(r, s3)
  BY Zenon, <1>3, Updates
<1> HIDE DEF s3
<1>5. Beside(r, s4)
  BY Zenon, <1>4, Updates
<1> QED
  BY Zenon, <1>1, <1>5

(* A file is opened (OpenFile).                                            *)
LEMMA OpenFileBeside ==
    ASSUME NEW r, NEW s, Beside(r, s), NEW f
    PROVE  Beside(r, OpenFile(s, f))
<1> DEFINE owned  == f \in Trusted
           cached == CacheFile(s, f, owned)
           s1     == [s EXCEPT !.file = f]
           s2     == [s1 EXCEPT !.pos = 0]
           s3     == [s2 EXCEPT !.src = "disk"]
           s4     == [s3 EXCEPT !.should = FALSE]
           s5     == [s4 EXCEPT !.notOwner = ~owned]
<1>1. \/ OpenFile(s, f) = FromCache(s, f)
      \/ OpenFile(s, f) = FromCache(cached, f)
      \/ OpenFile(s, f) = s5
  BY Zenon DEF OpenFile
<1> HIDE DEF owned
<1>2. Beside(r, cached)
  BY Zenon, Updates DEF CacheFile
<1> HIDE DEF cached
<1>3. Beside(r, s1)
  BY Zenon, Updates
<1> HIDE DEF s1
<1>4. Beside(r, s2)
  BY Zenon, <1>3, Updates
<1> HIDE DEF s2
<1>5. Beside(r, s3)
  BY Zenon, <1>4, Updates
<1> HIDE DEF s3
<1>6. Beside(r, s4)
  BY Zenon, <1>5, Updates
<1> HIDE DEF s4
<1>7. Beside(r, s5)
  BY Zenon, <1>6, Updates
<1> HIDE DEF s5
<1> QED
  BY Zenon, <1>1, <1>2, <1>7, FromCacheBeside

(* The stack of files changes (Enter, ReturnTo).                           *)
LEMMA StackUpdate ==
    ASSUME NEW r, IsReader(r), NEW stack
    PROVE  LET s == [r EXCEPT !.stack = stack]
           IN  IsReader(s) /\ s.stack = stack /\ s.ifs = r.ifs /\ s.base = r.base /\ s.ret = r.ret
BY DEF IsReader

(* ... and the base pointer alone.                                         *)
LEMMA BaseUpdate ==
    ASSUME NEW r, IsReader(r), NEW base
    PROVE  LET s == [r EXCEPT !.base = base]
           IN  IsReader(s) /\ s.stack = r.stack /\ s.ifs = r.ifs /\ s.base = base /\ s.ret = r.ret
BY DEF IsReader

(* The blocks change.                                                      *)
LEMMA IfsUpdate ==
    ASSUME NEW r, IsReader(r), NEW ifs
    PROVE  LET s == [r EXCEPT !.ifs = ifs]
           IN  IsReader(s) /\ s.stack = r.stack /\ s.ifs = ifs /\ s.base = r.base /\ s.ret = r.ret
BY DEF IsReader

(* A RETURN is encountered, or forgotten.                                  *)
LEMMA RetUpdate ==
    ASSUME NEW r, IsReader(r), NEW ret
    PROVE  LET s == [r EXCEPT !.ret = ret]
           IN  IsReader(s) /\ s.stack = r.stack /\ s.ifs = r.ifs /\ s.base = r.base /\ s.ret = ret
BY DEF IsReader

-----------------------------------------------------------------------------
(* The blocks: IF, IFTRIG, ELSE, ENDIF, RETURN. *)

\* What a command of ifelse.c may do to the state.
OwnBlocksOnly(r, s) == Good(s) /\ s.stack = r.stack

(* Changes above the base pointer leave a good state.                      *)
LEMMA IfsChange ==
    ASSUME NEW r, Good(r), NEW ifs \in Seq(IfEntry), r.base <= Len(ifs), Len(ifs) <= IF_NEST,
           \A i \in 1 .. r.base : ifs[i] = r.ifs[i]
    PROVE  OwnBlocksOnly(r, [r EXCEPT !.ifs = ifs])
<1>1. Nested(r.stack, ifs, r.base)
  BY BlocksChange DEF Good
<1> QED
  BY ZenonT(30), <1>1, IfsUpdate DEF Good, OwnBlocksOnly

(* A block is opened if there is room (push_if).                           *)
LEMMA PushIf ==
    ASSUME NEW r, Good(r), NEW is_true \in BOOLEAN
    PROVE  OwnBlocksOnly(r, push_if(r, is_true))
<1> DEFINE ifs == Append(r.ifs, [if_true |-> is_true, before_else |-> TRUE])
<1>1. r.ifs \in Seq(IfEntry) /\ r.base \in 0 .. Len(r.ifs) /\ Len(r.ifs) <= IF_NEST
  BY DEF Good, Nested, Sizes
<1>2. CASE if_stack_full(r)
  BY <1>2 DEF push_if, OwnBlocksOnly
<1>3. CASE ~if_stack_full(r)
  <2>1. ifs \in Seq(IfEntry) /\ Len(ifs) = Len(r.ifs) + 1 /\ \A i \in 1 .. r.base : ifs[i] = r.ifs[i]
    BY <1>1 DEF IfEntry
  <2>2. Len(ifs) <= IF_NEST /\ r.base <= Len(ifs)
    BY <1>1, <1>3, <2>1, IfNestAssumption DEF if_stack_full
  <2>3. push_if(r, is_true) = [r EXCEPT !.ifs = ifs]
    BY Zenon, <1>3 DEF push_if
  <2> HIDE DEF ifs
  <2> QED
    BY <2>1, <2>2, <2>3, IfsChange
<1> QED
  BY <1>2, <1>3

(* IF and IFTRIG open a block or fail (DoIf, DoIfTrig).                    *)
LEMMA IfOpens ==
    ASSUME NEW r, Good(r), NEW cond
    PROVE  OwnBlocksOnly(r, DoIf(r, cond)) /\ OwnBlocksOnly(r, DoIfTrig(r, cond))
<1>1. (should_ignore_line(r) \/ cond # "false") \in BOOLEAN /\ (cond = "true") \in BOOLEAN
  OBVIOUS
<1>2. OwnBlocksOnly(r, r)
  BY DEF OwnBlocksOnly
<1> QED
  BY Zenon, <1>1, <1>2, PushIf DEF DoIf, DoIfTrig

(* ELSE changes a block of this file only (encounter_else).                *)
LEMMA ElseTurns ==
    ASSUME NEW r, Good(r)
    PROVE  OwnBlocksOnly(r, encounter_else(r))
<1> DEFINE n   == Len(r.ifs)
           e   == [r.ifs[n] EXCEPT !.before_else = FALSE]
           ifs == [r.ifs EXCEPT ![n] = e]
<1>1. r.ifs \in Seq(IfEntry) /\ r.base \in 0 .. n /\ n \in Nat /\ n <= IF_NEST
  BY DEF Good, Nested, Sizes
<1>2. CASE encounter_else(r) = r
  BY <1>2 DEF OwnBlocksOnly
<1>3. CASE encounter_else(r) # r
  <2>1. n > r.base /\ encounter_else(r) = [r EXCEPT !.ifs[n].before_else = FALSE]
    <3>1. ~(n <= r.base)
      BY Zenon, <1>3 DEF encounter_else
    <3>2. encounter_else(r) = [r EXCEPT !.ifs[n].before_else = FALSE]
      BY Zenon, <1>3 DEF encounter_else
    <3> QED
      BY <3>1, <3>2, <1>1
  <2>2. [r EXCEPT !.ifs[n].before_else = FALSE] = [r EXCEPT !.ifs = ifs]
    BY Zenon
  <2>3. n \in 1 .. n /\ r.ifs[n] \in IfEntry
    BY <1>1, <2>1
  <2>4. e \in IfEntry
    BY <2>3 DEF IfEntry
  <2> HIDE DEF e
  <2>5. ifs \in Seq(IfEntry) /\ Len(ifs) = n
    BY <1>1, <2>3, <2>4
  <2>6. \A i \in 1 .. r.base : ifs[i] = r.ifs[i]
    BY <1>1, <2>1
  <2> HIDE DEF ifs
  <2>7. OwnBlocksOnly(r, [r EXCEPT !.ifs = ifs])
    BY <1>1, <2>5, <2>6, IfsChange
  <2> QED
    BY Zenon, <2>1, <2>2, <2>7
<1> QED
  BY <1>2, <1>3

(* ENDIF ends a block of this file only (encounter_endif).                 *)
LEMMA EndifEnds ==
    ASSUME NEW r, Good(r)
    PROVE  OwnBlocksOnly(r, encounter_endif(r))
<1>1. r.ifs \in Seq(IfEntry) /\ r.base \in 0 .. Len(r.ifs) /\ Len(r.ifs) \in Nat /\ Len(r.ifs) <= IF_NEST
  BY DEF Good, Nested, Sizes
<1>2. CASE Len(r.ifs) <= r.base
  BY <1>2 DEF encounter_endif, OwnBlocksOnly
<1>3. CASE ~(Len(r.ifs) <= r.base)
  <2>1. /\ Front(r.ifs) \in Seq(IfEntry) /\ Len(Front(r.ifs)) = Len(r.ifs) - 1
        /\ \A i \in 1 .. r.base : Front(r.ifs)[i] = r.ifs[i]
    BY <1>1, <1>3 DEF Front
  <2>2. encounter_endif(r) = [r EXCEPT !.ifs = Front(r.ifs)]
    BY Zenon, <1>3 DEF encounter_endif
  <2> QED
    <3>1. r.base <= Len(Front(r.ifs)) /\ Len(Front(r.ifs)) <= IF_NEST
      BY <1>1, <1>3, <2>1, IfNestAssumption
    <3>2. OwnBlocksOnly(r, [r EXCEPT !.ifs = Front(r.ifs)])
      BY Zenon, <2>1, <3>1, IfsChange
    <3> QED
      BY Zenon, <2>2, <3>2
<1> QED
  BY <1>2, <1>3

(* RETURN (DoReturn).                                                      *)
LEMMA ReturnReturns ==
    ASSUME NEW r, Good(r)
    PROVE  OwnBlocksOnly(r, DoReturn(r))
<1>1. DoReturn(r) = [r EXCEPT !.ret = TRUE]
  BY Zenon DEF DoReturn
<1> QED
  <2>1. IsReader(r)
    BY DEF Good
  <2>2. Good([r EXCEPT !.ret = TRUE]) /\ [r EXCEPT !.ret = TRUE].stack = r.stack
    BY Zenon, <2>1, RetUpdate DEF Good
  <2> QED
    BY Zenon, <1>1, <2>2 DEF OwnBlocksOnly

(* At the end of a file its own blocks end (pop_excess_ifs).               *)
LEMMA ExcessPopped ==
    ASSUME NEW r, Good(r)
    PROVE  LET s == pop_excess_ifs(r)
           IN  Good(s) /\ s.stack = r.stack /\ s.base = r.base /\ s.ret = FALSE /\ Len(s.ifs) = r.base
<1> DEFINE ifs == IF Len(r.ifs) > r.base THEN SubSeq(r.ifs, 1, r.base) ELSE r.ifs
           s1  == [r EXCEPT !.ifs = ifs]
           s2  == [s1 EXCEPT !.ret = FALSE]
<1>1. r.ifs \in Seq(IfEntry) /\ r.base \in 0 .. Len(r.ifs) /\ Len(r.ifs) \in Nat /\ Len(r.ifs) <= IF_NEST
  BY DEF Good, Nested, Sizes
<1>2. pop_excess_ifs(r) = s2
  BY Zenon DEF pop_excess_ifs
<1>3. ifs \in Seq(IfEntry) /\ Len(ifs) = r.base /\ \A i \in 1 .. r.base : ifs[i] = r.ifs[i]
  BY <1>1
<1> HIDE DEF ifs
<1>4. Good(s1) /\ s1.stack = r.stack
  BY <1>1, <1>3, IfsChange, IfNestAssumption DEF OwnBlocksOnly
<1>5. s1.base = r.base /\ s1.ifs = ifs
  BY Zenon, IfsUpdate DEF Good
<1> HIDE DEF s1
<1>6. Good(s2) /\ s2.stack = r.stack /\ s2.base = r.base /\ s2.ifs = ifs /\ s2.ret = FALSE
  BY Zenon, <1>4, <1>5, RetUpdate DEF Good
<1> QED
  BY <1>2, <1>3, <1>6

-----------------------------------------------------------------------------
(* The files: PopFile, IncludeFile, IncludeCmd. *)

(* The chain of the innermost INCLUDE changes (PopFile).                   *)
LEMMA ChainUpdate ==
    ASSUME NEW r, Good(r), Len(r.stack) > 0, NEW chain
    PROVE  LET s == [r EXCEPT !.stack[Len(r.stack)].chain = chain]
           IN  /\ Good(s) /\ Len(s.stack) = Len(r.stack)
               /\ s.stack[Len(r.stack)].base = r.stack[Len(r.stack)].base
<1> DEFINE stack == [r.stack EXCEPT ![Len(r.stack)].chain = chain]
           s     == [r EXCEPT !.stack = stack]
<1>1. [r EXCEPT !.stack[Len(r.stack)].chain = chain] = s
  BY Zenon
<1>2. /\ Nested(stack, r.ifs, r.base) /\ Len(stack) = Len(r.stack)
      /\ stack[Len(r.stack)].base = r.stack[Len(r.stack)].base
  BY Zenon, Rechained DEF Good
<1> HIDE DEF stack
<1>3. IsReader(s) /\ s.stack = stack /\ s.ifs = r.ifs /\ s.base = r.base
  BY Zenon, StackUpdate DEF Good
<1> HIDE DEF s
<1>4. Good(s) /\ Len(s.stack) = Len(r.stack) /\ s.stack[Len(r.stack)].base = r.stack[Len(r.stack)].base
  BY Zenon, <1>2, <1>3 DEF Good
<1> QED
  BY Zenon, <1>1, <1>4

(* Back in the including file (ReturnTo).                                  *)
LEMMA Returned ==
    ASSUME NEW r, Good(r), Len(r.stack) > 1, NEW i, i.base = r.stack[Len(r.stack)].base
    PROVE  LET o == ReturnTo(r, i)
           IN  Good(o.rd) /\ Len(o.rd.stack) > 0 /\ o.what # "eof"
<1> DEFINE s1 == [r EXCEPT !.stack = Front(@)]
           s2 == [s1 EXCEPT !.file = i.file]
           s3 == [s2 EXCEPT !.pos = i.pos]
           s4 == [s3 EXCEPT !.base = i.base]
           s5 == [s4 EXCEPT !.src = i.src]
           s6 == [s5 EXCEPT !.notOwner = ~i.owned]
           back == [r EXCEPT !.stack = Front(@), !.file = i.file, !.pos = i.pos,
                             !.base = i.base, !.src = i.src, !.notOwner = ~i.owned]
           again  == [back EXCEPT !.notOwner = i.file \notin Trusted]
           closed == [back EXCEPT !.src = "none"]
<1>1. back = s6
  BY Zenon
<1>2. IsReader(s1) /\ s1.stack = Front(r.stack) /\ s1.ifs = r.ifs
  BY Zenon, StackUpdate DEF Good
<1>3. Nested(Front(r.stack), r.ifs, i.base) /\ Len(Front(r.stack)) > 0
  <2>1. r.stack \in Seq(Range(r.stack))
    BY DEF Good, Nested, Sizes
  <2>2. Len(Front(r.stack)) = Len(r.stack) - 1 /\ Len(r.stack) \in Nat
    BY <2>1 DEF Front
  <2>3. Nested(Front(r.stack), r.ifs, r.stack[Len(r.stack)].base)
    BY Left DEF Good
  <2> QED
    BY <2>2, <2>3
<1> HIDE DEF s1
<1>4. Beside(s1, s2)
  BY Zenon, <1>2, BesideItself, Updates
<1> HIDE DEF s2
<1>5. Beside(s1, s3)
  BY Zenon, <1>4, Updates
<1> HIDE DEF s3
<1>6. Good(s4) /\ Len(s4.stack) > 0 /\ Beside(s4, s4)
  <2>1. IsReader(s4) /\ s4.stack = s3.stack /\ s4.ifs = s3.ifs /\ s4.base = i.base
    <3>1. IsReader(s3)
      BY Zenon, <1>5 DEF Beside
    <3> QED
      BY Zenon, <3>1, BaseUpdate
  <2>2. s3.stack = Front(r.stack) /\ s3.ifs = r.ifs
    BY Zenon, <1>2, <1>5 DEF Beside
  <2> HIDE DEF s4
  <2>3. Nested(s4.stack, s4.ifs, s4.base) /\ Len(s4.stack) > 0
    BY Zenon, <1>3, <2>1, <2>2
  <2> QED
    BY Zenon, <2>1, <2>3 DEF Good, Beside
<1> HIDE DEF s4
<1>7. Beside(s4, s5)
  BY Zenon, <1>6, Updates
<1> HIDE DEF s5
<1>8. Beside(s4, back)
  BY Zenon, <1>1, <1>7, Updates
<1> HIDE DEF s6, back
<1>9. Beside(s4, again) /\ Beside(s4, closed)
  BY Zenon, <1>8, Updates
<1> HIDE DEF again, closed
<1>10. ReturnTo(r, i) \in {Outcome(back, "ok"), Outcome(again, "ok"), Outcome(closed, "cantopen")}
  <2>1. CASE i.src # "disk"
    BY Zenon, <2>1 DEF ReturnTo, back, again, closed
  <2>2. CASE i.src = "disk" /\ i.file \in present
    BY Zenon, <2>2 DEF ReturnTo, back, again, closed
  <2>3. CASE ~(i.src # "disk") /\ ~(i.src = "disk" /\ i.file \in present)
    BY Zenon, <2>3 DEF ReturnTo, back, again, closed
  <2> QED
    BY <2>1, <2>2, <2>3
<1>11. /\ Good(back) /\ back.stack = s4.stack
       /\ Good(again) /\ again.stack = s4.stack
       /\ Good(closed) /\ closed.stack = s4.stack
  BY Zenon, <1>6, <1>8, <1>9, BesideIsGood DEF Beside
<1>12. PICK s \in {back, again, closed} :
         ReturnTo(r, i) = Outcome(s, "ok") \/ ReturnTo(r, i) = Outcome(s, "cantopen")
  BY Zenon, <1>10
<1>13. ReturnTo(r, i).rd = s /\ ReturnTo(r, i).what # "eof"
  BY <1>12 DEF Outcome
<1>14. Good(s) /\ s.stack = s4.stack
  BY Zenon, <1>11, <1>12
<1> QED
  BY Zenon, <1>6, <1>13, <1>14

(* The end of a file (PopFile).                                            *)
LEMMA PopFileGood ==
    ASSUME NEW r0, Good(r0), Len(r0.stack) > 0
    PROVE  LET o == PopFile(r0)
           IN  /\ Good(o.rd)
               /\ o.what = "eof" => AtRest(o.rd)
               /\ o.what # "eof" => Len(o.rd.stack) > 0
               /\ Len(r0.stack) > 1 => Len(o.rd.stack) > 0
<1> DEFINE p == pop_excess_ifs(r0)
           r == [p EXCEPT !.src = "none"]
           i == Last(r.stack)
           k == FirstInChain(r, i.chain)
           emptied == [r EXCEPT !.stack[Len(r.stack)].chain = << >>]
           next    == [r EXCEPT !.stack[Len(r.stack)].chain = After(r.stack[Len(r.stack)].chain, k)]
           over    == [r EXCEPT !.stack = << >>]
           o       == PopFile(r0)
<1>1. Good(p) /\ p.stack = r0.stack /\ p.base = r0.base /\ p.ret = FALSE /\ Len(p.ifs) = r0.base
  BY ExcessPopped
<1> HIDE DEF p
<1>2. Beside(p, r)
  <2>1. Beside(p, p)
    BY Zenon, <1>1 DEF Good, Beside
  <2> QED
    BY Zenon, <2>1, Updates
<1>3. Good(r) /\ r.stack = r0.stack /\ r.base = r0.base /\ r.ret = FALSE /\ Len(r.ifs) = r0.base
  BY Zenon, <1>1, <1>2, BesideIsGood DEF Beside
<1> HIDE DEF r
<1>4. Len(r.stack) \in Nat /\ r.stack # << >> /\ i = r.stack[Len(r.stack)]
  <2>1. r.stack \in Seq(Range(r.stack))
    BY <1>3 DEF Good, Nested, Sizes
  <2> QED
    BY <1>3, <2>1 DEF Last
<1>5. \/ k # 0 /\ o = Outcome(OpenFile(next, i.chain[k]), "ok")
      \/ TopLevel(r) /\ o = Outcome(over, "eof")
      \/ ~TopLevel(r) /\ o = ReturnTo(emptied, i)
  BY Zenon, <1>4 DEF PopFile, r, p
<1> HIDE DEF i, k
<1>6. CASE o = Outcome(OpenFile(next, i.chain[k]), "ok")
  <2>1. Good(next) /\ Len(next.stack) = Len(r.stack)
    BY Zenon, <1>3, ChainUpdate
  <2> HIDE DEF next
  <2>2. Beside(next, OpenFile(next, i.chain[k]))
    <3>1. Beside(next, next)
      BY Zenon, <2>1, BesideItself DEF Good
    <3> QED
      BY Zenon, <3>1, OpenFileBeside
  <2>3. o.rd = OpenFile(next, i.chain[k]) /\ o.what = "ok"
    BY <1>6 DEF Outcome
  <2> HIDE DEF o
  <2>4. Good(o.rd) /\ o.rd.stack = next.stack
    BY Zenon, <2>1, <2>2, <2>3, BesideIsGood DEF Beside
  <2>5. Len(o.rd.stack) > 0
    BY Zenon, <1>3, <2>1, <2>4
  <2>6. o.what # "eof"
    BY <2>3
  <2> QED
    BY Zenon, <2>4, <2>5, <2>6 DEF o
<1>7. CASE TopLevel(r) /\ o = Outcome(over, "eof")
  <2>1. Len(r.stack) = 1
    <3> HIDE DEF next, emptied, over, o
    <3> DEFINE n == Len(r.stack)
    <3>1. n > 0 /\ n <= 1 /\ n \in Nat
      BY Zenon, <1>3, <1>4, <1>7 DEF TopLevel
    <3> HIDE DEF n
    <3>2. n = 1
      BY <3>1
    <3> QED
      BY Zenon, <3>2 DEF n
  <2>2. r.base = 0 /\ Len(r.ifs) = 0
    <3>1. Above(r.stack, r.base, 1) = Len(r.stack[1].saved) /\ Len(r.stack[1].saved) = 0
      BY <1>3, <2>1 DEF Good, Nested, Enclosed, Outermost
    <3> QED
      BY <1>3, <2>1, <3>1 DEF Above
  <2>3. Nested(<< >>, r.ifs, r.base)
    <3>1. Sizes(<< >>, r.ifs, r.base)
      BY <1>3, <2>1, IncludeAssumption DEF Good, Nested, Sizes
    <3>2. Enclosed(<< >>, r.ifs, r.base) /\ Outermost(<< >>, r.base)
      BY <2>2 DEF Enclosed, Outermost
    <3> QED
      BY <1>3, <3>1, <3>2 DEF Good, Nested
  <2>4. IsReader(over) /\ over.stack = << >> /\ over.ifs = r.ifs /\ over.base = r.base /\ over.ret = r.ret
    BY Zenon, <1>3, StackUpdate DEF Good
  <2> HIDE DEF over
  <2>5. Good(over)
    BY Zenon, <2>3, <2>4 DEF Good
  <2>6. AtRest(over)
    BY <1>3, <2>2, <2>4 DEF AtRest
  <2>7. o.rd = over /\ o.what = "eof"
    BY <1>7 DEF Outcome
  <2>8. ~(Len(r0.stack) > 1)
    BY <1>3, <2>1
  <2> HIDE DEF o
  <2> QED
    BY Zenon, <2>5, <2>6, <2>7, <2>8 DEF o
<1>8. CASE ~TopLevel(r) /\ o = ReturnTo(emptied, i)
  <2>1. Good(emptied) /\ Len(emptied.stack) = Len(r.stack) /\ emptied.stack[Len(r.stack)].base = i.base
    BY Zenon, <1>3, <1>4, ChainUpdate
  <2>2. Len(r.stack) > 1
    BY <1>4, <1>8 DEF TopLevel
  <2> HIDE DEF emptied
  <2>3. Len(emptied.stack) > 1 /\ i.base = emptied.stack[Len(emptied.stack)].base
    BY Zenon, <2>1, <2>2
  <2> HIDE DEF o
  <2>4. Good(o.rd) /\ Len(o.rd.stack) > 0 /\ o.what # "eof"
    BY Zenon, <1>8, <2>1, <2>3, Returned
  <2> QED
    BY Zenon, <2>4 DEF o
<1> QED
  BY Zenon, <1>5, <1>6, <1>7, <1>8

\* An INCLUDE may be executed here.
MayInclude(r) == AllExecuting(r.ifs, Len(r.ifs)) /\ (Len(r.stack) = 0 => Len(r.ifs) = 0)

(* The place in the including file is remembered (Enter).                  *)
LEMMA EnterGood ==
    ASSUME NEW r, Good(r), MayInclude(r), Len(r.stack) < INCLUDE_NEST, NEW owned, NEW chain
    PROVE  LET s == Enter(r, owned, chain)
           IN  Good(s) /\ Len(s.stack) = Len(r.stack) + 1
<1> DEFINE e  == [file |-> r.file, pos |-> r.pos, src |-> r.src, base |-> r.base,
                  owned |-> owned, chain |-> chain, saved |-> r.ifs]
           stack == Append(r.stack, e)
           base  == Len(r.ifs)
           s1 == [r EXCEPT !.stack = stack]
           s2 == [s1 EXCEPT !.base = base]
           s3 == [s2 EXCEPT !.src = "none"]
<1>1. Enter(r, owned, chain) = s3
  BY Zenon DEF Enter
<1>2. r.stack \in Seq(Range(r.stack)) /\ r.ifs \in Seq(IfEntry) /\ r.base \in Nat
  BY DEF Good, Nested, Sizes
<1>3. IsFrame(e) /\ e.base = r.base /\ e.saved = r.ifs
  BY <1>2 DEF IsFrame
<1> HIDE DEF e
<1>4. Nested(stack, r.ifs, base)
  BY <1>3, Entered DEF Good, MayInclude
<1>5. Len(stack) = Len(r.stack) + 1
  <2>1. r.stack \in Seq(Range(r.stack) \cup {e})
    BY <1>2
  <2> QED
    BY <2>1
<1> HIDE DEF stack, base
<1>6. IsReader(s1) /\ s1.stack = stack /\ s1.ifs = r.ifs
  BY Zenon, StackUpdate DEF Good
<1> HIDE DEF s1
<1>7. IsReader(s2) /\ s2.stack = stack /\ s2.ifs = r.ifs /\ s2.base = base
  BY ZenonT(30), <1>6, BaseUpdate
<1> HIDE DEF s2
<1>8. Good(s2) /\ Beside(s2, s2)
  BY Zenon, <1>4, <1>7 DEF Good, Beside
<1>9. Beside(s2, s3)
  BY Zenon, <1>8, Updates
<1> HIDE DEF s3
<1>10. Good(s3) /\ s3.stack = stack
  BY Zenon, <1>7, <1>8, <1>9, BesideIsGood DEF Beside
<1> QED
  BY Zenon, <1>1, <1>5, <1>10

\* What an INCLUDE comes to, if it is executed in r.
Included(r, o) ==
    /\ Good(o.rd)
    /\ o.what = "ok" => Len(o.rd.stack) > 0
    /\ Len(r.stack) > 0 => Len(o.rd.stack) > 0

(* The included file cannot be read (Failed).                              *)
LEMMA FailedGood ==
    ASSUME NEW r, Len(r.stack) \in Nat, NEW s, Good(s), Len(s.stack) = Len(r.stack) + 1
    PROVE  Included(r, Failed(s))
<1>1. Len(s.stack) > 0 /\ (Len(r.stack) > 0 => Len(s.stack) > 1)
  OBVIOUS
<1>2. Good(PopFile(s).rd) /\ (Len(r.stack) > 0 => Len(PopFile(s).rd.stack) > 0)
  BY Zenon, <1>1, PopFileGood
<1>3. Failed(s).rd = PopFile(s).rd /\ Failed(s).what # "ok"
  BY DEF Failed, Outcome
<1> QED
  BY Zenon, <1>2, <1>3 DEF Included

(* The included file is opened (OpenFile, FromCache).                      *)
LEMMA OpenedGood ==
    ASSUME NEW r, Len(r.stack) \in Nat, NEW s, Good(s), Len(s.stack) = Len(r.stack) + 1, NEW t, Beside(s, t)
    PROVE  Included(r, Outcome(t, "ok"))
<1>1. Len(s.stack) > 0
  OBVIOUS
<1>2. Good(t) /\ t.stack = s.stack
  BY Zenon, BesideIsGood DEF Beside
<1>3. Outcome(t, "ok").rd = t
  BY DEF Outcome
<1> QED
  BY Zenon, <1>1, <1>2, <1>3 DEF Included

(* There is no room for another file.                                      *)
LEMMA TooDeep ==
    ASSUME NEW r, Good(r), Len(r.stack) >= INCLUDE_NEST
    PROVE  Included(r, Outcome(r, "error"))
<1>1. Outcome(r, "error").rd = r /\ Outcome(r, "error").what # "ok"
  BY DEF Outcome
<1> QED
  BY Zenon, <1>1 DEF Included

(* INCLUDE of a file or a directory (IncludeFile).                         *)
LEMMA IncludeFileGood ==
    ASSUME NEW r, Good(r), MayInclude(r), NEW f
    PROVE  Included(r, IncludeFile(r, f))
<1>1. Len(r.stack) \in Nat /\ Beside(r, r)
  <2>1. r.stack \in Seq(Range(r.stack))
    BY DEF Good, Nested, Sizes
  <2> QED
    BY <2>1 DEF Good, Beside
<1>2. CASE Len(r.stack) >= INCLUDE_NEST
  BY Zenon, <1>2, TooDeep DEF IncludeFile
<1>3. CASE ~(Len(r.stack) >= INCLUDE_NEST) /\ f \in DOMAIN Dirs
  <2> DEFINE chain  == Glob(r, f)
             k      == FirstInChain(r, chain)
             setup  == SetupGlobChain(r, f)
             listed == [setup EXCEPT !.notOwner = f \notin Trusted]
             rest   == IF k = 0 THEN << >> ELSE After(chain, k)
             enter  == Enter(listed, ~r.notOwner, rest)
  <2>1. IncludeFile(r, f) = IF k = 0 THEN Failed(enter) ELSE Outcome(OpenFile(enter, chain[k]), "ok")
    BY Zenon, <1>3 DEF IncludeFile
  <2> HIDE DEF chain, k, rest
  <2>2. Beside(r, setup)
    BY Zenon, <1>1, Updates DEF SetupGlobChain
  <2> HIDE DEF setup
  <2>3. Beside(r, listed)
    BY Zenon, <2>2, Updates
  <2> HIDE DEF listed
  <2>4. Good(listed) /\ MayInclude(listed) /\ listed.stack = r.stack
    BY Zenon, <2>3, BesideIsGood DEF Beside, MayInclude
  <2>5. Len(listed.stack) < INCLUDE_NEST
    BY <1>1, <1>3, <2>4, IncludeAssumption
  <2>6. Good(enter) /\ Len(enter.stack) = Len(r.stack) + 1
    BY Zenon, <2>4, <2>5, EnterGood
  <2> HIDE DEF enter
  <2>7. Beside(enter, OpenFile(enter, chain[k]))
    <3>1. Beside(enter, enter)
      BY Zenon, <2>6, BesideItself DEF Good
    <3> QED
      BY Zenon, <3>1, OpenFileBeside
  <2> QED
    BY Zenon, <1>1, <2>1, <2>6, <2>7, FailedGood, OpenedGood
<1>4. CASE ~(Len(r.stack) >= INCLUDE_NEST) /\ f \notin DOMAIN Dirs
  <2> DEFINE enter == Enter(r, ~r.notOwner, << >>)
  <2>1. IncludeFile(r, f) = IF CanOpen(r, f) THEN Outcome(OpenFile(enter, f), "ok") ELSE Failed(enter)
    BY Zenon, <1>4 DEF IncludeFile
  <2>2. Len(r.stack) < INCLUDE_NEST
    BY <1>1, <1>4, IncludeAssumption
  <2>3. Good(enter) /\ Len(enter.stack) = Len(r.stack) + 1
    BY Zenon, <2>2, EnterGood
  <2> HIDE DEF enter
  <2>4. Beside(enter, OpenFile(enter, f))
    <3>1. Beside(enter, enter)
      BY Zenon, <2>3, BesideItself DEF Good
    <3> QED
      BY Zenon, <3>1, OpenFileBeside
  <2> QED
    BY Zenon, <1>1, <2>1, <2>3, <2>4, FailedGood, OpenedGood
<1> QED
  BY Zenon, <1>2, <1>3, <1>4

(* INCLUDECMD (IncludeCmd).                                                *)
LEMMA IncludeCmdGood ==
    ASSUME NEW r, Good(r), MayInclude(r), NEW c
    PROVE  Included(r, IncludeCmd(r, c))
<1> DEFINE inside == Enter(r, TRUE, << >>)
           told   == [inside EXCEPT !.notOwner = @ \/ c \in Bang]
           filled == CacheFile(told, c, ~told.notOwner)
           long   == [told EXCEPT !.should = FALSE]
<1>1. \/ Len(r.stack) >= INCLUDE_NEST /\ IncludeCmd(r, c) = Outcome(r, "error")
      \/ /\ ~(Len(r.stack) >= INCLUDE_NEST)
         /\ \/ IncludeCmd(r, c) = Outcome(FromCache(inside, c), "ok")
            \/ IncludeCmd(r, c) = Outcome(FromCache(filled, c), "ok")
            \/ IncludeCmd(r, c) = Failed(long)
  BY Zenon DEF IncludeCmd
<1>2. CASE Len(r.stack) >= INCLUDE_NEST /\ IncludeCmd(r, c) = Outcome(r, "error")
  BY Zenon, <1>2, TooDeep
<1>3. CASE ~(Len(r.stack) >= INCLUDE_NEST)
  <2>1. Len(r.stack) \in Nat
    <3>1. r.stack \in Seq(Range(r.stack))
      BY DEF Good, Nested, Sizes
    <3> QED
      BY <3>1
  <2>2. Len(r.stack) < INCLUDE_NEST
    BY <1>3, <2>1, IncludeAssumption
  <2>3. Good(inside) /\ Len(inside.stack) = Len(r.stack) + 1
    BY Zenon, <2>2, EnterGood
  <2> HIDE DEF inside
  <2>4. Beside(inside, inside)
    BY Zenon, <2>3 DEF Good, Beside
  <2>5. Beside(inside, told)
    BY Zenon, <2>4, Updates
  <2> HIDE DEF told
  <2>6. Beside(inside, filled) /\ Beside(inside, long)
    BY Zenon, <2>5, Updates DEF CacheFile
  <2> HIDE DEF filled, long
  <2>7. Beside(inside, FromCache(inside, c)) /\ Beside(inside, FromCache(filled, c))
    BY Zenon, <2>4, <2>6, FromCacheBeside
  <2>8. Good(long) /\ Len(long.stack) = Len(r.stack) + 1
    BY Zenon, <2>3, <2>6, BesideIsGood DEF Beside
  <2>9. /\ Included(r, Outcome(FromCache(inside, c), "ok")) /\ Included(r, Outcome(FromCache(filled, c), "ok"))
        /\ Included(r, Failed(long))
    BY Zenon, <2>1, <2>3, <2>7, <2>8, FailedGood, OpenedGood
  <2> QED
    BY Zenon, <1>1, <1>3, <2>9
<1> QED
  BY Zenon, <1>1, <1>2, <1>3

-----------------------------------------------------------------------------
(* The theorem. *)

(* No file is read at first (Init).                                        *)
LEMMA InitNestInv == Init => NestInv
<1> SUFFICES ASSUME Init PROVE NestInv
  OBVIOUS
<1>1. IsReader(rd) /\ rd.stack = << >> /\ rd.ifs = << >> /\ rd.base = 0 /\ rd.ret = FALSE
  BY DEF Init, NotReading, IsReader
<1>2. Nested(<< >>, << >>, 0)
  <2>1. Sizes(<< >>, << >>, 0)
    BY IncludeAssumption, IfNestAssumption DEF Sizes
  <2> QED
    BY <2>1 DEF Nested, Enclosed, Outermost, AllExecuting
<1>3. AtRest(rd)
  BY <1>1 DEF AtRest
<1>4. pc = "start"
  BY DEF Init
<1> QED
  BY <1>1, <1>2, <1>3, <1>4 DEF NestInv, Good

(* A line is read: only the place in the file changes (Advanced).          *)
LEMMA LineRead ==
    ASSUME NestInv, NEW op, NEW r, Reads(op, r)
    PROVE  Good(r) /\ r.stack = rd.stack /\ r.ifs = rd.ifs /\ r.base = rd.base /\ Len(rd.stack) > 0
<1>1. pc = "read" /\ r \in Advanced
  BY DEF Reads
<1>2. PICK s : r = [rd EXCEPT !.pos = @ + 1, !.src = s]
  BY Zenon, <1>1 DEF Advanced
<1> DEFINE r1 == [rd EXCEPT !.pos = @ + 1]
           r2 == [r1 EXCEPT !.src = s]
<1>3. r = r2
  BY Zenon, <1>2
<1>4. Beside(rd, r1)
  <2>1. Beside(rd, rd)
    BY Zenon, BesideItself DEF NestInv, Good
  <2> QED
    BY Zenon, <2>1, Updates
<1> HIDE DEF r1
<1>5. Beside(rd, r2)
  BY Zenon, <1>4, Updates
<1> QED
  BY Zenon, <1>1, <1>3, <1>5, BesideIsGood DEF NestInv, Beside

(* The commands of ifelse.c (Block).                                       *)
LEMMA BlockPreserves == ASSUME NestInv, Block PROVE NestInv'
<1>1. PICK r \in Advanced :
        \/ Reads("if", r)     /\ rd' = DoIf(r, Line.arg)
        \/ Reads("iftrig", r) /\ rd' = DoIfTrig(r, Line.arg)
        \/ Reads("else", r)   /\ rd' = encounter_else(r)
        \/ Reads("endif", r)  /\ rd' = encounter_endif(r)
  BY Zenon DEF Block
<1>2. Good(r) /\ r.stack = rd.stack /\ Len(rd.stack) > 0 /\ pc = "read"
  BY Zenon, <1>1, LineRead DEF Reads
<1>3. OwnBlocksOnly(r, rd')
  BY Zenon, <1>1, <1>2, IfOpens, ElseTurns, EndifEnds
<1>4. pc' = pc
  BY Zenon DEF Block
<1> QED
  BY <1>2, <1>3, <1>4 DEF NestInv, OwnBlocksOnly

(* A line is executed: all the blocks around it are (should_ignore_line).  *)
LEMMA IncludeExecuted ==
    ASSUME NestInv, NEW op, NEW r, Executes(op, r)
    PROVE  Good(r) /\ MayInclude(r) /\ Len(r.stack) > 0 /\ pc = "read"
<1>1. /\ Good(r) /\ r.stack = rd.stack /\ r.ifs = rd.ifs /\ r.base = rd.base /\ Len(rd.stack) > 0
      /\ pc = "read" /\ ~should_ignore_line(rd)
  BY Zenon, LineRead DEF Executes, Reads
<1>2. \A i \in rd.base + 1 .. Len(rd.ifs) : Executing(rd.ifs[i])
  BY Zenon, <1>1 DEF should_ignore_line
<1>3. \A i \in 1 .. rd.base : Executing(rd.ifs[i])
  BY DEF NestInv, Good, Nested, AllExecuting
<1>4. rd.base \in Nat /\ Len(rd.ifs) \in Nat
  BY DEF NestInv, Good, Nested, Sizes
<1>5. \A i \in 1 .. Len(rd.ifs) : i \in 1 .. rd.base \/ i \in rd.base + 1 .. Len(rd.ifs)
  BY <1>4
<1>6. AllExecuting(rd.ifs, Len(rd.ifs))
  BY Zenon, <1>2, <1>3, <1>5 DEF AllExecuting
<1>7. Len(r.stack) > 0 /\ Len(r.stack) # 0
  BY <1>1
<1> QED
  BY Zenon, <1>1, <1>6, <1>7 DEF MayInclude

(* INCLUDE and INCLUDECMD (Include).                                       *)
LEMMA IncludePreserves == ASSUME NestInv, Include PROVE NestInv'
<1>1. PICK r \in Advanced :
        \/ Executes("include", r) /\ rd' = IncludeFile(r, Line.arg).rd
        \/ Executes("includecmd", r) /\ rd' = IF RunDisabled THEN r ELSE IncludeCmd(r, Line.arg).rd
  BY Zenon DEF Include
<1>2. Good(r) /\ MayInclude(r) /\ Len(r.stack) > 0 /\ pc = "read"
  BY Zenon, <1>1, IncludeExecuted
<1>3. Good(rd') /\ Len(rd'.stack) > 0
  BY Zenon, <1>1, <1>2, IncludeFileGood, IncludeCmdGood DEF Included
<1>4. pc' = pc
  BY Zenon DEF Include
<1> QED
  BY <1>2, <1>3, <1>4 DEF NestInv

(* A pass begins (StartPass).                                              *)
LEMMA StartPassPreserves == ASSUME NestInv, StartPass PROVE NestInv'
<1> DEFINE o == IncludeFile(rd, InitialFile)
<1>1. rd' = o.rd /\ pc' = IF o.what = "ok" THEN "read" ELSE "failed"
  BY Zenon DEF StartPass
<1>2. Good(rd) /\ AtRest(rd)
  BY DEF NestInv, StartPass
<1>3. MayInclude(rd)
  BY <1>2 DEF AtRest, MayInclude, AllExecuting
<1>4. Included(rd, o)
  BY Zenon, <1>2, <1>3, IncludeFileGood
<1> HIDE DEF o
<1>5. Good(rd') /\ (o.what = "ok" => Len(rd'.stack) > 0)
  BY Zenon, <1>1, <1>4 DEF Included
<1> QED
  BY <1>1, <1>5 DEF NestInv

(* What the end of a file comes to (PopFile).                              *)
LEMMA PopOutcomes == ASSUME NEW r PROVE PopFile(r).what \in {"ok", "cantopen", "eof"}
<1>1. \A s, i : ReturnTo(s, i).what \in {"ok", "cantopen"}
  <2> SUFFICES ASSUME NEW s, NEW i PROVE ReturnTo(s, i).what \in {"ok", "cantopen"}
    OBVIOUS
  <2>1. \E t : ReturnTo(s, i) = Outcome(t, "ok") \/ ReturnTo(s, i) = Outcome(t, "cantopen")
    <3>1. CASE i.src # "disk"
      BY Zenon, <3>1 DEF ReturnTo
    <3>2. CASE i.src = "disk" /\ i.file \in present
      BY Zenon, <3>2 DEF ReturnTo
    <3>3. CASE ~(i.src # "disk") /\ ~(i.src = "disk" /\ i.file \in present)
      BY Zenon, <3>3 DEF ReturnTo
    <3> QED
      BY <3>1, <3>2, <3>3
  <2> QED
    BY <2>1 DEF Outcome
<1>2. \/ \E s : PopFile(r) = Outcome(s, "ok") \/ PopFile(r) = Outcome(s, "eof")
      \/ \E s, i : PopFile(r) = ReturnTo(s, i)
  BY Zenon DEF PopFile
<1>3. \A s, what : Outcome(s, what).what = what
  BY DEF Outcome
<1> QED
  BY ZenonT(30), <1>1, <1>2, <1>3

(* The end of a file (EndOfFile).                                          *)
LEMMA EndOfFilePreserves == ASSUME NestInv, EndOfFile PROVE NestInv'
<1> DEFINE o == PopFile(rd)
<1>1. /\ rd' = o.rd
      /\ pc' = CASE o.what = "ok"       -> "read"
                 [] o.what = "cantopen" -> "failed"
                 [] o.what = "eof"      -> IF pass < Passes THEN "start" ELSE "done"
  BY Zenon DEF EndOfFile
<1>2. Good(rd) /\ Len(rd.stack) > 0
  BY Zenon DEF NestInv, EndOfFile
<1>3. Good(o.rd) /\ (o.what = "eof" => AtRest(o.rd)) /\ (o.what # "eof" => Len(o.rd.stack) > 0)
  BY Zenon, <1>2, PopFileGood
<1>4. o.what \in {"ok", "cantopen", "eof"}
  BY PopOutcomes
<1> HIDE DEF o
<1>5. AtRest(o.rd) = AtRest(rd')
  BY Zenon, <1>1
<1>6. (pc' = "start" => o.what = "eof") /\ (pc' = "read" => o.what # "eof")
  BY <1>1, <1>4
<1> QED
  BY Zenon, <1>1, <1>3, <1>5, <1>6 DEF NestInv, AtRest

(* Every other step reads a line, or none, and leaves the stacks alone.    *)
LEMMA NextNestInv == ASSUME NestInv, [Next]_vars PROVE NestInv'
<1>1. CASE StartPass
  BY <1>1, StartPassPreserves
<1>2. CASE EndOfFile
  BY <1>2, EndOfFilePreserves
<1>3. CASE ReadPastEnd
  <2>1. Beside(rd, rd') /\ pc' = pc
    <3>1. Beside(rd, rd)
      BY Zenon, BesideItself DEF NestInv, Good
    <3> QED
      BY Zenon, <1>3, <3>1, Updates DEF ReadPastEnd
  <2>2. Good(rd') /\ rd'.stack = rd.stack /\ rd'.ifs = rd.ifs /\ rd'.ret = rd.ret
    BY Zenon, <2>1, BesideIsGood DEF NestInv, Beside
  <2> QED
    BY <2>1, <2>2 DEF NestInv, AtRest
<1>4. CASE Block
  BY <1>4, BlockPreserves
<1>5. CASE Include
  BY <1>5, IncludePreserves
<1>6. ASSUME NEW op, NEW r, Reads(op, r), rd' = r \/ rd' = DoReturn(r), pc' \in {pc, "done"} PROVE NestInv'
  <2>1. Good(r) /\ r.stack = rd.stack /\ Len(rd.stack) > 0 /\ pc = "read"
    BY Zenon, <1>6, LineRead DEF Reads
  <2>2. Good(rd') /\ rd'.stack = r.stack
    BY Zenon, <1>6, <2>1, ReturnReturns DEF OwnBlocksOnly
  <2> QED
    BY <1>6, <2>1, <2>2 DEF NestInv
<1>7. CASE Ignore
  BY Zenon, <1>6, <1>7 DEF Ignore
<1>8. CASE Return
  BY Zenon, <1>6, <1>8 DEF Return, Executes
<1>9. CASE Run
  BY Zenon, <1>6, <1>9 DEF Run, Executes
<1>10. CASE Rem
  BY Zenon, <1>6, <1>10 DEF Rem, Executes
<1>11. CASE Exit
  BY Zenon, <1>6, <1>11 DEF Exit, Executes
<1>12. CASE UNCHANGED <<rd, pc>>
  BY Zenon, <1>12 DEF NestInv, AtRest
<1> QED
  BY Zenon, <1>1, <1>2, <1>3, <1>4, <1>5, <1>7, <1>8, <1>9, <1>10, <1>11, <1>12
  DEF Next, Step, Vanish, Stopped, vars

(* The blocks of an including file are as they were, whatever an included  *)
(* file does with IF, ELSE, ENDIF and RETURN (ifelse.c), and a pass leaves *)
(* nothing behind for the next.                                            *)
THEOREM BlocksKept == Spec => []EnclosingBlocksUntouched
<1>1. NestInv => EnclosingBlocksUntouched
  <2> SUFFICES ASSUME NestInv PROVE EnclosingBlocksUntouched
    OBVIOUS
  <2>1. /\ rd.stack \in Seq(Range(rd.stack)) /\ rd.ifs \in Seq(IfEntry) /\ rd.base \in 0 .. Len(rd.ifs)
        /\ Len(rd.stack) <= INCLUDE_NEST /\ Len(rd.ifs) <= IF_NEST
    BY DEF NestInv, Good, Nested, Sizes
  <2>2. Frames = 1 .. Len(rd.stack) /\ Len(rd.stack) \in Nat /\ Len(rd.ifs) \in Nat
    BY <2>1 DEF Frames
  <2>3. ASSUME NEW k \in Frames
        PROVE  /\ Above(rd.stack, rd.base, k) = Len(rd.stack[k].saved)
               /\ Above(rd.stack, rd.base, k) <= Len(rd.ifs)
               /\ SubSeq(rd.ifs, 1, Above(rd.stack, rd.base, k)) = rd.stack[k].saved
    <3> DEFINE saved == rd.stack[k].saved
    <3>1. /\ Above(rd.stack, rd.base, k) = Len(saved) /\ Len(saved) <= rd.base
          /\ \A i \in 1 .. Len(saved) : rd.ifs[i] = saved[i]
      BY <2>2 DEF NestInv, Good, Nested, Enclosed
    <3>2. saved \in Seq(IfEntry)
      BY <2>2 DEF NestInv, Good, Nested, Sizes, IsFrame
    <3> HIDE DEF saved
    <3>3. Len(saved) \in Nat /\ Len(saved) <= Len(rd.ifs)
      BY <2>1, <2>2, <3>1, <3>2
    <3>4. SubSeq(rd.ifs, 1, Len(saved)) = saved
      <4> DEFINE t == SubSeq(rd.ifs, 1, Len(saved))
      <4>1. t \in Seq(IfEntry) /\ Len(t) = Len(saved) /\ \A i \in 1 .. Len(saved) : t[i] = saved[i]
        BY <2>1, <3>1, <3>2, <3>3
      <4> HIDE DEF t
      <4>2. t = saved
        BY <3>2, <4>1, SeqEqual
      <4> QED
        BY <4>2 DEF t
    <3> QED
      BY Zenon, <3>1, <3>3, <3>4 DEF saved
  <2>4. pc = "start" => Frames = {} /\ rd.ifs = << >> /\ rd.base = 0 /\ ~rd.ret
    <3> SUFFICES ASSUME pc = "start" PROVE Frames = {} /\ rd.ifs = << >> /\ rd.base = 0 /\ ~rd.ret
      OBVIOUS
    <3>1. Len(rd.stack) = 0 /\ Len(rd.ifs) = 0 /\ ~rd.ret
      BY DEF NestInv, AtRest
    <3> QED
      BY <2>1, <2>2, <3>1
  <2> QED
    BY Zenon, <2>1, <2>3, <2>4 DEF EnclosingBlocksUntouched, Above
<1> QED
  BY <1>1, InitNestInv, NextNestInv, PTL DEF Spec

(* A file is included from a part that is executed, and stays so: the      *)
(* test of should_ignore_line need not look below the base pointer.        *)
THEOREM ExecutedWhereIncluded == Spec => []IncludedWhereExecuted
<1>1. NestInv => IncludedWhereExecuted
  BY DEF NestInv, Good, Nested, AllExecuting, IncludedWhereExecuted
<1> QED
  BY <1>1, InitNestInv, NextNestInv, PTL DEF Spec

-----------------------------------------------------------------------------
(* RUN is enabled in the lines of a file as its owner demands: the         *)
(* inductive invariant.                                                    *)

Sources == Files \cup Cmds

\* RUN is disabled in the lines of f.
Disabled(f) == IF f \in Cmds THEN f \in Bang ELSE f \notin Trusted

\* The cache remembers who owns a file, and a directory's chain names files.
RightCache(cache) == DOMAIN cache \subseteq Sources /\ \A f \in DOMAIN cache : cache[f] = ~Disabled(f)
RightListing(listing) == \A d \in DOMAIN listing : listing[d] \in Seq(Files)

\* A place in a file that lines are read from.
RightPlace(file, src, pos) ==
    /\ src \in {"none", "disk", "cache"}
    /\ src # "none" => file \in Sources /\ pos \in Nat
    /\ src = "disk" => file \notin Cmds

\* Each entry of the include stack knows the owner of the file it returns to.
RightFrame(e) == RightPlace(e.file, e.src, e.pos) /\ (e.src # "none" => e.owned = ~Disabled(e.file))
RightStack(stack) ==
    \A k \in 1 .. Len(stack) : stack[k].chain \in Seq(Files) /\ RightFrame(stack[k])

\* What the reader has kept of the files it read.
Remembered(r) == RightCache(r.cache) /\ RightListing(r.listing) /\ RightStack(r.stack)

Owned(r) == /\ Remembered(r) /\ RightPlace(r.file, r.src, r.pos)
            /\ r.src # "none" => r.notOwner = Disabled(r.file)

OwnerInv == Owned(rd) /\ text \in Texts /\ present \subseteq Files

-----------------------------------------------------------------------------
(* Fields of the reader. *)

\* s is a reader with these fields.
Is(s, file, src, pos, notOwner, stack, cache, listing) ==
    /\ IsReader(s)
    /\ s.file = file /\ s.src = src /\ s.pos = pos /\ s.notOwner = notOwner
    /\ s.stack = stack /\ s.cache = cache /\ s.listing = listing

(* Updates, one field at a time.                                           *)
LEMMA FieldUpdates ==
    ASSUME NEW s, NEW file, NEW src, NEW pos, NEW notOwner, NEW stack, NEW cache, NEW listing,
           Is(s, file, src, pos, notOwner, stack, cache, listing), NEW x
    PROVE  /\ Is([s EXCEPT !.file = x], x, src, pos, notOwner, stack, cache, listing)
           /\ Is([s EXCEPT !.src = x], file, x, pos, notOwner, stack, cache, listing)
           /\ Is([s EXCEPT !.pos = x], file, src, x, notOwner, stack, cache, listing)
           /\ Is([s EXCEPT !.notOwner = x], file, src, pos, x, stack, cache, listing)
           /\ Is([s EXCEPT !.stack = x], file, src, pos, notOwner, x, cache, listing)
           /\ Is([s EXCEPT !.cache = x], file, src, pos, notOwner, stack, x, listing)
           /\ Is([s EXCEPT !.listing = x], file, src, pos, notOwner, stack, cache, x)
<1>1. Is([s EXCEPT !.file = x], x, src, pos, notOwner, stack, cache, listing)
  BY DEF IsReader, Is
<1>2. Is([s EXCEPT !.src = x], file, x, pos, notOwner, stack, cache, listing)
  BY DEF IsReader, Is
<1>3. Is([s EXCEPT !.pos = x], file, src, x, notOwner, stack, cache, listing)
  BY DEF IsReader, Is
<1>4. Is([s EXCEPT !.notOwner = x], file, src, pos, x, stack, cache, listing)
  BY DEF IsReader, Is
<1>5. Is([s EXCEPT !.stack = x], file, src, pos, notOwner, x, cache, listing)
  BY DEF IsReader, Is
<1>6. Is([s EXCEPT !.cache = x], file, src, pos, notOwner, stack, x, listing)
  BY DEF IsReader, Is
<1>7. Is([s EXCEPT !.listing = x], file, src, pos, notOwner, stack, cache, x)
  BY DEF IsReader, Is
<1> QED
  BY Zenon, <1>1, <1>2, <1>3, <1>4, <1>5, <1>6, <1>7

(* The other fields do not matter.                                         *)
LEMMA OtherUpdates ==
    ASSUME NEW s, NEW file, NEW src, NEW pos, NEW notOwner, NEW stack, NEW cache, NEW listing,
           Is(s, file, src, pos, notOwner, stack, cache, listing), NEW x
    PROVE  /\ Is([s EXCEPT !.should = x], file, src, pos, notOwner, stack, cache, listing)
           /\ Is([s EXCEPT !.ifs = x], file, src, pos, notOwner, stack, cache, listing)
           /\ Is([s EXCEPT !.base = x], file, src, pos, notOwner, stack, cache, listing)
           /\ Is([s EXCEPT !.ret = x], file, src, pos, notOwner, stack, cache, listing)
<1>1. Is([s EXCEPT !.should = x], file, src, pos, notOwner, stack, cache, listing)
  BY DEF IsReader, Is
<1>2. Is([s EXCEPT !.ifs = x], file, src, pos, notOwner, stack, cache, listing)
  BY DEF IsReader, Is
<1>3. Is([s EXCEPT !.base = x], file, src, pos, notOwner, stack, cache, listing)
  BY DEF IsReader, Is
<1>4. Is([s EXCEPT !.ret = x], file, src, pos, notOwner, stack, cache, listing)
  BY DEF IsReader, Is
<1> QED
  BY Zenon, <1>1, <1>2, <1>3, <1>4

(* A reader has its own fields.                                            *)
LEMMA IsItself ==
    ASSUME NEW s, IsReader(s)
    PROVE  Is(s, s.file, s.src, s.pos, s.notOwner, s.stack, s.cache, s.listing)
BY DEF Is

\* s is r but for the blocks.
SamePlace(r, s) == Is(s, r.file, r.src, r.pos, r.notOwner, r.stack, r.cache, r.listing)

(* The commands of ifelse.c, and the end of a file in it, change nothing   *)
(* else.                                                                   *)
LEMMA BlocksElsewhere ==
    ASSUME NEW r, IsReader(r), NEW cond
    PROVE  /\ SamePlace(r, DoIf(r, cond)) /\ SamePlace(r, DoIfTrig(r, cond))
           /\ SamePlace(r, encounter_else(r)) /\ SamePlace(r, encounter_endif(r))
           /\ SamePlace(r, DoReturn(r)) /\ SamePlace(r, pop_excess_ifs(r))
<1>1. SamePlace(r, r)
  BY Zenon, IsItself DEF SamePlace
<1>2. ASSUME NEW x PROVE SamePlace(r, [r EXCEPT !.ifs = x]) /\ SamePlace(r, [r EXCEPT !.ret = x])
  BY Zenon, <1>1, OtherUpdates DEF SamePlace
<1>3. ASSUME NEW b PROVE SamePlace(r, push_if(r, b))
  BY Zenon, <1>1, <1>2 DEF push_if
<1>4. SamePlace(r, DoIf(r, cond)) /\ SamePlace(r, DoIfTrig(r, cond))
  BY Zenon, <1>1, <1>3 DEF DoIf, DoIfTrig
<1>5. SamePlace(r, encounter_else(r))
  <2> DEFINE ifs == [r.ifs EXCEPT ![Len(r.ifs)].before_else = FALSE]
  <2>1. encounter_else(r) = r \/ encounter_else(r) = [r EXCEPT !.ifs = ifs]
    BY Zenon DEF encounter_else
  <2> QED
    BY Zenon, <1>1, <1>2, <2>1
<1>6. SamePlace(r, encounter_endif(r)) /\ SamePlace(r, DoReturn(r))
  BY Zenon, <1>1, <1>2 DEF encounter_endif, DoReturn
<1>7. SamePlace(r, pop_excess_ifs(r))
  <2> DEFINE ifs == IF Len(r.ifs) > r.base THEN SubSeq(r.ifs, 1, r.base) ELSE r.ifs
             s == [r EXCEPT !.ifs = ifs]
  <2>1. pop_excess_ifs(r) = [s EXCEPT !.ret = FALSE]
    BY Zenon DEF pop_excess_ifs
  <2> HIDE DEF ifs
  <2>2. SamePlace(r, s)
    BY Zenon, <1>2
  <2> HIDE DEF s
  <2>3. SamePlace(r, [s EXCEPT !.ret = FALSE])
    BY Zenon, <2>2, OtherUpdates DEF SamePlace
  <2> QED
    BY Zenon, <2>1, <2>3
<1> QED
  BY Zenon, <1>4, <1>5, <1>6, <1>7

-----------------------------------------------------------------------------
(* Files are opened. *)

(* A cached file is opened (FromCache): the cache knows its owner.         *)
LEMMA CachedOpened ==
    ASSUME NEW s, IsReader(s), Remembered(s), NEW f \in DOMAIN s.cache
    PROVE  Owned(FromCache(s, f))
<1> DEFINE src   == IF text[f] = << >> THEN "none" ELSE "cache"
           other == ~s.cache[f]
           s1    == [s EXCEPT !.file = f]
           s2    == [s1 EXCEPT !.pos = 0]
           s3    == [s2 EXCEPT !.src = src]
           s4    == [s3 EXCEPT !.notOwner = other]
<1>1. FromCache(s, f) = s4
  BY Zenon DEF FromCache
<1>2. f \in Sources /\ other = Disabled(f)
  <2>1. f \in Sources /\ s.cache[f] = ~Disabled(f)
    BY Zenon DEF Remembered, RightCache
  <2>2. Disabled(f) \in BOOLEAN
    <3>1. (f \in Bang) \in BOOLEAN /\ (f \notin Trusted) \in BOOLEAN
      OBVIOUS
    <3> QED
      BY Zenon, <3>1 DEF Disabled
  <2> QED
    BY <2>1, <2>2
<1>3. src \in {"none", "cache"}
  OBVIOUS
<1> HIDE DEF src, other
<1>4. Is(s1, f, s.src, s.pos, s.notOwner, s.stack, s.cache, s.listing)
  BY Zenon, IsItself, FieldUpdates
<1> HIDE DEF s1
<1>5. Is(s2, f, s.src, 0, s.notOwner, s.stack, s.cache, s.listing)
  BY Zenon, <1>4, FieldUpdates
<1> HIDE DEF s2
<1>6. Is(s3, f, src, 0, s.notOwner, s.stack, s.cache, s.listing)
  BY Zenon, <1>5, FieldUpdates
<1> HIDE DEF s3
<1>7. Is(s4, f, src, 0, other, s.stack, s.cache, s.listing)
  BY Zenon, <1>6, FieldUpdates
<1> HIDE DEF s4
<1>8. RightPlace(f, src, 0)
  BY <1>2, <1>3 DEF RightPlace
<1>9. Owned(s4)
  BY Zenon, <1>2, <1>7, <1>8 DEF Is, Owned, Remembered
<1> QED
  BY Zenon, <1>1, <1>9

(* A file, or what a command prints, is put in the cache (CacheFile).      *)
LEMMA CacheFilled ==
    ASSUME NEW s, IsReader(s), Remembered(s), NEW f \in Sources, NEW owned, owned = ~Disabled(f)
    PROVE  LET t == CacheFile(s, f, owned)
           IN  IsReader(t) /\ Remembered(t) /\ f \in DOMAIN t.cache
<1> DEFINE cache == Put(s.cache, f, owned)
           t     == [s EXCEPT !.cache = cache]
<1>1. CacheFile(s, f, owned) = t
  BY Zenon DEF CacheFile
<1>2. DOMAIN cache = {f} \cup DOMAIN s.cache
  BY DEF Put
<1>3. ASSUME NEW g \in DOMAIN cache PROVE cache[g] = ~Disabled(g)
  <2>1. CASE g = f
    BY <2>1, <1>2 DEF Put
  <2>2. CASE g # f
    <3>1. g \in DOMAIN s.cache /\ cache[g] = s.cache[g]
      BY <1>2, <2>2 DEF Put
    <3> QED
      BY Zenon, <3>1 DEF Remembered, RightCache
  <2> QED
    BY <2>1, <2>2
<1> HIDE DEF cache
<1>4. RightCache(cache) /\ f \in DOMAIN cache
  BY <1>2, <1>3 DEF Remembered, RightCache
<1>5. Is(t, s.file, s.src, s.pos, s.notOwner, s.stack, cache, s.listing)
  BY Zenon, IsItself, FieldUpdates
<1> QED
  BY Zenon, <1>1, <1>4, <1>5 DEF Is, Remembered

(* A file is opened (OpenFile): RUN is enabled as its owner demands.       *)
LEMMA FileOpened ==
    ASSUME NEW s, IsReader(s), Remembered(s), NEW f \in Files
    PROVE  Owned(OpenFile(s, f))
<1> DEFINE owned  == f \in Trusted
           cached == CacheFile(s, f, owned)
           other  == ~owned
           s1     == [s EXCEPT !.file = f]
           s2     == [s1 EXCEPT !.pos = 0]
           s3     == [s2 EXCEPT !.src = "disk"]
           s4     == [s3 EXCEPT !.should = FALSE]
           s5     == [s4 EXCEPT !.notOwner = other]
<1>1. \/ f \in DOMAIN s.cache /\ OpenFile(s, f) = FromCache(s, f)
      \/ OpenFile(s, f) = FromCache(cached, f)
      \/ OpenFile(s, f) = s5
  BY Zenon DEF OpenFile
<1>2. f \in Sources /\ f \notin Cmds /\ owned = ~Disabled(f) /\ other = Disabled(f)
  BY TextAssumption DEF Sources, Disabled
<1> HIDE DEF owned, other
<1>3. IsReader(cached) /\ Remembered(cached) /\ f \in DOMAIN cached.cache
  BY Zenon, <1>2, CacheFilled
<1> HIDE DEF cached
<1>4. Is(s1, f, s.src, s.pos, s.notOwner, s.stack, s.cache, s.listing)
  BY Zenon, IsItself, FieldUpdates
<1> HIDE DEF s1
<1>5. Is(s2, f, s.src, 0, s.notOwner, s.stack, s.cache, s.listing)
  BY Zenon, <1>4, FieldUpdates
<1> HIDE DEF s2
<1>6. Is(s3, f, "disk", 0, s.notOwner, s.stack, s.cache, s.listing)
  BY Zenon, <1>5, FieldUpdates
<1> HIDE DEF s3
<1>7. Is(s4, f, "disk", 0, s.notOwner, s.stack, s.cache, s.listing)
  BY Zenon, <1>6, OtherUpdates
<1> HIDE DEF s4
<1>8. Is(s5, f, "disk", 0, other, s.stack, s.cache, s.listing)
  BY Zenon, <1>7, FieldUpdates
<1> HIDE DEF s5
<1>9. RightPlace(f, "disk", 0)
  BY <1>2 DEF RightPlace
<1>10. Owned(s5)
  BY Zenon, <1>2, <1>8, <1>9 DEF Is, Owned, Remembered
<1> QED
  BY Zenon, <1>1, <1>3, <1>10, CachedOpened

(* The first file of a chain that can be opened is a file of it.           *)
LEMMA FirstIsInChain ==
    ASSUME NEW r, NEW chain \in Seq(Files), FirstInChain(r, chain) # 0
    PROVE  LET k == FirstInChain(r, chain)
           IN  chain[k] \in Files /\ After(chain, k) \in Seq(Files)
<1> DEFINE able == {k \in DOMAIN chain : CanOpen(r, chain[k])}
           k    == FirstInChain(r, chain)
<1>1. able # {} /\ k = Min(able)
  BY Zenon DEF FirstInChain
<1>2. able \subseteq 1 .. Len(chain) /\ able \subseteq Nat
  OBVIOUS
<1> HIDE DEF able
<1>3. k \in able
  BY Zenon, <1>1, <1>2, MinIsMember
<1> HIDE DEF k
<1>4. k \in 1 .. Len(chain)
  BY <1>2, <1>3
<1>5. chain[k] \in Files /\ After(chain, k) \in Seq(Files)
  BY <1>4 DEF After
<1> QED
  BY Zenon, <1>5 DEF k

(* What a directory holds (Existing) are files.                            *)
LEMMA ExistingFiles ==
    ASSUME NEW files \in Seq(Files)
    PROVE  Existing(files) \in Seq(Files)
<1> DEFINE N    == Len(files)
           step == [p \in (1 .. N) \X Seq(Files) |->
                      IF files[p[1]] \in present THEN Append(p[2], files[p[1]]) ELSE p[2]]
           found == CHOOSE f : f = [n \in 0 .. N |->
                      IF n = 0 THEN << >>
                      ELSE IF files[n] \in present THEN Append(f[n - 1], files[n]) ELSE f[n - 1]]
<1>1. N \in Nat /\ << >> \in Seq(Files) /\ step \in [(1 .. N) \X Seq(Files) -> Seq(Files)]
  OBVIOUS
<1>2. \A n \in 1 .. N, s \in Seq(Files) :
         step[<<n, s>>] = IF files[n] \in present THEN Append(s, files[n]) ELSE s
  OBVIOUS
<1>3. Existing(files) = found[N]
  BY Zenon DEF Existing
<1> HIDE DEF step, N
<1>4. PICK g : Computes(g, N, Seq(Files), << >>, step)
  BY <1>1, LoopComputes
<1>5. g = [n \in 0 .. N |-> IF n = 0 THEN << >>
             ELSE IF files[n] \in present THEN Append(g[n - 1], files[n]) ELSE g[n - 1]]
  <2>1. ASSUME NEW n \in 1 .. N PROVE step[<<n, g[n - 1]>>] = IF files[n] \in present
                                            THEN Append(g[n - 1], files[n]) ELSE g[n - 1]
    <3>1. n - 1 \in 0 .. N
      BY <1>1
    <3> QED
      BY <1>2, <1>4, <3>1 DEF Computes
  <2>2. \A n \in 0 .. N : n = 0 \/ n \in 1 .. N
    BY <1>1
  <2>3. \A n \in 1 .. N : n # 0
    OBVIOUS
  <2>4. \A n \in 0 .. N : g[n] = IF n = 0 THEN << >>
          ELSE IF files[n] \in present THEN Append(g[n - 1], files[n]) ELSE g[n - 1]
    BY Zenon, <1>4, <2>1, <2>2, <2>3 DEF Computes
  <2> QED
    BY <1>4, <2>4 DEF Computes
<1>6. found = [n \in 0 .. N |-> IF n = 0 THEN << >>
                 ELSE IF files[n] \in present THEN Append(found[n - 1], files[n]) ELSE found[n - 1]]
  BY Zenon, <1>5
<1> HIDE DEF found
<1> DEFINE Right == {n \in 0 .. N : found[n] \in Seq(Files)}
<1>7. 0 \in Right
  BY <1>1, <1>6
<1>8. ASSUME NEW n \in 1 .. N, n - 1 \in Right PROVE n \in Right
  <2>1. files[n] \in Files
    BY DEF N
  <2>2. n \in 0 .. N /\ n # 0
    BY <1>1
  <2>3. found[n] = IF n = 0 THEN << >>
                   ELSE IF files[n] \in present THEN Append(found[n - 1], files[n]) ELSE found[n - 1]
    BY Zenon, <1>6, <2>2
  <2>4. found[n - 1] \in Seq(Files)
    BY <1>8
  <2>5. found[n] \in Seq(Files)
    BY <2>1, <2>2, <2>3, <2>4
  <2> QED
    BY <2>2, <2>5
<1>9. N \in Right
  <2> HIDE DEF Right
  <2>1. 0 .. N \subseteq Right
    BY <1>1, <1>7, <1>8, UpTo
  <2> QED
    BY <1>1, <2>1
<1> QED
  BY <1>3, <1>9

(* What a directory holds (Glob) are files.                                *)
LEMMA GlobFiles ==
    ASSUME NEW r, RightListing(r.listing), NEW d \in DOMAIN Dirs
    PROVE  Glob(r, d) \in Seq(Files)
<1>1. Existing(Dirs[d]) \in Seq(Files)
  BY IncludeAssumption, ExistingFiles
<1> QED
  BY Zenon, <1>1 DEF Glob, RightListing

-----------------------------------------------------------------------------
(* The include stack. *)

\* A stack of records, with a frame on it.
Stacked(r) == IsReader(r) /\ r.stack \in Seq(Range(r.stack)) /\ \A k \in 1 .. Len(r.stack) : IsFrame(r.stack[k])

(* The reader of the other proofs is one.                                  *)
LEMMA GoodIsStacked == ASSUME NEW r, Good(r) PROVE Stacked(r) /\ Len(r.stack) \in Nat
<1>1. Stacked(r)
  BY DEF Good, Nested, Sizes, Stacked
<1> QED
  BY <1>1 DEF Stacked

(* The place in the including file is remembered, with its owner (Enter).  *)
LEMMA EnterRemembers ==
    ASSUME NEW r, Stacked(r), Remembered(r), NEW owned, NEW chain \in Seq(Files),
           RightPlace(r.file, r.src, r.pos), r.src # "none" => owned = ~Disabled(r.file)
    PROVE  LET s == Enter(r, owned, chain)
           IN  IsReader(s) /\ Owned(s) /\ s.notOwner = r.notOwner
<1> DEFINE e  == [file |-> r.file, pos |-> r.pos, src |-> r.src, base |-> r.base,
                  owned |-> owned, chain |-> chain, saved |-> r.ifs]
           stack == Append(r.stack, e)
           base  == Len(r.ifs)
           s1 == [r EXCEPT !.stack = stack]
           s2 == [s1 EXCEPT !.base = base]
           s3 == [s2 EXCEPT !.src = "none"]
<1>1. Enter(r, owned, chain) = s3
  BY Zenon DEF Enter
<1>2. e.file = r.file /\ e.pos = r.pos /\ e.src = r.src /\ e.owned = owned /\ e.chain = chain
  OBVIOUS
<1> HIDE DEF e
<1>3. /\ Len(r.stack) \in Nat /\ Len(stack) = Len(r.stack) + 1
      /\ \A k \in 1 .. Len(stack) : \/ k \in 1 .. Len(r.stack) /\ stack[k] = r.stack[k]
                                    \/ k = Len(r.stack) + 1 /\ stack[k] = e
  <2>1. r.stack \in Seq(Range(r.stack) \cup {e})
    BY DEF Stacked
  <2> QED
    BY <2>1
<1>4. ASSUME NEW k \in 1 .. Len(stack) PROVE stack[k].chain \in Seq(Files) /\ RightFrame(stack[k])
  <2>1. CASE k \in 1 .. Len(r.stack) /\ stack[k] = r.stack[k]
    BY Zenon, <2>1 DEF Remembered, RightStack
  <2>2. CASE k = Len(r.stack) + 1 /\ stack[k] = e
    BY Zenon, <1>2, <2>2 DEF RightFrame
  <2> QED
    BY <1>3, <2>1, <2>2
<1> HIDE DEF stack, base
<1>5. RightStack(stack)
  BY Zenon, <1>4 DEF RightStack
<1>6. Is(s1, r.file, r.src, r.pos, r.notOwner, stack, r.cache, r.listing)
  BY Zenon, IsItself, FieldUpdates DEF Stacked
<1> HIDE DEF s1
<1>7. Is(s2, r.file, r.src, r.pos, r.notOwner, stack, r.cache, r.listing)
  BY Zenon, <1>6, OtherUpdates
<1> HIDE DEF s2
<1>8. Is(s3, r.file, "none", r.pos, r.notOwner, stack, r.cache, r.listing)
  BY Zenon, <1>7, FieldUpdates
<1> HIDE DEF s3
<1>9. RightPlace(r.file, "none", r.pos)
  BY DEF RightPlace
<1> QED
  BY Zenon, <1>1, <1>5, <1>8, <1>9 DEF Is, Owned, Remembered

(* The chain of the innermost INCLUDE changes (PopFile).                   *)
LEMMA ChainRemembered ==
    ASSUME NEW r, Stacked(r), Remembered(r), Len(r.stack) > 0, NEW chain \in Seq(Files)
    PROVE  LET s == [r EXCEPT !.stack[Len(r.stack)].chain = chain]
           IN  IsReader(s) /\ Remembered(s)
<1> DEFINE n     == Len(r.stack)
           e     == [r.stack[n] EXCEPT !.chain = chain]
           stack == [r.stack EXCEPT ![n] = e]
           s     == [r EXCEPT !.stack = stack]
<1>1. [r EXCEPT !.stack[Len(r.stack)].chain = chain] = s
  BY Zenon
<1>2. n \in 1 .. n /\ IsFrame(r.stack[n])
  BY DEF Stacked
<1>3. /\ e.chain = chain /\ e.file = r.stack[n].file /\ e.src = r.stack[n].src
      /\ e.pos = r.stack[n].pos /\ e.owned = r.stack[n].owned
  <2> DEFINE f == r.stack[n]
  <2>1. IsFrame(f)
    BY <1>2
  <2> HIDE DEF f
  <2>2. LET g == [f EXCEPT !.chain = chain]
        IN  g.chain = chain /\ g.file = f.file /\ g.src = f.src /\ g.pos = f.pos /\ g.owned = f.owned
    BY <2>1 DEF IsFrame
  <2> QED
    BY Zenon, <2>2 DEF f
<1>4. RightFrame(e)
  <2>1. RightFrame(r.stack[n])
    BY Zenon, <1>2 DEF Remembered, RightStack
  <2> HIDE DEF e, n
  <2> QED
    BY Zenon, <1>3, <2>1 DEF RightFrame
<1> HIDE DEF e
<1>5. Len(stack) = n /\ \A k \in 1 .. n : stack[k] = IF k = n THEN e ELSE r.stack[k]
  BY <1>2 DEF Stacked
<1> HIDE DEF stack
<1>6. RightStack(stack)
  <2>1. ASSUME NEW k \in 1 .. n PROVE stack[k].chain \in Seq(Files) /\ RightFrame(stack[k])
    <3>1. CASE k = n
      BY Zenon, <1>3, <1>4, <1>5, <3>1
    <3>2. CASE k # n
      <4>1. stack[k] = r.stack[k]
        BY Zenon, <1>5, <3>2
      <4>2. r.stack[k].chain \in Seq(Files) /\ RightFrame(r.stack[k])
        BY Zenon DEF Remembered, RightStack
      <4> QED
        BY Zenon, <4>1, <4>2
    <3> QED
      BY Zenon, <3>1, <3>2
  <2> QED
    BY Zenon, <1>5, <2>1 DEF RightStack
<1>7. Is(s, r.file, r.src, r.pos, r.notOwner, stack, r.cache, r.listing)
  BY Zenon, IsItself, FieldUpdates DEF Stacked
<1> QED
  BY Zenon, <1>1, <1>6, <1>7 DEF Is, Remembered

(* Back in the including file (ReturnTo): the frame knows the owner, or    *)
(* CheckSafety asks again.                                                 *)
LEMMA ReturnedOwned ==
    ASSUME NEW r, Stacked(r), Remembered(r), Len(r.stack) > 0, NEW i, RightFrame(i)
    PROVE  Owned(ReturnTo(r, i).rd)
<1> DEFINE front == Front(r.stack)
           other == ~i.owned
           s1 == [r EXCEPT !.stack = front]
           s2 == [s1 EXCEPT !.file = i.file]
           s3 == [s2 EXCEPT !.pos = i.pos]
           s4 == [s3 EXCEPT !.base = i.base]
           s5 == [s4 EXCEPT !.src = i.src]
           s6 == [s5 EXCEPT !.notOwner = other]
           back == [r EXCEPT !.stack = Front(@), !.file = i.file, !.pos = i.pos,
                             !.base = i.base, !.src = i.src, !.notOwner = ~i.owned]
           foreign == i.file \notin Trusted
           again   == [back EXCEPT !.notOwner = foreign]
           closed  == [back EXCEPT !.src = "none"]
<1>1. back = s6
  BY Zenon
<1>2. RightStack(front)
  <2>1. Len(front) = Len(r.stack) - 1 /\ Len(r.stack) \in Nat
        /\ \A k \in 1 .. Len(r.stack) - 1 : front[k] = r.stack[k]
    BY DEF Front, Stacked
  <2>2. \A k \in 1 .. Len(front) : k \in 1 .. Len(r.stack) /\ front[k] = r.stack[k]
    BY <2>1
  <2> HIDE DEF front
  <2> QED
    BY Zenon, <2>2 DEF Remembered, RightStack
<1>3. i.src # "none" => other = Disabled(i.file)
  <2>1. i.src # "none" => i.owned = ~Disabled(i.file)
    BY Zenon DEF RightFrame
  <2>2. Disabled(i.file) \in BOOLEAN
    <3>1. (i.file \in Bang) \in BOOLEAN /\ (i.file \notin Trusted) \in BOOLEAN
      OBVIOUS
    <3> QED
      BY Zenon, <3>1 DEF Disabled
  <2> QED
    BY <2>1, <2>2
<1>4. i.src = "disk" => foreign = Disabled(i.file)
  BY DEF RightFrame, RightPlace, Disabled
<1> HIDE DEF front, other, foreign
<1>5. Is(s1, r.file, r.src, r.pos, r.notOwner, front, r.cache, r.listing)
  BY Zenon, IsItself, FieldUpdates DEF Stacked
<1> HIDE DEF s1
<1>6. Is(s2, i.file, r.src, r.pos, r.notOwner, front, r.cache, r.listing)
  BY Zenon, <1>5, FieldUpdates
<1> HIDE DEF s2
<1>7. Is(s3, i.file, r.src, i.pos, r.notOwner, front, r.cache, r.listing)
  BY Zenon, <1>6, FieldUpdates
<1> HIDE DEF s3
<1>8. Is(s4, i.file, r.src, i.pos, r.notOwner, front, r.cache, r.listing)
  BY Zenon, <1>7, OtherUpdates
<1> HIDE DEF s4
<1>9. Is(s5, i.file, i.src, i.pos, r.notOwner, front, r.cache, r.listing)
  BY Zenon, <1>8, FieldUpdates
<1> HIDE DEF s5
<1>10. Is(back, i.file, i.src, i.pos, other, front, r.cache, r.listing)
  <2>1. Is(s6, i.file, i.src, i.pos, other, front, r.cache, r.listing)
    BY Zenon, <1>9, FieldUpdates
  <2> HIDE DEF s6, back
  <2> QED
    BY Zenon, <1>1, <2>1
<1> HIDE DEF s6, back
<1>11. /\ Is(again, i.file, i.src, i.pos, foreign, front, r.cache, r.listing)
       /\ Is(closed, i.file, "none", i.pos, other, front, r.cache, r.listing)
  BY Zenon, <1>10, FieldUpdates
<1> HIDE DEF again, closed
<1>12. \/ ReturnTo(r, i) = Outcome(back, "ok")
       \/ i.src = "disk" /\ ReturnTo(r, i) = Outcome(again, "ok")
       \/ ReturnTo(r, i) = Outcome(closed, "cantopen")
  <2>1. CASE i.src # "disk"
    BY Zenon, <2>1 DEF ReturnTo, back, again, closed, foreign
  <2>2. CASE i.src = "disk" /\ i.file \in present
    BY Zenon, <2>2 DEF ReturnTo, back, again, closed, foreign
  <2>3. CASE ~(i.src # "disk") /\ ~(i.src = "disk" /\ i.file \in present)
    BY Zenon, <2>3 DEF ReturnTo, back, again, closed, foreign
  <2> QED
    BY <2>1, <2>2, <2>3
<1>13. Owned(back)
  BY Zenon, <1>2, <1>3, <1>10 DEF Is, Owned, Remembered, RightFrame
<1>14. i.src = "disk" => Owned(again)
  BY Zenon, <1>2, <1>4, <1>11 DEF Is, Owned, Remembered, RightFrame
<1>15. Owned(closed)
  <2>1. RightPlace(i.file, "none", i.pos)
    BY DEF RightPlace
  <2> QED
    BY Zenon, <1>2, <1>11, <2>1 DEF Is, Owned, Remembered
<1>16. \A s, what : Outcome(s, what).rd = s
  BY DEF Outcome
<1> QED
  BY Zenon, <1>12, <1>13, <1>14, <1>15, <1>16

(* The end of a file (PopFile).                                            *)
LEMMA PopFileOwned ==
    ASSUME NEW r0, Good(r0), Len(r0.stack) > 0, Remembered(r0)
    PROVE  Owned(PopFile(r0).rd)
<1> DEFINE p == pop_excess_ifs(r0)
           r == [p EXCEPT !.src = "none"]
           i == Last(r.stack)
           k == FirstInChain(r, i.chain)
           rest    == After(i.chain, k)
           emptied == [r EXCEPT !.stack[Len(r.stack)].chain = << >>]
           next    == [r EXCEPT !.stack[Len(r.stack)].chain = rest]
           over    == [r EXCEPT !.stack = << >>]
           o       == PopFile(r0)
<1>1. SamePlace(r0, p) /\ Good(p)
  BY Zenon, BlocksElsewhere, ExcessPopped DEF Good
<1> HIDE DEF p
<1>2. Is(r, r0.file, "none", r0.pos, r0.notOwner, r0.stack, r0.cache, r0.listing)
  BY Zenon, <1>1, FieldUpdates DEF SamePlace
<1>3. Good(r)
  <2>1. Beside(p, p)
    BY Zenon, <1>1, BesideItself DEF Good
  <2>2. Beside(p, r)
    BY Zenon, <2>1, Updates
  <2> QED
    BY Zenon, <1>1, <2>2, BesideIsGood
<1> HIDE DEF r
<1>4. Stacked(r) /\ r.stack = r0.stack /\ r.src = "none" /\ Remembered(r)
  BY Zenon, <1>2, <1>3, GoodIsStacked DEF Is, Stacked, Remembered
<1>5. Len(r.stack) \in Nat /\ Len(r.stack) \in 1 .. Len(r.stack) /\ r.stack # << >> /\ i = r.stack[Len(r.stack)]
  <2>1. r.stack \in Seq(Range(r.stack))
    BY <1>4 DEF Stacked
  <2> QED
    BY <1>4, <2>1 DEF Last
<1>6. i.chain \in Seq(Files) /\ RightFrame(i)
  BY Zenon, <1>4, <1>5 DEF Remembered, RightStack
<1>7. \/ k # 0 /\ o = Outcome(OpenFile(next, i.chain[k]), "ok")
      \/ TopLevel(r) /\ o = Outcome(over, "eof")
      \/ ~TopLevel(r) /\ o = ReturnTo(emptied, i)
  <2>1. next = [r EXCEPT !.stack[Len(r.stack)].chain = After(@, k)]
    <3> HIDE DEF k
    <3> QED
      BY Zenon, <1>5
  <2> HIDE DEF next, k
  <2> QED
    BY Zenon, <1>5, <2>1 DEF PopFile, k, r, p
<1>8. \A s, what : Outcome(s, what).rd = s
  BY DEF Outcome
<1> HIDE DEF i
<1>9. CASE k # 0 /\ o = Outcome(OpenFile(next, i.chain[k]), "ok")
  <2>1. i.chain[k] \in Files /\ rest \in Seq(Files)
    BY Zenon, <1>6, <1>9, FirstIsInChain
  <2> HIDE DEF k, rest
  <2>2. Len(r.stack) > 0
    BY <1>4
  <2>3. IsReader(next) /\ Remembered(next)
    BY Zenon, <1>4, <2>1, <2>2, ChainRemembered
  <2> HIDE DEF next
  <2>4. Owned(OpenFile(next, i.chain[k]))
    BY Zenon, <2>1, <2>3, FileOpened
  <2> QED
    BY Zenon, <1>8, <1>9, <2>4
<1>10. CASE TopLevel(r) /\ o = Outcome(over, "eof")
  <2>1. RightStack(<< >>) /\ RightPlace(r.file, "none", r.pos)
    BY DEF RightStack, RightPlace
  <2> DEFINE empty == << >>
  <2>2. RightStack(empty)
    BY <2>1
  <2>3. over = [r EXCEPT !.stack = empty]
    OBVIOUS
  <2> HIDE DEF over, empty
  <2>4. Is(over, r.file, r.src, r.pos, r.notOwner, empty, r.cache, r.listing)
    BY Zenon, <1>4, <2>3, IsItself, FieldUpdates DEF Stacked
  <2>5. Owned(over)
    BY Zenon, <1>4, <2>1, <2>2, <2>4 DEF Is, Owned, Remembered
  <2> QED
    BY Zenon, <1>8, <1>10, <2>5
<1>11. CASE ~TopLevel(r) /\ o = ReturnTo(emptied, i)
  <2>1. Len(r.stack) > 0 /\ << >> \in Seq(Files)
    BY <1>4
  <2>2. Stacked(emptied) /\ Len(emptied.stack) > 0 /\ Remembered(emptied)
    <3>1. Remembered(emptied)
      BY Zenon, <1>4, <2>1, ChainRemembered
    <3>2. Good(emptied) /\ Len(emptied.stack) = Len(r.stack)
      BY Zenon, <1>3, <2>1, ChainUpdate
    <3> HIDE DEF emptied
    <3> QED
      BY Zenon, <2>1, <3>1, <3>2, GoodIsStacked
  <2> HIDE DEF emptied
  <2>3. Owned(ReturnTo(emptied, i).rd)
    BY Zenon, <1>6, <1>11, <2>2, ReturnedOwned
  <2> QED
    BY Zenon, <1>11, <2>3
<1> QED
  BY Zenon, <1>7, <1>9, <1>10, <1>11

-----------------------------------------------------------------------------
(* INCLUDE and INCLUDECMD. *)

\* s reads the file that r reads.
SameFile(r, s) == s.file = r.file /\ s.src = r.src /\ s.pos = r.pos

(* INCLUDE of a file or a directory (IncludeFile).                         *)
LEMMA IncludeFileOwned ==
    ASSUME NEW r, Good(r), MayInclude(r), Owned(r), present \subseteq Files,
           NEW f, f \in DOMAIN Dirs \/ f \notin Cmds
    PROVE  Owned(IncludeFile(r, f).rd)
<1>1. Stacked(r) /\ Len(r.stack) \in Nat /\ Remembered(r) /\ RightPlace(r.file, r.src, r.pos) /\ Beside(r, r)
  BY Zenon, GoodIsStacked, BesideItself DEF Good, Owned
<1>2. \A s, what : Outcome(s, what).rd = s
  BY DEF Outcome
<1>3. \A s : Failed(s).rd = PopFile(s).rd
  BY Zenon, <1>2 DEF Failed
<1> DEFINE owned == ~r.notOwner
<1>4. r.src # "none" => owned = ~Disabled(r.file)
  BY Zenon DEF Owned
<1> HIDE DEF owned
<1>5. CASE Len(r.stack) >= INCLUDE_NEST
  BY Zenon, <1>2, <1>5 DEF IncludeFile
<1>6. CASE ~(Len(r.stack) >= INCLUDE_NEST) /\ f \in DOMAIN Dirs
  <2> DEFINE chain  == Glob(r, f)
             k      == FirstInChain(r, chain)
             setup  == SetupGlobChain(r, f)
             listed == [setup EXCEPT !.notOwner = f \notin Trusted]
             rest   == IF k = 0 THEN << >> ELSE After(chain, k)
             enter  == Enter(listed, owned, rest)
  <2>1. IncludeFile(r, f) = IF k = 0 THEN Failed(enter) ELSE Outcome(OpenFile(enter, chain[k]), "ok")
    BY Zenon, <1>6 DEF IncludeFile, owned
  <2>2. chain \in Seq(Files)
    BY Zenon, <1>1, <1>6, GlobFiles DEF Remembered
  <2>3. rest \in Seq(Files) /\ (k # 0 => chain[k] \in Files)
    <3>1. << >> \in Seq(Files)
      OBVIOUS
    <3> HIDE DEF chain
    <3> QED
      BY Zenon, <2>2, <3>1, FirstIsInChain
  <2>4. IsReader(setup) /\ Remembered(setup) /\ SameFile(r, setup)
    <3> DEFINE listing == Put(r.listing, f, chain)
               new     == [r EXCEPT !.listing = listing]
    <3>1. setup = r \/ setup = new
      BY Zenon DEF SetupGlobChain
    <3>2. RightListing(listing)
      <4> HIDE DEF chain
      <4>1. \A d \in DOMAIN listing : listing[d] = chain \/ (d \in DOMAIN r.listing /\ listing[d] = r.listing[d])
        BY DEF Put
      <4> HIDE DEF listing
      <4> QED
        BY Zenon, <1>1, <2>2, <4>1 DEF Remembered, RightListing
    <3> HIDE DEF listing, setup, chain
    <3>3. Is(new, r.file, r.src, r.pos, r.notOwner, r.stack, r.cache, listing)
      BY Zenon, <1>1, IsItself, FieldUpdates DEF Stacked
    <3> HIDE DEF new
    <3>4. IsReader(r) /\ Remembered(r)
      BY Zenon, <1>1 DEF Stacked
    <3> QED
      BY Zenon, <3>1, <3>2, <3>3, <3>4 DEF Is, Remembered, SameFile
  <2>5. Beside(r, listed)
    <3>1. Beside(r, setup)
      BY Zenon, <1>1, Updates DEF SetupGlobChain
    <3> HIDE DEF setup
    <3> QED
      BY Zenon, <3>1, Updates
  <2> HIDE DEF setup, chain, k, rest
  <2>6. Remembered(listed) /\ SameFile(r, listed)
    <3> DEFINE foreign == f \notin Trusted
    <3>1. listed = [setup EXCEPT !.notOwner = foreign]
      OBVIOUS
    <3> HIDE DEF listed, foreign
    <3>2. Is(listed, setup.file, setup.src, setup.pos, foreign, setup.stack, setup.cache, setup.listing)
      BY Zenon, <2>4, <3>1, IsItself, FieldUpdates
    <3> QED
      BY Zenon, <2>4, <3>2 DEF Is, Remembered, SameFile
  <2> HIDE DEF listed
  <2>7. Good(listed) /\ MayInclude(listed) /\ listed.stack = r.stack
    BY Zenon, <2>5, BesideIsGood DEF Beside, MayInclude
  <2>8. Stacked(listed) /\ Len(listed.stack) < INCLUDE_NEST
    <3>1. Len(r.stack) < INCLUDE_NEST
      BY <1>1, <1>6, IncludeAssumption
    <3> QED
      BY Zenon, <2>7, <3>1, GoodIsStacked
  <2>9. IsReader(enter) /\ Owned(enter)
    <3>1. RightPlace(listed.file, listed.src, listed.pos) /\ (listed.src # "none" => owned = ~Disabled(listed.file))
      BY Zenon, <1>1, <1>4, <2>6 DEF SameFile
    <3> QED
      BY Zenon, <2>3, <2>6, <2>8, <3>1, EnterRemembers
  <2>10. Good(enter) /\ Len(enter.stack) > 0
    <3>1. Good(enter) /\ Len(enter.stack) = Len(listed.stack) + 1
      BY Zenon, <2>7, <2>8, EnterGood
    <3>2. Len(listed.stack) + 1 > 0
      BY <1>1, <2>7
    <3> QED
      BY Zenon, <3>1, <3>2
  <2> HIDE DEF enter
  <2>11. CASE k = 0
    <3>1. Owned(PopFile(enter).rd)
      BY Zenon, <2>9, <2>10, PopFileOwned DEF Owned
    <3> QED
      BY Zenon, <1>3, <2>1, <2>11, <3>1
  <2>12. CASE k # 0
    <3>1. Owned(OpenFile(enter, chain[k]))
      BY Zenon, <2>3, <2>9, <2>12, FileOpened DEF Owned
    <3> QED
      BY Zenon, <1>2, <2>1, <2>12, <3>1
  <2> QED
    BY Zenon, <2>11, <2>12
<1>7. CASE ~(Len(r.stack) >= INCLUDE_NEST) /\ f \notin DOMAIN Dirs
  <2> DEFINE none  == << >>
             enter == Enter(r, owned, none)
  <2>1. IncludeFile(r, f) = IF CanOpen(r, f) THEN Outcome(OpenFile(enter, f), "ok") ELSE Failed(enter)
    BY Zenon, <1>7 DEF IncludeFile, owned
  <2>2. Len(r.stack) < INCLUDE_NEST
    BY <1>1, <1>7, IncludeAssumption
  <2>3. none \in Seq(Files)
    OBVIOUS
  <2> HIDE DEF none
  <2>4. IsReader(enter) /\ Owned(enter)
    BY Zenon, <1>1, <1>4, <2>3, EnterRemembers
  <2>5. Good(enter) /\ Len(enter.stack) > 0
    <3>1. Good(enter) /\ Len(enter.stack) = Len(r.stack) + 1
      BY Zenon, <2>2, EnterGood
    <3>2. Len(r.stack) + 1 > 0
      BY <1>1
    <3> QED
      BY Zenon, <3>1, <3>2
  <2> HIDE DEF enter
  <2>6. CASE ~CanOpen(r, f)
    <3>1. Owned(PopFile(enter).rd)
      BY Zenon, <2>4, <2>5, PopFileOwned DEF Owned
    <3> QED
      BY Zenon, <1>3, <2>1, <2>6, <3>1
  <2>7. CASE CanOpen(r, f)
    <3>1. f \in Files
      <4>1. f \in DOMAIN r.cache => f \in Sources
        BY Zenon, <1>1 DEF Remembered, RightCache
      <4> QED
        BY <1>7, <2>7, <4>1 DEF CanOpen, Sources
    <3>2. Owned(OpenFile(enter, f))
      BY Zenon, <2>4, <3>1, FileOpened DEF Owned
    <3> QED
      BY Zenon, <1>2, <2>1, <2>7, <3>2
  <2> QED
    BY Zenon, <2>6, <2>7
<1> QED
  BY Zenon, <1>5, <1>6, <1>7

(* INCLUDECMD (IncludeCmd), where RUN is enabled: what a command prints    *)
(* may use RUN unless the command has a !.                                 *)
LEMMA IncludeCmdOwned ==
    ASSUME NEW r, Good(r), MayInclude(r), Owned(r), r.src # "none" => ~Disabled(r.file),
           ~r.notOwner, NEW c \in Cmds
    PROVE  Owned(IncludeCmd(r, c).rd)
<1> DEFINE none   == << >>
           inside == Enter(r, TRUE, none)
           banned == inside.notOwner \/ c \in Bang
           told   == [inside EXCEPT !.notOwner = banned]
           owned  == ~told.notOwner
           filled == CacheFile(told, c, owned)
           long   == [told EXCEPT !.should = FALSE]
<1>1. Stacked(r) /\ Len(r.stack) \in Nat /\ Remembered(r) /\ RightPlace(r.file, r.src, r.pos)
  BY Zenon, GoodIsStacked DEF Owned
<1>2. \A s, what : Outcome(s, what).rd = s
  BY DEF Outcome
<1>3. \A s : Failed(s).rd = PopFile(s).rd
  BY Zenon, <1>2 DEF Failed
<1>4. \/ Len(r.stack) >= INCLUDE_NEST /\ IncludeCmd(r, c) = Outcome(r, "error")
      \/ /\ ~(Len(r.stack) >= INCLUDE_NEST)
         /\ \/ c \in DOMAIN r.cache /\ IncludeCmd(r, c) = Outcome(FromCache(inside, c), "ok")
            \/ IncludeCmd(r, c) = Outcome(FromCache(filled, c), "ok")
            \/ IncludeCmd(r, c) = Failed(long)
  BY Zenon DEF IncludeCmd
<1>5. CASE Len(r.stack) >= INCLUDE_NEST /\ IncludeCmd(r, c) = Outcome(r, "error")
  BY Zenon, <1>2, <1>5
<1>6. CASE ~(Len(r.stack) >= INCLUDE_NEST)
  <2>1. Len(r.stack) < INCLUDE_NEST
    BY <1>1, <1>6, IncludeAssumption
  <2>2. none \in Seq(Files)
    OBVIOUS
  <2> HIDE DEF none
  <2>3. IsReader(inside) /\ Owned(inside) /\ inside.notOwner = r.notOwner
    <3> DEFINE mine == TRUE
    <3>1. r.src # "none" => mine = ~Disabled(r.file)
      BY Zenon
    <3> QED
      BY Zenon, <1>1, <2>2, <3>1, EnterRemembers
  <2>4. Good(inside) /\ Len(inside.stack) > 0 /\ inside.cache = r.cache
    <3>1. Good(inside) /\ Len(inside.stack) = Len(r.stack) + 1
      BY Zenon, <2>1, EnterGood
    <3>2. Len(r.stack) + 1 > 0
      BY <1>1
    <3>3. inside.cache = r.cache
      BY <1>1 DEF Enter, Stacked, IsReader
    <3> QED
      BY Zenon, <3>1, <3>2, <3>3
  <2> HIDE DEF inside
  <2>5. c \in Sources /\ banned = Disabled(c)
    BY <2>3 DEF Sources, Disabled
  <2>6. /\ Is(told, inside.file, inside.src, inside.pos, banned, inside.stack, inside.cache, inside.listing)
        /\ told.notOwner = banned
    <3> HIDE DEF banned
    <3>1. Is(told, inside.file, inside.src, inside.pos, banned, inside.stack, inside.cache, inside.listing)
      BY Zenon, <2>3, IsItself, FieldUpdates
    <3> QED
      BY Zenon, <3>1 DEF Is
  <2> HIDE DEF banned
  <2>7. Good(told) /\ told.stack = inside.stack /\ Beside(told, told)
    <3>1. Beside(inside, inside)
      BY Zenon, <2>4, BesideItself DEF Good
    <3>2. Beside(inside, told)
      BY Zenon, <3>1, Updates
    <3> HIDE DEF told
    <3>3. Good(told) /\ told.stack = inside.stack
      BY Zenon, <2>4, <3>2, BesideIsGood DEF Beside
    <3> QED
      BY Zenon, <3>3, BesideItself DEF Good
  <2>8. IsReader(told) /\ Remembered(told) /\ owned = ~Disabled(c)
    BY Zenon, <2>3, <2>5, <2>6 DEF Is, Owned, Remembered
  <2> HIDE DEF told, owned
  <2>9. Owned(FromCache(filled, c))
    <3>1. IsReader(filled) /\ Remembered(filled) /\ c \in DOMAIN filled.cache
      BY Zenon, <2>5, <2>8, CacheFilled
    <3> HIDE DEF filled
    <3> QED
      BY Zenon, <3>1, CachedOpened
  <2>10. c \in DOMAIN r.cache => Owned(FromCache(inside, c))
    BY Zenon, <2>3, <2>4, CachedOpened DEF Owned
  <2>11. Owned(Failed(long).rd)
    <3>1. Is(long, told.file, told.src, told.pos, told.notOwner, told.stack, told.cache, told.listing)
      BY Zenon, <2>8, IsItself, OtherUpdates
    <3>2. Beside(told, long)
      BY Zenon, <2>7, Updates
    <3> HIDE DEF long
    <3>3. Good(long) /\ Len(long.stack) > 0
      BY Zenon, <2>4, <2>7, <3>2, BesideIsGood DEF Beside
    <3>4. Remembered(long)
      BY Zenon, <2>8, <3>1 DEF Is, Remembered
    <3> QED
      BY Zenon, <1>3, <3>3, <3>4, PopFileOwned
  <2> HIDE DEF filled, long
  <2>12. \/ c \in DOMAIN r.cache /\ IncludeCmd(r, c).rd = FromCache(inside, c)
         \/ IncludeCmd(r, c).rd = FromCache(filled, c)
         \/ IncludeCmd(r, c).rd = Failed(long).rd
    BY Zenon, <1>2, <1>4, <1>6
  <2> QED
    BY Zenon, <2>9, <2>10, <2>11, <2>12
<1> QED
  BY Zenon, <1>4, <1>5, <1>6

-----------------------------------------------------------------------------
(* The theorem. *)

(* No file is read at first (Init).                                        *)
LEMMA InitOwnerInv == Init => OwnerInv
<1> SUFFICES ASSUME Init PROVE OwnerInv
  OBVIOUS
<1>1. rd.src = "none" /\ rd.stack = << >> /\ rd.cache = << >> /\ rd.listing = << >>
  BY DEF Init, NotReading
<1>2. RightCache(<< >>) /\ RightListing(<< >>) /\ RightStack(<< >>)
  BY DEF RightCache, RightListing, RightStack
<1>3. Remembered(rd)
  BY Zenon, <1>1, <1>2 DEF Remembered
<1> QED
  BY <1>1, <1>3 DEF Init, OwnerInv, Owned, RightPlace

(* A line is read: it is one of the file's, and the file stays the same    *)
(* unless it ends here (Advanced).                                         *)
LEMMA LineOwned ==
    ASSUME NestInv, OwnerInv, NEW op, NEW r, Reads(op, r)
    PROVE  /\ Owned(r) /\ r.notOwner = rd.notOwner /\ r.file = rd.file
           /\ rd.src # "none" /\ (r.src # "none" => r.src = rd.src)
           /\ op = "include" => Line.arg \notin Cmds
           /\ op = "includecmd" => Line.arg \in Cmds
<1>1. r \in Advanced /\ rd.src # "none" /\ rd.pos < Len(text[rd.file]) /\ Line.op = op
  BY DEF Reads
<1>2. rd.file \in Sources /\ rd.pos \in Nat /\ text \in Texts /\ IsReader(rd)
  BY Zenon, <1>1 DEF OwnerInv, Owned, RightPlace, NestInv, Good
<1>3. PICK s : r = [rd EXCEPT !.pos = @ + 1, !.src = s] /\ s \in {"none", "disk", rd.src}
                 /\ (s = "disk" => rd.src = "disk")
  <2>1. \E s : /\ r = [rd EXCEPT !.pos = @ + 1, !.src = s]
               /\ \/ s \in {"none", "disk"} /\ rd.src # "cache"
                  \/ s \in {"none", rd.src}
    BY <1>1 DEF Advanced
  <2>2. rd.src \in {"none", "disk", "cache"}
    BY Zenon DEF OwnerInv, Owned, RightPlace
  <2> QED
    BY <1>1, <2>1, <2>2
<1> DEFINE pos == rd.pos + 1
           r1  == [rd EXCEPT !.pos = pos]
           r2  == [r1 EXCEPT !.src = s]
<1>4. r = r2
  BY Zenon, <1>3
<1>5. pos \in Nat
  BY <1>2
<1> HIDE DEF pos
<1>6. Is(r1, rd.file, rd.src, pos, rd.notOwner, rd.stack, rd.cache, rd.listing)
  BY Zenon, <1>2, IsItself, FieldUpdates
<1> HIDE DEF r1
<1>7. Is(r, rd.file, s, pos, rd.notOwner, rd.stack, rd.cache, rd.listing)
  BY Zenon, <1>4, <1>6, FieldUpdates
<1> HIDE DEF r2
<1>8. RightPlace(rd.file, s, pos)
  <2>1. RightPlace(rd.file, rd.src, rd.pos)
    BY Zenon DEF OwnerInv, Owned
  <2> QED
    BY <1>1, <1>2, <1>3, <1>5, <2>1 DEF RightPlace
<1>9. Owned(r)
  BY Zenon, <1>1, <1>7, <1>8 DEF Is, OwnerInv, Owned, Remembered
<1>10. s # "none" => s = rd.src
  BY <1>3
<1>11. /\ op = "include" => Line.arg \notin Cmds
       /\ op = "includecmd" => Line.arg \in Cmds
  <2> DEFINE lines == text[rd.file]
             n     == rd.pos + 1
  <2>1. /\ lines \in Seq(Range(lines))
        /\ \A i \in DOMAIN lines : /\ lines[i].op = "include"    => lines[i].arg \notin Cmds
                                   /\ lines[i].op = "includecmd" => lines[i].arg \in Cmds
    BY Zenon, <1>2, TextAssumption DEF Sources
  <2>2. Line = lines[n]
    BY Zenon DEF Line
  <2>3. rd.pos < Len(lines)
    BY Zenon, <1>1
  <2> HIDE DEF lines
  <2>4. n \in DOMAIN lines
    BY <1>2, <2>1, <2>3
  <2> HIDE DEF n
  <2> QED
    BY Zenon, <1>1, <2>1, <2>2, <2>4
<1> QED
  BY Zenon, <1>1, <1>7, <1>9, <1>10, <1>11 DEF Is

(* The commands of ifelse.c leave the place alone (Block).                 *)
LEMMA BlockOwned == ASSUME NestInv, OwnerInv, Block PROVE Owned(rd')
<1>1. PICK r \in Advanced : /\ \E op : Reads(op, r)
                            /\ \/ \E cond : rd' = DoIf(r, cond) \/ rd' = DoIfTrig(r, cond)
                               \/ rd' = encounter_else(r)
                               \/ rd' = encounter_endif(r)
  BY Zenon DEF Block
<1>2. Owned(r) /\ IsReader(r)
  BY Zenon, <1>1, LineOwned, LineRead DEF Good
<1>3. SamePlace(r, rd')
  BY Zenon, <1>1, <1>2, BlocksElsewhere
<1> QED
  BY Zenon, <1>2, <1>3 DEF SamePlace, Is, Owned, Remembered

(* INCLUDE and INCLUDECMD (Include), where they are executed.              *)
LEMMA IncludeOwned == ASSUME NestInv, OwnerInv, Include PROVE Owned(rd')
<1>1. PICK r \in Advanced :
        \/ Executes("include", r) /\ rd' = IncludeFile(r, Line.arg).rd
        \/ Executes("includecmd", r) /\ rd' = IF RunDisabled THEN r ELSE IncludeCmd(r, Line.arg).rd
  BY Zenon DEF Include
<1>2. \E op : Executes(op, r)
  BY Zenon, <1>1
<1>3. Good(r) /\ MayInclude(r) /\ Owned(r)
  BY Zenon, <1>2, IncludeExecuted, LineOwned DEF Executes
<1>4. CASE Executes("include", r) /\ rd' = IncludeFile(r, Line.arg).rd
  <2>1. Line.arg \notin Cmds /\ present \subseteq Files
    BY Zenon, <1>4, LineOwned DEF Executes, OwnerInv
  <2> QED
    BY Zenon, <1>3, <1>4, <2>1, IncludeFileOwned
<1>5. CASE Executes("includecmd", r) /\ rd' = r
  BY Zenon, <1>3, <1>5
<1>6. CASE Executes("includecmd", r) /\ ~RunDisabled /\ rd' = IncludeCmd(r, Line.arg).rd
  <2>1. Line.arg \in Cmds /\ r.notOwner = rd.notOwner /\ r.file = rd.file /\ rd.src # "none"
    BY Zenon, <1>6, LineOwned DEF Executes
  <2>2. rd.notOwner = Disabled(rd.file) /\ ~rd.notOwner
    BY Zenon, <1>6, <2>1 DEF OwnerInv, Owned, RunDisabled
  <2>3. ~Disabled(rd.file)
    BY Zenon, <2>2
  <2> QED
    BY Zenon, <1>3, <1>6, <2>1, <2>2, <2>3, IncludeCmdOwned
<1> QED
  BY Zenon, <1>1, <1>4, <1>5, <1>6

(* The first file of a pass is opened (StartPass).                         *)
LEMMA StartPassOwned == ASSUME NestInv, OwnerInv, StartPass PROVE Owned(rd')
<1>1. rd' = IncludeFile(rd, InitialFile).rd /\ Good(rd) /\ AtRest(rd) /\ Owned(rd) /\ present \subseteq Files
  BY Zenon DEF StartPass, NestInv, OwnerInv
<1>2. MayInclude(rd)
  BY <1>1 DEF AtRest, MayInclude, AllExecuting
<1>3. InitialFile \in DOMAIN Dirs \/ InitialFile \notin Cmds
  BY IncludeAssumption, TextAssumption
<1> QED
  BY Zenon, <1>1, <1>2, <1>3, IncludeFileOwned

(* Every step keeps track of the owner.                                    *)
LEMMA NextOwnerInv == ASSUME NestInv, OwnerInv, [Next]_vars PROVE OwnerInv'
<1>1. text' = text /\ (present' = present \/ Vanish) 
  BY Zenon DEF Next, Step, StartPass, EndOfFile, ReadPastEnd, Block, Ignore, Include, Return, Run, Rem, Exit,
               Vanish, Stopped, vars
<1>2. text' \in Texts /\ present' \subseteq Files
  <2>1. Vanish => present' \subseteq present
    BY DEF Vanish
  <2> QED
    BY <1>1, <2>1 DEF OwnerInv
<1>3. ASSUME StartPass PROVE Owned(rd')
  BY Zenon, <1>3, StartPassOwned
<1>4. ASSUME EndOfFile PROVE Owned(rd')
  <2>1. rd' = PopFile(rd).rd
    BY Zenon, <1>4 DEF EndOfFile
  <2>2. Good(rd) /\ Len(rd.stack) > 0 /\ Remembered(rd)
    BY Zenon, <1>4 DEF EndOfFile, NestInv, OwnerInv, Owned
  <2> QED
    BY Zenon, <2>1, <2>2, PopFileOwned
<1>5. ASSUME ReadPastEnd PROVE Owned(rd')
  <2>1. rd' = [rd EXCEPT !.src = "none"]
    BY Zenon, <1>5 DEF ReadPastEnd
  <2>2. IsReader(rd) /\ Remembered(rd)
    BY Zenon DEF NestInv, Good, OwnerInv, Owned
  <2>3. Is(rd', rd.file, "none", rd.pos, rd.notOwner, rd.stack, rd.cache, rd.listing)
    BY Zenon, <2>1, <2>2, IsItself, FieldUpdates
  <2>4. RightPlace(rd.file, "none", rd.pos)
    BY DEF RightPlace
  <2> QED
    BY Zenon, <2>2, <2>3, <2>4 DEF Is, Owned, Remembered
<1>6. ASSUME Block PROVE Owned(rd')
  BY <1>6, BlockOwned
<1>7. ASSUME Include PROVE Owned(rd')
  BY <1>7, IncludeOwned
<1>8. ASSUME NEW op, NEW r, Reads(op, r), rd' = r \/ rd' = DoReturn(r) PROVE Owned(rd')
  <2>1. Owned(r) /\ IsReader(r)
    BY Zenon, <1>8, LineOwned, LineRead DEF Good
  <2>2. SamePlace(r, DoReturn(r))
    BY Zenon, <2>1, BlocksElsewhere
  <2> QED
    BY Zenon, <1>8, <2>1, <2>2 DEF SamePlace, Is, Owned, Remembered
<1>9. ASSUME Ignore PROVE Owned(rd')
  BY Zenon, <1>8, <1>9 DEF Ignore
<1>10. ASSUME Return PROVE Owned(rd')
  BY Zenon, <1>8, <1>10 DEF Return, Executes
<1>11. ASSUME Run PROVE Owned(rd')
  BY Zenon, <1>8, <1>11 DEF Run, Executes
<1>12. ASSUME Rem PROVE Owned(rd')
  BY Zenon, <1>8, <1>12 DEF Rem, Executes
<1>13. ASSUME Exit PROVE Owned(rd')
  BY Zenon, <1>8, <1>13 DEF Exit, Executes
<1>14. ASSUME UNCHANGED rd PROVE Owned(rd')
  BY Zenon, <1>14 DEF OwnerInv
<1>15. Owned(rd')
  BY Zenon, <1>3, <1>4, <1>5, <1>6, <1>7, <1>9, <1>10, <1>11, <1>12, <1>13, <1>14
  DEF Next, Step, Vanish, Stopped, vars
<1> QED
  BY Zenon, <1>2, <1>15 DEF OwnerInv, Owned, Remembered

(* RUN is enabled in the lines of a file as the owner of the file demands, *)
(* after every INCLUDE in it and in every pass (CheckSafety, PopFile).     *)
THEOREM RunFollowsTheOwner == Spec => []RunFollowsOwner
<1>1. OwnerInv => RunFollowsOwner
  BY DEF OwnerInv, Owned, Disabled, RunFollowsOwner
<1>2. Init => NestInv /\ OwnerInv
  BY InitNestInv, InitOwnerInv
<1>3. NestInv /\ OwnerInv /\ [Next]_vars => (NestInv /\ OwnerInv)'
  BY Zenon, NextNestInv, NextOwnerInv
<1> QED
  BY <1>1, <1>2, <1>3, PTL DEF Spec
=============================================================================
