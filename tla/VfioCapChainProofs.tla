-------------------------- MODULE VfioCapChainProofs --------------------------
(***************************************************************************)
(* Proofs, for every base size, iteration bound and set of reply buffers, *)
(* about the capability walk of get_region_map: every variable keeps its  *)
(* type; on replies laid out the way the kernel builds them the walk      *)
(* never reads past argsz; and when it returns Ok, region.caps is the     *)
(* kernel's chain decoded in order, so that the call implements the      *)
(* atomic CapDecode.                                                       *)
(*                                                                         *)
(* TypeOK is not inductive alone: a header the walk reads is typed only   *)
(* because next, while walking, is at least Base, so that a read below    *)
(* argsz is of a slot of the buffer's hdr (TInv).  ReadsInBuffer needs in *)
(* addition that next, while walking, is below argsz: cap_offset and      *)
(* every next of a well-formed reply are (IInv).  DecodedCaps needs the   *)
(* position of the walk in the chain, which iter counts (WalkInv).        *)
(* The refinement adds that the walk runs only on a reply with           *)
(* capabilities and that nothing is decoded before it (CallInv).          *)
(* Termination needs fairness and is left to TLC.                         *)
(***************************************************************************)
EXTENDS VfioCapChain, SequenceTheorems, TLAPS

\* Every reply the kernel may return is well formed.
WellFormedInputs == \A r \in Inputs : WellFormedReply(r)

\* The inductive invariant of the type.
TInv == TypeOK /\ (pc = "walk" => next >= Base)

\* The inductive invariant of the reads, on well-formed replies.
IInv == TInv /\ (pc = "walk" => next < in.argsz) /\ ReadsInBuffer

\* What the walk reads while TInv holds is a header.
LEMMA HeaderTyped ==
    ASSUME TInv, pc = "walk", NEW h \in HeaderAt(next)
    PROVE  h \in HeaderRec
<1>1. in.hdr \in [Base..(in.argsz - 1) -> HeaderRec] /\ in.argsz \in Nat
  BY CapChainConstants DEF TInv, TypeOK
<1>2. CASE next < in.argsz
  <2>1. next \in Base..(in.argsz - 1)
    BY <1>1, <1>2, CapChainConstants DEF TInv, TypeOK
  <2> QED
    BY <1>1, <1>2, <2>1 DEF HeaderAt
<1>3. CASE ~(next < in.argsz)
  BY <1>3, CapChainConstants DEF HeaderAt
<1> QED
  BY <1>2, <1>3

\* The structure read at a header is a natural number of slots.
LEMMA ReadSlotsNat ==
    ASSUME NEW h \in HeaderRec
    PROVE  ReadSlots(h) \in Nat
<1>1. 2 + 2 * h.n \in Nat
  BY DEF HeaderRec
<1> QED
  BY <1>1, Zenon DEF ReadSlots

\* get_region_map reads no more of a capability than the kernel lays out.
LEMMA ReadSlotsWithinCap ==
    ASSUME NEW h \in HeaderRec
    PROVE  CapSlots(h) \in Nat /\ ReadSlots(h) <= CapSlots(h)
<1>1. CASE h.id = "SparseMmap"
  <2>1. ReadSlots(h) = 2 + 2 * h.n /\ CapSlots(h) = 2 + 2 * h.n
    BY <1>1, Zenon DEF ReadSlots, CapSlots
  <2> QED
    BY <2>1 DEF HeaderRec
<1>2. CASE h.id \in {"Type", "Nvlink2Ssatgt", "Nvlink2Lnkspd"}
  <2>1. ReadSlots(h) = 2 /\ CapSlots(h) = 2
    BY <1>2, Zenon DEF ReadSlots, CapSlots
  <2> QED
    BY <2>1 DEF HeaderRec
<1>3. CASE h.id # "SparseMmap" /\ h.id \notin {"Type", "Nvlink2Ssatgt", "Nvlink2Lnkspd"}
  <2>1. ReadSlots(h) = 1 /\ CapSlots(h) = 1
    BY <1>3, Zenon DEF ReadSlots, CapSlots
  <2> QED
    BY <2>1 DEF HeaderRec
<1> QED
  BY <1>1, <1>2, <1>3

LEMMA InitTInv == Init => TInv
<1> SUFFICES ASSUME Init PROVE TInv
  OBVIOUS
<1>1. << >> \in Seq([id : KnownIds, areas : Nat])
  BY EmptySeq
<1>2. 0 \in Nat
  OBVIOUS
<1> QED
  BY <1>1, <1>2 DEF Init, TInv, TypeOK

LEMMA NextTInv == TInv /\ [Next]_vars => TInv'
<1> SUFFICES ASSUME TInv, [Next]_vars PROVE TInv'
  OBVIOUS
<1>1. CASE Query
  <2>1. in.capOffset \in Nat
    BY CapChainConstants DEF TInv, TypeOK
  <2> QED
    BY <1>1, <2>1 DEF Query, TInv, TypeOK
<1>2. CASE Step
  <2> PICK h \in HeaderAt(next) :
          /\ oob' = (oob \/ next + ReadSlots(h) > in.argsz)
          /\ caps' = IF h.id \in KnownIds THEN Append(caps, Decode(h)) ELSE caps
          /\ next' = h.next
          /\ pc' = IF h.next >= Base THEN "walk" ELSE "done"
    BY <1>2 DEF Step
  <2>1. h \in HeaderRec
    BY <1>2, HeaderTyped DEF Step
  <2>2. caps' \in Seq([id : KnownIds, areas : Nat])
    <3>1. h.id \in KnownIds => Decode(h) \in [id : KnownIds, areas : Nat]
      BY <2>1 DEF Decode, HeaderRec
    <3> QED
      BY <3>1, AppendProperties DEF TInv, TypeOK
  <2>3. iter' \in Nat
    BY <1>2 DEF Step, TInv, TypeOK
  <2>4. next' \in Nat /\ oob' \in BOOLEAN
    BY <2>1 DEF HeaderRec
  <2> QED
    BY <1>2, <2>2, <2>3, <2>4 DEF Step, TInv, TypeOK
<1>3. CASE UNCHANGED vars
  BY <1>3 DEF vars, TInv, TypeOK
<1> QED
  BY <1>1, <1>2, <1>3 DEF Next

\* get_region_map keeps every variable in its type, whatever the reply
\* holds, a malformed one included: region.caps gets only decoded
\* records of known ids, next_cap_offset stays a natural number and the
\* read flag a Boolean.
THEOREM CapChainTypeCorrect == Spec => []TypeOK
<1>1. TInv => TypeOK
  BY DEF TInv
<1> QED
  BY <1>1, InitTInv, NextTInv, PTL DEF Spec

LEMMA InitIInv == Init => IInv
BY InitTInv DEF Init, IInv, ReadsInBuffer

LEMMA NextIInv == WellFormedInputs /\ IInv /\ [Next]_vars => IInv'
<1> SUFFICES ASSUME WellFormedInputs, IInv, [Next]_vars PROVE IInv'
  OBVIOUS
<1>0. TInv' /\ WellFormedReply(in) /\ in.argsz \in Nat /\ in.capOffset \in Nat
  BY NextTInv, CapChainConstants DEF IInv, TInv, TypeOK, WellFormedInputs
<1>1. CASE Query
  BY <1>0, <1>1 DEF Query, IInv, ReadsInBuffer, WellFormedReply
<1>2. CASE Step
  <2> PICK h \in HeaderAt(next) :
          /\ oob' = (oob \/ next + ReadSlots(h) > in.argsz)
          /\ next' = h.next
          /\ pc' = IF h.next >= Base THEN "walk" ELSE "done"
    BY <1>2 DEF Step
  <2>1. next \in Base..(in.argsz - 1)
    BY <1>0, <1>2, CapChainConstants DEF Step, IInv, TInv, TypeOK
  <2>2. h = in.hdr[next]
    BY <1>0, <2>1 DEF HeaderAt
  <2>3. /\ next + CapSlots(h) <= in.argsz
        /\ h.next >= Base => h.next < in.argsz
    BY <1>0, <2>1, <2>2 DEF WellFormedReply
  <2>4. ~oob'
    <3>1. in.hdr \in [Base..(in.argsz - 1) -> HeaderRec]
      BY CapChainConstants DEF IInv, TInv, TypeOK
    <3>6. in.hdr[next] \in HeaderRec
      BY <3>1, <2>1
    <3>7. next \in Nat
      BY <1>0, <2>1, CapChainConstants
    <3>2. h \in HeaderRec /\ next \in Nat
      BY <3>6, <3>7, <2>2, Zenon
    <3>5. ReadSlots(h) \in Nat
      BY <3>2, ReadSlotsNat
    <3>8. CapSlots(h) \in Nat /\ ReadSlots(h) <= CapSlots(h)
      BY <3>2, ReadSlotsWithinCap
    <3>3. ~(next + ReadSlots(h) > in.argsz)
      BY <1>0, <2>3, <3>2, <3>5, <3>8
    <3>4. ~oob
      BY DEF IInv, ReadsInBuffer
    <3> QED
      BY <3>3, <3>4, Zenon
  <2>5. pc' = "walk" => next' < in'.argsz
    BY <1>2, <2>3 DEF Step
  <2> QED
    BY <1>0, <2>4, <2>5 DEF IInv, ReadsInBuffer
<1>3. CASE UNCHANGED vars
  BY <1>0, <1>3 DEF vars, IInv, ReadsInBuffer
<1> QED
  BY <1>1, <1>2, <1>3 DEF Next

\* Every reply's chain is the one its headers link.
ChainedInputs == \A r \in Inputs : ChainLaid(r)

\* The offset of chain[j + 1]: cap_offset, then the next of chain[j].
ChainAt(j) == IF j = 0 THEN in.capOffset ELSE in.chain[j].next

\* In a buffer with capabilities at cap_offset the walk follows the chain:
\* after iter iterations next is the offset of chain[iter + 1], region.caps
\* is chain[1..iter] decoded, and the walk ends after the whole chain.
WalkInv ==
    in.capsFlag /\ in.argsz > Base /\ in.capOffset >= Base =>
        /\ pc = "query" => caps = << >> /\ iter = 0
        /\ pc = "walk" => iter < Len(in.chain) /\ next = ChainAt(iter)
        /\ pc = "done" => iter = Len(in.chain)
        /\ pc \in {"walk", "done"} => DecodedPrefix(caps, in.chain, iter)

\* The inductive invariant of the decoded list, on well-formed, chained
\* replies.
DInv == IInv /\ WalkInv

\* On replies laid out the way the kernel builds them, the capability walk
\* of get_region_map never reads past the argsz bytes of the buffer.
THEOREM ReadsInBufferThm ==
    ASSUME WellFormedInputs
    PROVE  Spec => []ReadsInBuffer
<1>1. IInv => ReadsInBuffer
  BY DEF IInv
<1>2. IInv /\ [Next]_vars => IInv'
  BY NextIInv
<1> QED
  BY <1>1, <1>2, InitIInv, PTL DEF Spec

\* Nothing is decoded before the walk reads the first capability.
LEMMA PrefixEmpty ==
    ASSUME NEW ch
    PROVE  DecodedPrefix(<< >>, ch, 0)
<1>1. KnownUpTo(ch, 0) = {} /\ 1..Len(<< >>) = {}
  BY EmptySeq DEF KnownUpTo
<1>2. [i \in {} |-> 0] \in [1..Len(<< >>) -> 1..0]
  BY <1>1
<1> QED
  BY <1>1, <1>2 DEF DecodedPrefix

\* Reading chain[j + 1] extends the decoded prefix: a known capability is
\* appended, enumerated after the known positions before it; an unknown
\* one leaves the list as it is.
LEMMA PrefixStep ==
    ASSUME NEW ch, NEW j \in Nat, NEW S, NEW s \in Seq(S),
           DecodedPrefix(s, ch, j),
           ch[j + 1].id \in KnownIds => CapRecord(ch[j + 1]) \in S
    PROVE  DecodedPrefix(IF ch[j + 1].id \in KnownIds
                         THEN Append(s, CapRecord(ch[j + 1])) ELSE s, ch, j + 1)
<1> DEFINE n == Len(s)
           x == CapRecord(ch[j + 1])
<1>0. n \in Nat
  BY LenProperties
<1>1. PICK f \in [1..n -> 1..j] :
          /\ \A a, b \in 1..n : a < b => f[a] < f[b]
          /\ {f[i] : i \in 1..n} = KnownUpTo(ch, j)
          /\ \A i \in 1..n : s[i] = CapRecord(ch[f[i]])
  BY DEF DecodedPrefix
<1>2. CASE ch[j + 1].id \in KnownIds
  <2> DEFINE g == [i \in 1..(n + 1) |-> IF i <= n THEN f[i] ELSE j + 1]
  <2>1. /\ Len(Append(s, x)) = n + 1
        /\ \A i \in 1..n : Append(s, x)[i] = s[i]
        /\ Append(s, x)[n + 1] = x
    BY <1>2, AppendProperties
  <2>2. g \in [1..(n + 1) -> 1..(j + 1)]
    BY <1>0, <1>1
  <2>3. \A a, b \in 1..(n + 1) : a < b => g[a] < g[b]
    BY <1>0, <1>1
  <2>4. {g[i] : i \in 1..(n + 1)} = KnownUpTo(ch, j + 1)
    <3>1. {g[i] : i \in 1..(n + 1)} = {f[i] : i \in 1..n} \cup {j + 1}
      BY <1>0
    <3>2. KnownUpTo(ch, j + 1) = KnownUpTo(ch, j) \cup {j + 1}
      BY <1>2 DEF KnownUpTo
    <3> QED
      BY <1>1, <3>1, <3>2
  <2>5. \A i \in 1..(n + 1) : Append(s, x)[i] = CapRecord(ch[g[i]])
    BY <1>0, <1>1, <2>1
  <2> QED
    BY <1>2, <2>1, <2>2, <2>3, <2>4, <2>5 DEF DecodedPrefix
<1>3. CASE ch[j + 1].id \notin KnownIds
  <2>1. KnownUpTo(ch, j + 1) = KnownUpTo(ch, j)
    BY <1>3 DEF KnownUpTo
  <2>2. f \in [1..n -> 1..(j + 1)]
    BY <1>1
  <2> QED
    BY <1>1, <1>3, <2>1, <2>2 DEF DecodedPrefix
<1> QED
  BY <1>2, <1>3

LEMMA InitDInv == Init => DInv
<1> SUFFICES ASSUME Init PROVE DInv
  OBVIOUS
<1> QED
  BY InitIInv DEF Init, DInv, WalkInv

\* The facts ChainLaid gives about the reply being walked.
LEMMA ChainFacts ==
    ASSUME ChainedInputs, in \in Inputs,
           in.capsFlag, in.argsz > Base, in.capOffset >= Base
    PROVE  /\ in.chain \in Seq(HeaderRec) /\ Len(in.chain) > 0
           /\ in.hdr[in.capOffset] = in.chain[1]
           /\ \A k \in 1..(Len(in.chain) - 1) :
                 in.chain[k].next >= Base /\ in.hdr[in.chain[k].next] = in.chain[k + 1]
           /\ in.chain[Len(in.chain)].next < Base
BY DEF ChainedInputs, ChainLaid

LEMMA NextDInv ==
    WellFormedInputs /\ ChainedInputs /\ DInv /\ [Next]_vars => DInv'
<1> SUFFICES ASSUME WellFormedInputs, ChainedInputs, DInv, [Next]_vars
             PROVE  DInv'
  OBVIOUS
<1>1. IInv'
  BY NextIInv DEF DInv
<1>2. in' = in
  BY DEF Next, Query, Step, vars
<1> SUFFICES ASSUME in.capsFlag, in.argsz > Base, in.capOffset >= Base
             PROVE  /\ pc' = "query" => caps' = << >> /\ iter' = 0
                    /\ pc' = "walk" => iter' < Len(in.chain) /\ next' = ChainAt(iter)'
                    /\ pc' = "done" => iter' = Len(in.chain)
                    /\ pc' \in {"walk", "done"} => DecodedPrefix(caps', in.chain, iter')
  BY <1>1, <1>2 DEF DInv, WalkInv
<1>3. in \in Inputs /\ in.argsz \in Nat /\ in.capOffset \in Nat
      /\ caps \in Seq([id : KnownIds, areas : Nat]) /\ iter \in Nat
  BY CapChainConstants DEF DInv, IInv, TInv, TypeOK
<1>4. /\ in.chain \in Seq(HeaderRec) /\ Len(in.chain) > 0
      /\ in.hdr[in.capOffset] = in.chain[1]
      /\ \A k \in 1..(Len(in.chain) - 1) :
            in.chain[k].next >= Base /\ in.hdr[in.chain[k].next] = in.chain[k + 1]
      /\ in.chain[Len(in.chain)].next < Base
  BY <1>3, ChainFacts
<1>5. Len(in.chain) \in Nat
  BY <1>4, LenProperties
<1>6. CASE Query
  <2>1. pc = "query" /\ caps = << >> /\ iter = 0
    BY <1>6 DEF Query, DInv, WalkInv
  <2>2. \/ pc' = "failed"
        \/ pc' = "walk" /\ next' = in.capOffset
    BY <1>3, <1>6, CapChainConstants DEF Query
  <2>3. DecodedPrefix(<< >>, in.chain, 0)
    BY PrefixEmpty
  <2>4. caps' = << >> /\ iter' = 0
    BY <1>6, <2>1 DEF Query
  <2>5. ChainAt(iter)' = in.capOffset
    BY <1>2, <2>4 DEF ChainAt
  <2> QED
    BY <1>4, <1>5, <2>2, <2>3, <2>4, <2>5
<1>7. CASE Step
  <2>1. /\ pc = "walk" /\ iter < Len(in.chain) /\ next = ChainAt(iter)
        /\ DecodedPrefix(caps, in.chain, iter)
    BY <1>7 DEF Step, DInv, WalkInv
  <2>2. next \in Base..(in.argsz - 1)
    BY <1>3, <2>1, CapChainConstants DEF DInv, IInv, TInv, TypeOK
  <2> PICK h \in HeaderAt(next) :
          /\ caps' = IF h.id \in KnownIds THEN Append(caps, Decode(h)) ELSE caps
          /\ next' = h.next
          /\ pc' = IF h.next >= Base THEN "walk" ELSE "done"
    BY <1>7 DEF Step
  <2>3. iter' = iter + 1
    BY <1>7 DEF Step
  <2>4. h = in.chain[iter + 1]
    <3>1. h = in.hdr[next]
      BY <1>3, <2>2 DEF HeaderAt
    <3>2. CASE iter = 0
      BY <3>1, <3>2, <1>4, <2>1 DEF ChainAt
    <3>3. CASE iter # 0
      <4>1. iter \in 1..(Len(in.chain) - 1)
        BY <3>3, <1>3, <1>5, <2>1
      <4> QED
        BY <3>1, <3>3, <4>1, <1>4, <2>1 DEF ChainAt
    <3> QED
      BY <3>2, <3>3
  <2>5. h \in HeaderRec
    BY <2>4, <1>3, <1>4, <1>5, <2>1, LenProperties
  <2>6. Decode(h) = CapRecord(h)
    BY DEF Decode, CapRecord
  <2>7. DecodedPrefix(caps', in.chain, iter')
    <3>1. h.id \in KnownIds => CapRecord(h) \in [id : KnownIds, areas : Nat]
      BY <2>5 DEF CapRecord, HeaderRec
    <3> QED
      BY <1>3, <2>1, <2>3, <2>4, <2>6, <3>1,
         PrefixStep
  <2>8. pc' = "walk" => iter' < Len(in.chain) /\ next' = ChainAt(iter)'
    <3>1. iter + 1 # Len(in.chain) \/ h.next < Base
      BY <1>4, <2>4
    <3>2. ChainAt(iter)' = h.next
      BY <1>2, <1>3, <2>3, <2>4 DEF ChainAt
    <3>3. pc' = "walk" => h.next >= Base
      BY Zenon
    <3> QED
      BY <1>3, <1>5, <2>1, <2>3, <2>5, <3>1, <3>2, <3>3, CapChainConstants
         DEF HeaderRec
  <2>9. pc' = "done" => iter' = Len(in.chain)
    <3>1. iter + 1 \in 1..(Len(in.chain) - 1) => h.next >= Base
      BY <1>4, <2>4
    <3> QED
      BY <1>3, <1>5, <2>1, <2>3, <3>1
  <2> QED
    BY <2>7, <2>8, <2>9
<1>8. CASE UNCHANGED vars
  BY <1>8 DEF vars, DInv, WalkInv, ChainAt
<1> QED
  BY <1>6, <1>7, <1>8 DEF Next

\* On replies laid out the way the kernel builds them, when get_region_map
\* returns Ok with capabilities at cap_offset, region.caps is the kernel's
\* chain of capabilities decoded in order, unknown ids skipped.
THEOREM DecodedCapsThm ==
    ASSUME WellFormedInputs, ChainedInputs
    PROVE  Spec => []DecodedCaps
<1>1. DInv => DecodedCaps
  BY DEF DInv, WalkInv, DecodedCaps
<1>2. DInv /\ [Next]_vars => DInv'
  BY NextDInv
<1> QED
  BY <1>1, <1>2, InitDInv, PTL DEF Spec

\* The invariant the refinement needs: DInv, and two facts about the call
\* as the caller sees it: the walk runs only on a reply with capabilities
\* at cap_offset, and nothing is decoded before the re-query.
CallInv ==
    /\ DInv
    /\ pc = "walk" => in.capsFlag /\ in.argsz > Base /\ in.capOffset >= Base
    /\ pc = "query" => caps = << >>

LEMMA InitCallInv == Init => CallInv
BY InitDInv DEF Init, CallInv

LEMMA NextCallInv ==
    WellFormedInputs /\ ChainedInputs /\ CallInv /\ [Next]_vars => CallInv'
<1> SUFFICES ASSUME WellFormedInputs, ChainedInputs, CallInv, [Next]_vars
             PROVE  CallInv'
  OBVIOUS
<1>1. DInv'
  BY NextDInv DEF CallInv
<1>2. CASE Query
  <2>1. pc' = "walk" => in.capsFlag /\ in.argsz > Base /\ in.capOffset >= Base
    BY <1>2 DEF Query
  <2> QED
    BY <1>1, <1>2, <2>1 DEF Query, CallInv
<1>3. CASE Step
  <2>1. pc' \in {"walk", "done"}
    BY <1>3, Zenon DEF Step
  <2> QED
    BY <1>1, <1>3, <2>1 DEF Step, CallInv
<1>4. CASE UNCHANGED vars
  BY <1>1, <1>4 DEF vars, CallInv
<1> QED
  BY <1>2, <1>3, <1>4 DEF Next

\* A list that is the whole chain decoded, by the model's definition, is
\* the list the abstract call returns.
LEMMA DecodedIsPrefix ==
    ASSUME NEW s \in Seq([id : KnownIds, areas : Nat]), NEW ch,
           DecodedPrefix(s, ch, Len(ch))
    PROVE  Decoder!Decoded(s, ch)
BY DEF DecodedPrefix, KnownUpTo, CapRecord, KnownIds, Decoder!Decoded,
       Decoder!Decodable, Decoder!CapEntry, Decoder!CapIds

\* Every step of get_region_map is a step of the atomic call or, while
\* the walk runs, invisible to the caller.
LEMMA StepRefines ==
    WellFormedInputs /\ ChainedInputs /\ CallInv /\ [Next]_vars
        => [Decoder!DecNext]_Decoder!decVars
<1> SUFFICES ASSUME WellFormedInputs, ChainedInputs, CallInv, [Next]_vars
             PROVE  [Decoder!DecNext]_Decoder!decVars
  OBVIOUS
<1>0. /\ in' = in
      /\ in.argsz \in Nat /\ in.capOffset \in Nat /\ Base \in Nat
  BY CapChainConstants DEF Next, Query, Step, vars, CallInv, DInv, IInv,
                           TInv, TypeOK
<1>1. CASE Query
  <2>1. /\ pc = "query" /\ caps = << >> /\ caps' = caps
        /\ CallPc = "query" /\ CallCaps = << >>
    BY <1>1 DEF Query, CallInv, CallPc, CallCaps
  <2>2. CASE pc' = "done"
    <3>1. ~Decoder!HasCaps(in)
      BY <1>0, <1>1, <2>2 DEF Query, Decoder!HasCaps
    <3> QED
      BY <1>0, <2>1, <2>2, <3>1 DEF Decoder!DecNext, Decoder!ReturnNone,
                                    CallPc, CallCaps
  <2>3. CASE pc' = "failed"
    <3>1. in.capsFlag /\ in.argsz > Base /\ "RegionInfoCaps" \in Faults
      BY <1>1, <2>3 DEF Query
    <3> QED
      BY <1>0, <2>1, <2>3, <3>1 DEF Decoder!DecNext, Decoder!ReturnErr,
                                    CallPc, CallCaps
  <2>4. CASE pc' = "walk"
    BY <1>0, <2>1, <2>4 DEF Decoder!decVars, CallPc, CallCaps
  <2> QED
    BY <1>1, <2>2, <2>3, <2>4 DEF Query
<1>2. CASE Step
  <2>1. /\ pc = "walk" /\ CallPc = "query" /\ CallCaps = << >>
        /\ in.capsFlag /\ in.argsz > Base /\ in.capOffset >= Base
    BY <1>2 DEF Step, CallInv, CallPc, CallCaps
  <2>2. pc' \in {"walk", "done"}
    BY <1>2, Zenon DEF Step
  <2>3. CASE pc' = "walk"
    BY <1>0, <2>1, <2>3 DEF Decoder!decVars, CallPc, CallCaps
  <2>4. CASE pc' = "done"
    <3>1. DInv'
      BY NextDInv DEF CallInv
    <3>2. DecodedPrefix(caps', in.chain, Len(in.chain))
      BY <1>0, <2>1, <2>4, <3>1 DEF DInv, WalkInv
    <3>3. caps' \in Seq([id : KnownIds, areas : Nat])
      BY <3>1 DEF DInv, IInv, TInv, TypeOK
    <3>4. Decoder!Decoded(CallCaps', in.chain)
      BY <2>4, <3>2, <3>3, DecodedIsPrefix DEF CallCaps
    <3>5. Decoder!HasCaps(in)
      BY <2>1 DEF Decoder!HasCaps
    <3> QED
      BY <1>0, <2>1, <2>4, <3>4, <3>5 DEF Decoder!DecNext, Decoder!ReturnCaps,
                                          CallPc
  <2> QED
    BY <2>2, <2>3, <2>4
<1>3. CASE UNCHANGED vars
  BY <1>3 DEF vars, Decoder!decVars, CallPc, CallCaps
<1> QED
  BY <1>1, <1>2, <1>3 DEF Next

\* On well-formed, chained replies get_region_map implements the atomic
\* call of CapDecode: Ok with no capabilities when the reply has none, Err
\* only from a failed re-query, otherwise Ok with the chain decoded, the
\* walk itself invisible to the caller.
THEOREM CapDecodeRefinement ==
    ASSUME WellFormedInputs, ChainedInputs
    PROVE  Spec => ImplementsCapDecode
<1>1. Init => Decoder!DecInit
  BY DEF Init, Decoder!DecInit, CallPc, CallCaps
<1>2. CallInv /\ [Next]_vars => CallInv'
  BY NextCallInv
<1>3. CallInv /\ [Next]_vars => [Decoder!DecNext]_Decoder!decVars
  BY StepRefines
<1> QED
  BY <1>1, <1>2, <1>3, InitCallInv, PTL
     DEF Spec, ImplementsCapDecode, Decoder!DecSpec

\* On well-formed, chained replies the loop of get_region_map reads each
\* capability of the chain once: while it runs, it has done fewer
\* iterations than the chain has capabilities, so no bound on the
\* iterations at or above the chain's length is ever reached.
THEOREM WalkWithinChainThm ==
    ASSUME WellFormedInputs, ChainedInputs
    PROVE  Spec => [](pc = "walk" => iter < Len(in.chain))
<1>1. CallInv => (pc = "walk" => iter < Len(in.chain))
  BY DEF CallInv, DInv, WalkInv
<1>2. CallInv /\ [Next]_vars => CallInv'
  BY NextCallInv
<1> QED
  BY <1>1, <1>2, InitCallInv, PTL DEF Spec

=============================================================================
