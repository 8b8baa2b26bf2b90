------------------------ MODULE VolumeRequestProofs ------------------------
(***************************************************************************)
(* What getSizeRequest computes, proved for every size of a GiB, every     *)
(* choice of the provider's bounds and every capacity range.               *)
(***************************************************************************)
EXTENDS VolumeRequest, TLAPS

\* The facts about integer division that the size computation rests on:
\* b \div g is the largest number of whole g in b.
LEMMA Division ==
  ASSUME NEW g \in Nat \ {0}, NEW b \in Nat
  PROVE  /\ b \div g \in Nat
         /\ (b \div g) * g <= b
         /\ b < (b \div g + 1) * g
<1>1. b \div g \in Nat
  BY SMT
<1>2. b = g * (b \div g) + (b % g) /\ b % g \in 0 .. (g - 1)
  BY SMT
<1> QED
  BY <1>1, <1>2, SMT

\* Multiplication is monotonic.
LEMMA TimesMonotonic ==
  ASSUME NEW g \in Nat \ {0}, NEW m \in Nat, NEW n \in Nat, m <= n
  PROVE  m * g <= n * g
  BY SMT

\* A number of whole g that fits in b is at most b \div g.
LEMMA DivisionLargest ==
  ASSUME NEW g \in Nat \ {0}, NEW b \in Nat, NEW s \in Nat, s * g <= b
  PROVE  s <= b \div g
<1>1. b \div g \in Nat /\ b < (b \div g + 1) * g
  BY Division
<1>2. SUFFICES ASSUME b \div g + 1 <= s PROVE FALSE
  BY <1>1, SMT
<1>3. (b \div g + 1) * g <= s * g
  BY <1>1, <1>2, TimesMonotonic, SMT
<1> QED
  BY <1>1, <1>3, SMT

-----------------------------------------------------------------------------
\* Every request, with a capacity range or without, asks for a size on offer.
THEOREM SizeOnOffer ==
  ASSUME NEW r \in CapacityRange
  PROVE  getSizeRequest(r) \in Size
<1>1. Requested(r) \in Nat
  BY Division, GibiAssumption, SizeAssumption, SMT DEF Requested, CapacityRange
<1> QED
  BY <1>1, SizeAssumption DEF getSizeRequest, Within, Size

\* For a range that names a bound the size is the largest on offer that fits
\* in the bound, or the smallest on offer when none fits: the computation by
\* division and clamping of getSizeRequest (controller.go:50-79) meets its
\* reference definition.
THEOREM SizeIsLargest ==
  ASSUME NEW r \in CapacityRange, Bounded(r)
  PROVE  LargestThatFits(r, getSizeRequest(r))
<1> DEFINE bytes   == IF r.limit # 0 THEN r.limit ELSE r.required
           whole   == bytes \div Gibi
           size    == getSizeRequest(r)
           fitting == {s \in Size : s * Gibi <= bytes}
<1>1. bytes \in Nat
  BY DEF CapacityRange
<1>2. size = Within(whole)
  BY DEF getSizeRequest, Requested, Bounded
<1>3. whole \in Nat /\ whole * Gibi <= bytes
  BY <1>1, GibiAssumption, Division
<1>4. \A s \in fitting : s <= whole
  BY <1>1, GibiAssumption, SizeAssumption, DivisionLargest DEF Size
<1>5. size \in Size
  BY SizeOnOffer
<1>6. whole \in Nat /\ (\A s \in fitting : s \in Size)
  BY <1>3
<1> HIDE DEF whole, size, bytes
<1>7. ASSUME fitting = {} PROVE size = MinVolumeSizeGi
  <2>1. SUFFICES ASSUME whole >= MinVolumeSizeGi PROVE FALSE
    BY <1>2, <1>3, SizeAssumption DEF Within
  <2>2. size <= whole
    BY <1>2, <1>3, <2>1, SizeAssumption DEF Within
  <2>3. size * Gibi <= whole * Gibi
    BY <1>3, <1>5, <2>2, GibiAssumption, SizeAssumption, TimesMonotonic DEF Size
  <2>4. size * Gibi \in Nat /\ whole * Gibi \in Nat
    BY <1>3, <1>5, GibiAssumption, SizeAssumption DEF Size
  <2>5. size \in fitting
    BY <1>1, <1>3, <1>5, <2>3, <2>4
  <2> QED
    BY <1>7, <2>5
<1>8. ASSUME fitting # {} PROVE size \in fitting /\ \A s \in fitting : s <= size
  <2>1. PICK f \in fitting : TRUE
    BY <1>8
  <2>2. f <= whole /\ f \in Size
    BY <1>4, <2>1
  <2>3. size <= whole
    BY <1>2, <1>3, <2>2, SizeAssumption DEF Within, Size
  <2>4. size * Gibi <= whole * Gibi
    BY <1>3, <1>5, <2>3, GibiAssumption, SizeAssumption, TimesMonotonic DEF Size
  <2>5. size * Gibi \in Nat /\ whole * Gibi \in Nat
    BY <1>3, <1>5, GibiAssumption, SizeAssumption DEF Size
  <2>6. size \in fitting
    BY <1>1, <1>3, <1>5, <2>4, <2>5
  <2>7. \A s \in fitting : s <= size
    BY <1>2, <1>3, <1>4, SizeAssumption DEF Within, Size
  <2> QED
    BY <2>6, <2>7
<1> QED
  BY <1>5, <1>7, <1>8 DEF LargestThatFits, bytes, size

\* A granted capacity is granted again (controller.go:50-79, 137-139).
THEOREM GrantedAgain ==
  ASSUME NEW size \in Size
  PROVE  AskedAgain(size)
<1>1. SUFFICES ASSUME NEW limit \in {0, size * Gibi},
                      NEW required \in {0, size * Gibi},
                      Bounded([given |-> TRUE, limit |-> limit,
                               required |-> required])
               PROVE  getSizeRequest([given |-> TRUE, limit |-> limit,
                                      required |-> required]) = size
  BY DEF AskedAgain
<1> DEFINE r == [given |-> TRUE, limit |-> limit, required |-> required]
<1>2. size \in Nat /\ size * Gibi \in Nat
  BY GibiAssumption, SizeAssumption DEF Size
<1>3. r \in CapacityRange /\ Bounded(r)
  BY <1>1, <1>2 DEF CapacityRange
<1>4. (IF r.limit # 0 THEN r.limit ELSE r.required) = size * Gibi
  BY <1>1 DEF Bounded
<1> HIDE DEF r
<1>5. LargestThatFits(r, getSizeRequest(r))
  BY <1>3, SizeIsLargest
<1>6. /\ size * Gibi <= size * Gibi
      /\ getSizeRequest(r) \in Size
      /\ getSizeRequest(r) * Gibi <= size * Gibi
      /\ size <= getSizeRequest(r)
  BY <1>2, <1>4, <1>5 DEF LargestThatFits
<1>7. getSizeRequest(r) <= size
  <2>1. SUFFICES ASSUME size + 1 <= getSizeRequest(r) PROVE FALSE
    BY <1>2, <1>6, SizeAssumption DEF Size
  <2>2. (size + 1) * Gibi <= getSizeRequest(r) * Gibi
    BY <1>2, <1>6, <2>1, GibiAssumption, SizeAssumption, TimesMonotonic DEF Size
  <2> QED
    BY <1>2, <1>6, <2>2, GibiAssumption, SizeAssumption, SMT DEF Size
<1> QED
  BY <1>2, <1>6, <1>7, SizeAssumption DEF r, Size

=============================================================================
