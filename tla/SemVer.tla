------------------------------- MODULE SemVer -------------------------------
(***************************************************************************)
(* The order of versions (core/release/semver.go) that downgrade           *)
(* protection, the migration floor, the release walk, retention and the    *)
(* garbage collection all rest on.  The other modules take versions to be  *)
(* natural numbers in this order; that is sound only if the order is       *)
(* total and transitive on every string the code accepts as a version,     *)
(* which module DeliveryProofs proves.                                     *)
(*                                                                         *)
(* A version is its three numeric fields and the identifiers of its        *)
(* pre-release part.  Numeric fields are unbounded, as ValidVersion takes  *)
(* any run of digits; build metadata takes no part and is left out.        *)
(***************************************************************************)
EXTENDS Integers, Sequences

CONSTANT MaxUint   \* the largest value of a uint64

\* One dot-separated identifier of a pre-release: whether it is all digits, whether it
\* has a leading zero in front of more, its value if it is a number, and its place
\* among all identifiers as strings.
Ident == [digits : BOOLEAN, padded : BOOLEAN, value : Nat, rank : Nat]
Version == [nums : [1..3 -> Nat], pre : Seq(Ident)]

sign(x, y) == IF x < y THEN -1 ELSE 1

\* What strconv.ParseUint cannot hold becomes the largest value it can.
parseVersion(v) ==
  [nums |-> [i \in 1..3 |-> IF v.nums[i] <= MaxUint THEN v.nums[i] ELSE MaxUint],
   pre  |-> v.pre]

\* "01" is not read as 1, and a number beyond uint64 is not read as a number at all.
numericIdent(s) == s.digits /\ ~s.padded /\ s.value <= MaxUint

\* What an identifier is compared by among those of its own sort.
weight(s) == IF numericIdent(s) THEN s.value ELSE s.rank

\* Numeric identifiers rank below the others.
comparePreField(a, b) ==
  IF numericIdent(a) /\ ~numericIdent(b) THEN -1
  ELSE IF ~numericIdent(a) /\ numericIdent(b) THEN 1
  ELSE IF weight(a) = weight(b) THEN 0 ELSE sign(weight(a), weight(b))

Least(S) == CHOOSE i \in S : \A j \in S : i <= j

numsDiffer(a, b) == {i \in 1..3 : a.nums[i] # b.nums[i]}
preDiffer(a, b) ==
  {i \in DOMAIN a.pre \cap DOMAIN b.pre : comparePreField(a.pre[i], b.pre[i]) # 0}

\* The pre-release parts: none outranks any, then the first field that differs, then
\* the longer one.
comparePre(a, b) ==
  IF Len(a.pre) = 0 \/ Len(b.pre) = 0
  THEN IF Len(a.pre) = Len(b.pre) THEN 0 ELSE sign(Len(b.pre), Len(a.pre))
  ELSE IF preDiffer(a, b) # {}
  THEN comparePreField(a.pre[Least(preDiffer(a, b))], b.pre[Least(preDiffer(a, b))])
  ELSE IF Len(a.pre) = Len(b.pre) THEN 0 ELSE sign(Len(a.pre), Len(b.pre))

compareParsed(a, b) ==
  IF numsDiffer(a, b) # {}
  THEN sign(a.nums[Least(numsDiffer(a, b))], b.nums[Least(numsDiffer(a, b))])
  ELSE comparePre(a, b)

Compare(a, b) == compareParsed(parseVersion(a), parseVersion(b))

Newer(a, b) == Compare(a, b) > 0
=============================================================================
