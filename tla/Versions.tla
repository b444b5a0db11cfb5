------------------------------ MODULE Versions ------------------------------
(* Protocol numbers and what the proxy concludes from them:                     *)
(* protocol/src/negotiation.rs.  A version is its protocol number; the number   *)
(* of an unknown version is any number outside Supported.                       *)
EXTENDS Integers, Sequences

(* ProtocolVersion::from_id and id, which are inverse on these numbers.         *)
Known == {73, 74, 78, 4, 5, 47, 107, 108, 109, 110, 210, 315, 316, 335, 338, 340, 393, 401, 404,
          477, 480, 485, 490, 498, 573, 575, 578, 735, 736, 751, 753, 754} \cup 755..776

(* VersionRegistry::SUPPORTED, in its order.                                    *)
Supported == <<4, 5, 47, 73, 74, 78, 107, 108, 109, 110, 210, 315, 316, 335, 338, 340, 393, 401,
               404, 477, 480, 485, 490, 498, 573, 575, 578, 735, 736, 751, 753, 754, 755, 756, 757,
               758, 759, 760, 761, 762, 763, 764, 765, 766, 767, 768, 769, 770, 771, 772, 773, 774,
               775, 776>>

IsSupported(p) == p \in Known

(* The epochs in the order of their declaration, which is how they compare.     *)
PreNetty == 0
V1_7 == 1
V1_8 == 2
V1_9_To_1_12 == 3
V1_13_To_1_15 == 4
V1_16 == 5
V1_17_To_1_18 == 6
V1_19 == 7
V1_20 == 8
V1_21Plus == 9
UnknownEpoch == 10

EpochOf(p) ==
    CASE p \in {73, 74, 78} -> PreNetty
      [] p \in {4, 5} -> V1_7
      [] p = 47 -> V1_8
      [] p \in Known /\ p \in 107..340 -> V1_9_To_1_12
      [] p \in Known /\ p \in 393..578 -> V1_13_To_1_15
      [] p \in Known /\ p \in 735..754 -> V1_16
      [] p \in 755..758 -> V1_17_To_1_18
      [] p \in 759..762 -> V1_19
      [] p \in 763..766 -> V1_20
      [] p \in 767..776 -> V1_21Plus
      [] OTHER -> UnknownEpoch

IsPreNetty(p) == EpochOf(p) = PreNetty
IsFlattened(p) == EpochOf(p) >= V1_13_To_1_15

HasConfigurationPhase(p) == p >= 764
HasChatSigning(p) == EpochOf(p) >= V1_19
HasLoginStartUuid(p) == p >= 761
HasMandatoryLoginStartUuid(p) == p >= 764

(* The version whose packet module serves p; an unknown one is served as 1.12.2.*)
CanonicalOf(p) ==
    IF p \in {775, 776} THEN 775
    ELSE CASE EpochOf(p) = PreNetty -> 78
           [] EpochOf(p) = V1_7 -> 5
           [] EpochOf(p) = V1_8 -> 47
           [] EpochOf(p) = V1_9_To_1_12 -> 340
           [] EpochOf(p) = V1_13_To_1_15 -> 578
           [] EpochOf(p) = V1_16 -> 754
           [] EpochOf(p) = V1_17_To_1_18 -> 758
           [] EpochOf(p) = V1_19 -> 762
           [] EpochOf(p) = V1_20 -> 765
           [] EpochOf(p) = V1_21Plus -> 767
           [] EpochOf(p) = UnknownEpoch -> 340

Distance(a, b) == IF a < b THEN b - a ELSE a - b

(* The closest supported number, the first of them on a tie (min_by_key).       *)
Nearest(p) ==
    IF IsSupported(p) THEN p
    ELSE LET best == CHOOSE i \in DOMAIN Supported :
                        \A j \in DOMAIN Supported :
                            LET d == Distance(Supported[j], p) - Distance(Supported[i], p)
                            IN  d > 0 \/ (d = 0 /\ i <= j)
         IN  Supported[best]
=============================================================================
