------------------------------ MODULE TagPolicy ------------------------------
(***************************************************************************)
(* The protection that the processor is tested for: tags on memory, PMP    *)
(* slots and ststatus.  The processor is not part of the repository; this  *)
(* is what mpu_tag.c expects of it, with the reasons its comments give.    *)
(***************************************************************************)
EXTENDS Naturals

(* tag.h *)
T_NORMAL   == 0
T_CALLABLE == 1
T_UTRUSTED == 2
T_STRUSTED == 3
TagSet     == 0..3

(* The tag of the code that runs decides: trusted or normal, user or not.  *)
Domain(mode, tag) ==
  IF mode = "U" THEN (IF tag = T_NORMAL THEN "UN" ELSE "UT")
                ELSE (IF tag = T_NORMAL THEN "SN" ELSE "ST")

Readable == [ST |-> TagSet, SN |-> {T_NORMAL},
             UT |-> {T_NORMAL, T_CALLABLE, T_UTRUSTED}, UN |-> {T_NORMAL}]
Writable == [ST |-> TagSet, SN |-> {T_NORMAL},
             UT |-> {T_NORMAL, T_UTRUSTED}, UN |-> {T_NORMAL}]
Fetchable == [ST |-> TagSet \ {T_UTRUSTED}, SN |-> {T_NORMAL, T_CALLABLE},
              UT |-> TagSet \ {T_STRUSTED}, UN |-> {T_NORMAL, T_CALLABLE}]

(* User code that is interrupted or disabled is not entered from UN. *)
Enterable(domain, tag, ststatus) ==
  domain = "UN" /\ tag = T_CALLABLE => "UE" \in ststatus /\ "UI" \notin ststatus

(* lbct and its kin fault on another tag than the expected one; value is   *)
(* the expected tag, or 4 * expected + new for the stores.                 *)
TagAllows(kind, value, domain, tag, ststatus) ==
  \/ kind \in {"ltag", "ltt"}
  \/ kind = "load"  /\ tag \in Readable[domain]
  \/ kind = "store" /\ tag \in Writable[domain]
  \/ kind = "fetch" /\ tag \in Fetchable[domain] /\ Enterable(domain, tag, ststatus)
  \/ kind = "stag"  /\ domain = "ST"
  \/ kind = "stag"  /\ {tag, value} \subseteq Writable[domain]
  \/ kind = "sttcb" /\ domain = "ST"
  \/ kind = "lct"   /\ value = tag
  \/ kind = "sct"   /\ value \div 4 = tag

-----------------------------------------------------------------------------
(* A slot covers the regions from base to before bound. *)
Covers(slot, region) == slot.base <= region /\ region < slot.bound
Right == [load |-> "R", store |-> "W", fetch |-> "X"]
Rights(kind, tag) ==
  {Right[kind]} \cup IF kind = "fetch" /\ tag # T_NORMAL THEN {"T", "A"} ELSE {}

(* User mode needs a slot that grants the access, for trusted code one     *)
(* that is acknowledged.  The supervisor runs no code that is mapped for   *)
(* the user, and in ST only what a machine slot opens.                     *)
MapAllows(kind, mode, domain, tag, region, spmp, mpmp) ==
  \/ kind \notin DOMAIN Right \/ mode = "M"
  \/ /\ mode = "U"
     /\ \E i \in DOMAIN spmp : Covers(spmp[i], region) /\ Rights(kind, tag) \subseteq spmp[i].flags
  \/ mode = "S" /\ kind # "fetch"
  \/ /\ mode = "S" /\ kind = "fetch"
     /\ \A i \in DOMAIN spmp : ~(Covers(spmp[i], region) /\ spmp[i].flags # {})
     /\ domain = "ST" => \E i \in DOMAIN mpmp : Covers(mpmp[i], region) /\ {"X", "ST"} \subseteq mpmp[i].flags

TagCause(kind) == IF kind \in {"stag", "sttcb"} THEN "illegal" ELSE "tag_mismatch"
MapCause == [load |-> "load_access", store |-> "store_access", fetch |-> "fetch_access"]

(* A write of normal supervisor code takes the acknowledgement away. *)
Acknowledged(domain, flags) == IF domain = "SN" THEN flags \ {"A"} ELSE flags
=============================================================================
