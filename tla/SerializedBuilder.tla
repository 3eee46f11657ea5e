--------------------------- MODULE SerializedBuilder ---------------------------
(***************************************************************************)
(* What WKBArrayBuilder and WKTArrayBuilder have in common: they write a   *)
(* feature's calls into a BinaryArrayBuilder, with a stack of what is open.*)
(***************************************************************************)
EXTENDS FeatureReader, BinaryBuilder

VARIABLES
  b,        (* string_builder_                                              *)
  open,     (* stack_: the open geometries                                  *)
  dims,     (* dimensions_                                                  *)
  released, (* whether release() was called                                 *)
  calls,    (* history: the calls of the current feature                    *)
  elements, (* history: the calls of each feature read, << >> for a null    *)
  ends      (* history: data written when each element was finished         *)

Back == open[Len(open)]

(* Calls as a reader of the output would make them: sizes are left out,    *)
(* since the calls that follow tell them.                                  *)
GeomCall(t, d) == [call |-> "geom_start", type |-> t, dim |-> d]
RingCall == [call |-> "ring_start", type |-> "", dim |-> ""]
EndCall == [call |-> "end", type |-> "", dim |-> ""]

(***************************************************************************)
(* Properties                                                              *)
(***************************************************************************)
(* Every exported offset is the amount of data that had been written when  *)
(* its element was finished, however much it is and whenever the offsets   *)
(* became 64-bit: none is lost, repeated or wrapped (reserve_data(),       *)
(* finish_element()).                                                      *)
OffsetsExact == Offsets(b) = <<0>> \o ends

(* Between features there is one element per feature read, null exactly    *)
(* where the feature was (null_feat(), feat_end()).                        *)
OneElementPerFeature ==
  phase \in {"between", "read"} =>
    /\ Len(b.valid) = Len(features)
    /\ \A i \in 1 .. Len(features) : b.valid[i] = ~features[i].null
==============================================================================
