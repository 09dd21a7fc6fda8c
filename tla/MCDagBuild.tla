----------------------------- MODULE MCDagBuild -----------------------------
(* Small configurations for DagBuild.                                      *)
EXTENDS DagBuild

CONSTANTS CField, IField

Idle == [commonReads |-> {}, commonWrites |-> {}, itemReads |-> {},
         itemWrites |-> {}, additive |-> FALSE, consumes |-> FALSE,
         mutates |-> FALSE, sources |-> {}]

(* Every declaration over one item field that validate_config accepts.     *)
EveryItemShape ==
    {[Idle EXCEPT !.itemReads = r, !.itemWrites = w, !.additive = m[1],
                  !.consumes = m[2], !.mutates = m[3]] :
        r \in SUBSET {IField}, w \in SUBSET {IField},
        m \in {x \in BOOLEAN \X BOOLEAN \X BOOLEAN : ~(x[1] /\ x[3])}}

(* One declaration per operator type, over a common and an item field,     *)
(* and transforms with explicit sources: a good one, a forward reference   *)
(* for whoever stands at or before position 3, an unknown name.            *)
RecallShape    == [Idle EXCEPT !.itemWrites = {IField}, !.additive = TRUE]
TransformShape == [Idle EXCEPT !.itemReads = {IField}, !.commonWrites = {CField}]
DispatchShape  == [Idle EXCEPT !.commonReads = {CField}, !.itemWrites = {IField}]
FilterShape    == [Idle EXCEPT !.itemReads = {IField}, !.mutates = TRUE]
CountShape     == [Idle EXCEPT !.commonWrites = {CField}, !.consumes = TRUE]
ObserveShape   == [Idle EXCEPT !.commonReads = {CField}, !.itemReads = {IField}]
Linked(S)      == [Idle EXCEPT !.commonReads = {CField}, !.sources = S]

TypicalShapes ==
    {RecallShape, TransformShape, DispatchShape, FilterShape, CountShape,
     ObserveShape, Linked({1}), Linked({3}), Linked({0})}

AllShapes == TypicalShapes \cup EveryItemShape
=============================================================================
