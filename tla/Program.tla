-------------------------------- MODULE Program --------------------------------
(***************************************************************************)
(* The programs under analysis, as the constraint graph builder sees them  *)
(* (ConstraintGraph::buildCG over the statements of the SVFIR): variables, *)
(* memory objects with their fields, and the pointer-relevant statements.  *)
(***************************************************************************)
EXTENDS Naturals, FiniteSets

CONSTANTS
    Vars,       \* ValVar nodes: the top-level pointers
    Objs,       \* ObjVar nodes: base objects and their field objects
    Offsets,    \* the constant field offsets of geps
    BaseOf,     \* [Objs -> Objs]: getBaseObjVar, getFIObjVar
    FieldOf,    \* [Objs \X Offsets -> Objs]: getGepObjVar
    ConstObjs,  \* isConstantObj
    BlkObjs,    \* the black hole objects
    NonPtrs,    \* nodes whose isPointer() is false
    InitFI,     \* base objects that are field-insensitive from the start
    Programs    \* the programs: see Statements

Nodes == Vars \union Objs

ConstOrBlk == ConstObjs \union BlkObjs

ASSUME NodesAssumption ==
    /\ Nodes # {} /\ IsFiniteSet(Nodes)
    /\ Vars \intersect Objs = {}
    /\ Offsets \subseteq Nat
    /\ NonPtrs \subseteq Nodes

(***************************************************************************)
(* A field object has the base of the object it was taken from; constant   *)
(* and black hole objects have no fields, so they are their own base.      *)
(***************************************************************************)
ASSUME ObjectsAssumption ==
    /\ BaseOf \in [Objs -> Objs]
    /\ \A o \in Objs : BaseOf[BaseOf[o]] = BaseOf[o]
    /\ FieldOf \in [Objs \X Offsets -> Objs]
    /\ \A o \in Objs, k \in Offsets : BaseOf[FieldOf[<<o, k>>]] = BaseOf[o]
    /\ ConstObjs \subseteq Objs
    /\ BlkObjs \subseteq Objs
    /\ InitFI \subseteq Objs
    /\ \A o \in Objs : o \in ConstOrBlk <=> BaseOf[o] \in ConstOrBlk
    /\ \A o \in ConstOrBlk : BaseOf[o] = o

(***************************************************************************)
(* An edge is <<src, dst>>, and <<src, dst, offset>> for a gep with a      *)
(* constant offset.  A call [fptr, callee, params] stands for an indirect  *)
(* call site, one function object it may reach, and the argument and       *)
(* return copies to be connected when it does.                             *)
(***************************************************************************)
Calls == [fptr : Vars, callee : Objs, params : SUBSET (Nodes \X Nodes)]

Statements ==
    [addr  : SUBSET (Objs \X Vars),
     copy  : SUBSET (Nodes \X Nodes),
     load  : SUBSET (Nodes \X Nodes),
     store : SUBSET (Nodes \X Nodes),
     ngep  : SUBSET (Nodes \X Nodes \X Offsets),
     vgep  : SUBSET (Nodes \X Nodes),
     calls : SUBSET Calls]

(***************************************************************************)
(* Only the address of a base object is ever taken, and all other          *)
(* statements are about variables.  addCopyCGEdge drops a copy onto        *)
(* itself, addNormalGepCGEdge a second gep between the same ends; in SSA   *)
(* form no gep is made of its own result.  The ends of copies, also of     *)
(* those a call makes, are pointers (isPTAEdge and                         *)
(* connectCaller2CalleeParams).                                            *)
(***************************************************************************)
ASSUME ProgramsAssumption ==
    \A P \in Programs :
        /\ P \in Statements
        /\ \A e \in P.addr : BaseOf[e[1]] = e[1]
        /\ P.copy \union P.load \union P.store \union P.vgep \subseteq Vars \X Vars
        /\ P.ngep \subseteq Vars \X Vars \X Offsets
        /\ \A e \in P.copy \union P.ngep \union P.vgep : e[1] # e[2]
        /\ \A e, f \in P.ngep : e[1] = f[1] /\ e[2] = f[2] => e = f
        /\ \A c \in P.calls : c.params \subseteq Vars \X Vars
        /\ \A e \in P.copy \union UNION {c.params : c \in P.calls} :
              e[1] \notin NonPtrs /\ e[2] \notin NonPtrs
=============================================================================
