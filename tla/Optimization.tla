---------------------------- MODULE Optimization ----------------------------
(***************************************************************************)
(* The media storage (mediaStorage.go), the table media_optimized, which   *)
(* relates an image to the smaller variants imgproxy made of it, and       *)
(* mediaOptimization.go: making the variants of an image, and deleting a   *)
(* file with its variants.  A file is named by the hash of its content, so *)
(* that two images may have a variant in common.  Storage and table are    *)
(* changed one after the other, and nothing keeps two operations on the    *)
(* same image apart.                                                       *)
(***************************************************************************)
EXTENDS Integers, FiniteSets

CONSTANTS
  None,
  Images,      \* files that are uploaded
  Names,       \* all files, of images and of variants
  Types,       \* the configured formats and widths
  VariantOf,   \* the variant imgproxy makes of a file, by type
  PictureOf,   \* files with the same picture look alike to the migration
  MaxFaults    \* bound of the model: failing calls and crashes

ASSUME FilesAssumption ==
  /\ Images \subseteq Names /\ None \notin Names
  /\ VariantOf \in [Names -> [Types -> Names \ Images]]
  /\ \A name \in Names, type \in Types : PictureOf[VariantOf[name][type]] = PictureOf[name]
  /\ MaxFaults \in Nat

VARIABLES
  files,    \* the files in the storage
  rows,     \* table media_optimized
  faults,   \* calls that have failed so far
  suspect,  \* history: files whose rows and variants may be out of step
  lost      \* history: files that may be missing although a post shows them

fileVars == <<files, rows, faults, suspect, lost>>

Row == [original : Names, type : Types, optimized : Names]

FilesTypeOK ==
  /\ files \subseteq Names
  /\ rows \subseteq Row
  /\ faults \in 0 .. MaxFaults
  /\ suspect \subseteq Names /\ lost \subseteq Names

\* Images that were there before optimization was enabled.
FilesInit ==
  /\ files \in SUBSET Images
  /\ rows = {} /\ faults = 0
  /\ suspect = {} /\ lost = {}

-----------------------------------------------------------------------------
ByOriginal(name)  == {r \in rows : r.original = name}
ByOptimized(name) == {r \in rows : r.optimized = name}
Naming(name)      == ByOriginal(name) \cup ByOptimized(name)
Originals(some)   == {r.original : r \in some}
Optimized(some)   == {r.optimized : r \in some}

\* insert or replace: the original and the type are the key.
InsertRow(name, type) ==
  rows' = {r \in rows : r.original # name \/ r.type # type}
          \cup {[original |-> name, type |-> type, optimized |-> VariantOf[name][type]]}

Fault == faults < MaxFaults /\ faults' = faults + 1

\* A file an operation on this file may write or delete.
Touched(name) == {name} \cup {VariantOf[name][type] : type \in Types}

-----------------------------------------------------------------------------
CONSTANTS Clients, Migrator   \* requests of the server, the command "media migrate"

ASSUME ProcessesAssumption == Migrator \notin Clients

Procs == Clients \cup {Migrator}

VARIABLE op   \* the operation of every process

optVars == <<fileVars, op>>

(***************************************************************************)
(* list: variants that are still to be deleted; todo: types that are still *)
(* to be made; saved: types whose file is there and whose row is not.      *)
(***************************************************************************)
Operation ==
  [at : {"idle", "list", "dropOld", "make",
         "isVariant", "dropRows", "listVariants", "dropVariants", "dropFile"},
   name : Names \cup {None}, list : SUBSET Names,
   todo : SUBSET Types, saved : SUBSET Types]

NoOp == [at |-> "idle", name |-> None, list |-> {}, todo |-> {}, saved |-> {}]

OpTypeOK == op \in [Procs -> Operation]
OpInit   == op = [p \in Procs |-> NoOp]

At(p, at)   == op[p].at = at
Goto(p, at) == op' = [op EXCEPT ![p].at = at]
Return(p)   == op' = [op EXCEPT ![p] = NoOp]

\* Files of the operations of others that this file has to do with.
Shared(p, name) ==
  {n \in Names : \E q \in Procs \ {p} :
     ~At(q, "idle") /\ Touched(op[q].name) \cap Touched(name) # {}
       /\ n \in Touched(name) \cup Touched(op[q].name)}

\* An operation on a file begins.
Begins(p, at, name) ==
  /\ At(p, "idle")
  /\ op' = [op EXCEPT ![p] = [NoOp EXCEPT !.at = at, !.name = name]]
  /\ suspect' = suspect \cup Shared(p, name)

Optimizes(p, name) == Begins(p, "list", name)
Deletes(p, name)   == Begins(p, "isVariant", name)

\* What is done with the file is not certain any more.
Doubt(names) == suspect' = suspect \cup names
Certain == UNCHANGED <<faults, suspect>>

-----------------------------------------------------------------------------
(***************************************************************************)
(* One of the listed variants is deleted; its error is ignored.  It may be *)
(* a variant of another image, too, or what a migration made posts show,   *)
(* or have variants of its own.                                            *)
(***************************************************************************)
DropListed(p) ==
  \E v \in op[p].list :
    /\ op' = [op EXCEPT ![p].list = @ \ {v}]
    /\ \/ files' = files \ {v} /\ UNCHANGED faults
       \/ UNCHANGED files /\ Fault
    /\ Doubt(IF faults' > faults \/ Naming(v) \ ByOriginal(op[p].name) # {}
             THEN {v} ELSE {})
    /\ lost' = lost \cup {v}
    /\ UNCHANGED rows

-----------------------------------------------------------------------------
(***************************************************************************)
(* optimizeMediaFile.                                                      *)
(***************************************************************************)

\* imgproxy does not answer: nothing is changed.
Unreachable(p) ==
  /\ At(p, "list") /\ Return(p)
  /\ UNCHANGED fileVars

\* The variants that are there.  Without an answer none is deleted.
ListOld(p) ==
  /\ At(p, "list")
  /\ \/ /\ op' = [op EXCEPT ![p].at = "dropOld",
                            ![p].list = Optimized(ByOriginal(op[p].name))]
        /\ Certain
     \/ /\ op' = [op EXCEPT ![p].at = "make", ![p].todo = Types]
        /\ Fault /\ UNCHANGED suspect
  /\ UNCHANGED <<files, rows, lost>>

DropOld(p) == At(p, "dropOld") /\ DropListed(p)

\* Mistake: the rows of the old variants stay.
DropOldRowsNot(p) ==
  /\ At(p, "dropOld") /\ op[p].list = {}
  /\ op' = [op EXCEPT ![p].at = "make", ![p].todo = Types]
  /\ Certain
  /\ UNCHANGED <<files, rows, lost>>

\* The rows of the old variants.  An error is ignored.
DropOldRows(p) ==
  /\ At(p, "dropOld") /\ op[p].list = {}
  /\ op' = [op EXCEPT ![p].at = "make", ![p].todo = Types]
  /\ \/ rows' = rows \ ByOriginal(op[p].name) /\ Certain
     \/ UNCHANGED rows /\ Fault /\ Doubt(Touched(op[p].name))
  /\ UNCHANGED <<files, lost>>

\* imgproxy fetches the image from the storage; the variant is saved.
Make(p, type) ==
  /\ At(p, "make") /\ type \in op[p].todo
  /\ \/ /\ op[p].name \in files
        /\ files' = files \cup {VariantOf[op[p].name][type]}
        /\ op' = [op EXCEPT ![p].todo = @ \ {type}, ![p].saved = @ \cup {type}]
        /\ UNCHANGED faults
     \/ /\ UNCHANGED files
        /\ op' = [op EXCEPT ![p].todo = @ \ {type}]
        /\ IF op[p].name \in files THEN Fault ELSE UNCHANGED faults
  /\ UNCHANGED <<rows, suspect, lost>>

Record(p, type) ==
  /\ At(p, "make") /\ type \in op[p].saved
  /\ op' = [op EXCEPT ![p].saved = @ \ {type}]
  /\ \/ InsertRow(op[p].name, type) /\ Certain
     \/ UNCHANGED rows /\ Fault /\ Doubt(Touched(op[p].name))
  /\ UNCHANGED <<files, lost>>

\* wg.Wait
Made(p) ==
  /\ At(p, "make") /\ op[p].todo = {} /\ op[p].saved = {}
  /\ Return(p)
  /\ UNCHANGED fileVars

-----------------------------------------------------------------------------
(***************************************************************************)
(* deleteOptimizedMediaFile.                                               *)
(***************************************************************************)

\* A variant of something, or an image?  Without an answer it counts as an image.
IsVariant(p) ==
  /\ At(p, "isVariant")
  /\ \/ /\ Goto(p, IF ByOptimized(op[p].name) # {} THEN "dropRows" ELSE "listVariants")
        /\ Certain
     \/ Goto(p, "listVariants") /\ Fault /\ Doubt({op[p].name})
  /\ UNCHANGED <<files, rows, lost>>

\* Variants that were made of the variant itself keep their rows.
DropRows(p) ==
  LET name == op[p].name IN
  /\ At(p, "dropRows")
  /\ \/ /\ rows' = rows \ ByOptimized(name)
        /\ Goto(p, "dropFile") /\ UNCHANGED faults
        /\ Doubt(IF ByOriginal(name) \subseteq ByOptimized(name) THEN {} ELSE {name})
     \/ Return(p) /\ Fault /\ UNCHANGED <<rows, suspect>>
  /\ UNCHANGED <<files, lost>>

ListVariants(p) ==
  /\ At(p, "listVariants")
  /\ \/ /\ op' = [op EXCEPT ![p].at = "dropVariants",
                            ![p].list = Optimized(ByOriginal(op[p].name))]
        /\ UNCHANGED faults
     \/ Return(p) /\ Fault
  /\ UNCHANGED <<files, rows, suspect, lost>>

DropVariants(p) == At(p, "dropVariants") /\ DropListed(p)

DropVariantRows(p) ==
  /\ At(p, "dropVariants") /\ op[p].list = {}
  /\ \/ /\ rows' = rows \ ByOriginal(op[p].name)
        /\ Goto(p, "dropFile") /\ Certain
     \/ Return(p) /\ Fault /\ Doubt(Touched(op[p].name)) /\ UNCHANGED rows
  /\ UNCHANGED <<files, lost>>

\* The file itself, at last.
DropFile(p) ==
  /\ At(p, "dropFile")
  /\ Return(p)
  /\ \/ files' = files \ {op[p].name} /\ UNCHANGED faults
     \/ UNCHANGED files /\ Fault
  /\ Doubt(IF faults' > faults THEN {op[p].name} ELSE {})
  /\ UNCHANGED <<rows, lost>>

OptimizationStep(p) ==
  \/ Unreachable(p) \/ ListOld(p) \/ DropOld(p) \/ DropOldRows(p)
  \/ (\E type \in Types : Make(p, type) \/ Record(p, type)) \/ Made(p)
  \/ IsVariant(p) \/ DropRows(p)
  \/ ListVariants(p) \/ DropVariants(p) \/ DropVariantRows(p)
  \/ DropFile(p)
=============================================================================
