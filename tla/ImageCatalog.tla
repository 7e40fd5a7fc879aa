---------------------------- MODULE ImageCatalog ----------------------------
(***************************************************************************)
(* The catalog of developer disk image sets (devicehub-host                *)
(* developer_image.rs) behind its HTTP handlers: refreshes, imports,       *)
(* removals and changes of the custom directories run concurrently on      *)
(* blocking threads, without a lock around disk and index.  A set is named *)
(* by the digest of its files, so the same set imported twice has the same *)
(* directory.                                                              *)
(***************************************************************************)
EXTENDS Naturals, FiniteSets

CONSTANTS
    ImageSets,     \* sets that may be imported
    CustomSets,    \* sets in directories the user may configure
    XcodeSets,     \* sets that belong to Xcode
    KindOf,        \* kind of each set
    ForeignFiles,  \* the files of a custom or Xcode set
    Callers,       \* requests under way
    NoSet,
    MaxCrashes     \* bound: crashes of the host

ForeignSets == CustomSets \cup XcodeSets
AllSets == ImageSets \cup ForeignSets
Files == {"metadata", "image", "auxiliary", "manifest"}

ASSUME CatalogAssumption ==
    /\ NoSet \notin AllSets /\ MaxCrashes \in Nat
    /\ KindOf \in [AllSets -> {"Legacy", "Personalized"}]
    /\ ForeignFiles \in [ForeignSets -> SUBSET Files]

VARIABLES
    disk,        \* the files of each managed set, {} when it has no directory
    index,       \* set id -> its source
    roots,       \* the configured custom directories, named by their sets
    work,        \* what each request is doing
    removing,    \* sets whose removal was begun since they were imported
    crashes

catalogVars == <<disk, index, roots, work, removing, crashes>>

Free == [op |-> "none", set |-> NoSet, at |-> "none", todo |-> {}, seen |-> {}, custom |-> {}]
End(c) == [work EXCEPT ![c] = Free]
Deleting(s) == \E c \in Callers : work[c].at = "deleting" /\ work[c].set = s

\* The files an upload must consist of, exactly (ImportedSet::parse).
Parts(s) == IF KindOf[s] = "Legacy" THEN {"image", "auxiliary"} ELSE {"image", "auxiliary", "manifest"}

\* scan_managed_set: metadata, both assets and, for a personalized set, a
\* manifest that links them.
Complete(s) == Parts(s) \cup {"metadata"} \subseteq disk[s]

\* scan_personalized_bundle: nothing without a manifest and one variant it
\* links; scan_legacy_set and catalog_entry_from_files: image and signature.
ScanPersonalizedBundle(s) == KindOf[s] = "Personalized" /\ {"manifest", "image", "auxiliary"} \subseteq ForeignFiles[s]
ScanLegacySet(s) == KindOf[s] = "Legacy" /\ {"image", "auxiliary"} \subseteq ForeignFiles[s]
ScanCustomSets(dirs) == {s \in dirs : ScanPersonalizedBundle(s) \/ ScanLegacySet(s)}
ScanXcodeSets == {s \in XcodeSets : ScanPersonalizedBundle(s) \/ ScanLegacySet(s)}

\* refresh_sync: managed sets first, others only under an id still free.
Indexed(managed, custom) ==
    [s \in managed \cup custom \cup ScanXcodeSets |->
        IF s \in managed THEN "managed" ELSE IF s \in custom THEN "custom" ELSE "xcode"]

CatalogInit ==
    /\ disk = [s \in ImageSets |-> {}] /\ roots \in SUBSET CustomSets
    /\ index = Indexed({}, ScanCustomSets(roots))
    /\ work = [c \in Callers |-> Free] /\ removing = {} /\ crashes = 0

----------------------------------------------------------------------------
(* Scans                                                                   *)

\* managed_roots lists the directory; each one is read in turn.
BeginScan(c) == [work EXCEPT ![c].at = "scan", ![c].todo = ImageSets, ![c].seen = {}]

RefreshImages(c) ==
    /\ work[c] = Free
    /\ work' = [BeginScan(c) EXCEPT ![c].op = "refresh"]
    /\ UNCHANGED <<disk, index, roots, removing, crashes>>

\* set_custom_roots, after validate_custom_roots.
SetCustomRoots(c, dirs) ==
    /\ work[c] = Free /\ roots' = dirs
    /\ work' = [BeginScan(c) EXCEPT ![c].op = "refresh"]
    /\ UNCHANGED <<disk, index, removing, crashes>>

ScanManagedSet(c, s) ==
    /\ work[c].at = "scan" /\ s \in work[c].todo
    /\ work' = [work EXCEPT ![c].todo = @ \ {s},
                            ![c].seen = IF Complete(s) THEN @ \cup {s} ELSE @]
    /\ UNCHANGED <<disk, index, roots, removing, crashes>>

\* The custom directories configured by now.
ScanForeign(c) ==
    /\ work[c].at = "scan" /\ work[c].todo = {}
    /\ work' = [work EXCEPT ![c].at = "publish", ![c].custom = ScanCustomSets(roots)]
    /\ UNCHANGED <<disk, index, roots, removing, crashes>>

\* The index is replaced by what this scan saw, however old that is.
PublishIndex(c) ==
    /\ work[c].at = "publish"
    /\ index' = Indexed(work[c].seen, work[c].custom) /\ work' = End(c)
    /\ UNCHANGED <<disk, roots, removing, crashes>>

----------------------------------------------------------------------------
(* Imports                                                                 *)

\* import_developer_image: one to three files, each of an accepted type and
\* within its limit, no name twice.
Uploads == SUBSET (Files \ {"metadata"}) \ {{}}

\* import_sync: refused when the upload is not exactly a set or when the
\* directory exists, else the files go to a directory of their own.
ImportSet(c, s, upload) ==
    /\ work[c] = Free /\ upload = Parts(s) /\ disk[s] = {}
    /\ work' = [work EXCEPT ![c] = [Free EXCEPT !.op = "import", !.set = s, !.at = "written"]]
    /\ UNCHANGED <<disk, index, roots, removing, crashes>>

Committed(c, s) ==
    /\ disk[s] = {} /\ disk' = [disk EXCEPT ![s] = Parts(s) \cup {"metadata"}]
    /\ removing' = IF Deleting(s) THEN removing ELSE removing \ {s}
    /\ work' = BeginScan(c)

MutantCommitImport(c) ==
    /\ work[c].at = "written"
    /\ \/ Committed(c, work[c].set)
       \/ disk' = [disk EXCEPT ![work[c].set] = {}] /\ work' = End(c) /\ UNCHANGED removing
    /\ UNCHANGED <<index, roots, crashes>>

\* The rename that makes the set visible; it fails when another import was
\* faster, as any write may, and then the temporary directory is removed.
CommitImport(c) ==
    /\ work[c].at = "written"
    /\ \/ Committed(c, work[c].set)
       \/ work' = End(c) /\ UNCHANGED <<disk, removing>>
    /\ UNCHANGED <<index, roots, crashes>>

----------------------------------------------------------------------------
(* Removals                                                                *)

\* remove: only a managed set that the index knows.
RemoveSet(c, s) ==
    /\ work[c] = Free /\ s \in DOMAIN index /\ index[s] = "managed"
    /\ work' = [work EXCEPT ![c] = [Free EXCEPT !.op = "remove", !.set = s, !.at = "deleting"]]
    /\ removing' = removing \cup {s}
    /\ UNCHANGED <<disk, index, roots, crashes>>

\* remove_dir_all, file by file.
DeleteFile(c, f) ==
    /\ work[c].at = "deleting" /\ f \in disk[work[c].set] /\ disk[work[c].set] # {f}
    /\ disk' = [disk EXCEPT ![work[c].set] = @ \ {f}]
    /\ UNCHANGED <<index, roots, work, removing, crashes>>

\* Its end, and the refresh that follows unless the caller left; it fails when
\* the directory is gone already.
DeleteRest(c) ==
    /\ work[c].at = "deleting"
    /\ \/ /\ Cardinality(disk[work[c].set]) = 1 /\ disk' = [disk EXCEPT ![work[c].set] = {}]
          /\ work' \in {BeginScan(c), End(c)}
       \/ work' = End(c) /\ UNCHANGED disk
    /\ UNCHANGED <<index, roots, removing, crashes>>

----------------------------------------------------------------------------
\* The host dies and starts again: new_with_discovery scans; nobody removes
\* the temporary directories of interrupted imports.
CrashHost ==
    /\ crashes < MaxCrashes /\ crashes' = crashes + 1
    /\ work' = [c \in Callers |-> Free]
    /\ index' = Indexed({s \in ImageSets : Complete(s)}, ScanCustomSets(roots))
    /\ UNCHANGED <<disk, roots, removing>>

\* What the requests of `callers` and the host do.
CatalogNext(callers) ==
    \/ \E c \in callers : RefreshImages(c) \/ ScanForeign(c) \/ PublishIndex(c) \/ CommitImport(c) \/ DeleteRest(c)
    \/ \E c \in callers, dirs \in SUBSET CustomSets : SetCustomRoots(c, dirs)
    \/ \E c \in callers, f \in Files : DeleteFile(c, f)
    \/ \E c \in callers, s \in ImageSets :
         ScanManagedSet(c, s) \/ RemoveSet(c, s) \/ \E upload \in Uploads : ImportSet(c, s, upload)
    \/ CrashHost

----------------------------------------------------------------------------
(* Properties                                                              *)

\* A managed set that can be chosen for a mount is complete on disk, unless
\* its removal was begun: imports "validated before the atomic import becomes
\* visible" (docs/en/getting-started.md:144), also when two imports of the
\* same set race, one fails, a refresh runs in between or the host dies.
IndexedComplete ==
    \A s \in DOMAIN index : index[s] = "managed" => Complete(s) \/ s \in removing
=============================================================================
