--------------------------- MODULE EntityVersions ---------------------------
(***************************************************************************)
(* The rule which version of an entity is the current one                  *)
(* (domain/src/entityVersions.ts).  A row never changes; a change is a new *)
(* row together with an InsertHistory row that names the timeIds of the    *)
(* versions it supersedes.  The history rows of one entity form a graph,   *)
(* its tips are the candidates, and more than one tip is a conflict.       *)
(*                                                                         *)
(* A row stands for its content hash.  Row identities are tuples that      *)
(* begin with the table; a history row is a record                         *)
(* [timeId, row, previous, origin].                                        *)
(***************************************************************************)
EXTENDS Integers, FiniteSets, FiniteSetsExt

(* The later timestamp first, ties broken by the unique part.              *)
compareTimeIdsNewestFirst(left, right) ==
    \/ left.ms > right.ms
    \/ left.ms = right.ms /\ left.unique > right.unique

(* A version is a history row whose row is there; a row that no history    *)
(* row names and a history row without its row say nothing.                *)
versionsByEntity(rows, history, id) ==
    {version \in history : version.row \in rows /\ version.row.id = id}

(* One for a version that supersedes no known version, one more than the   *)
(* deepest it supersedes otherwise, and none on a cycle: the version is    *)
(* resolved in the round after its last predecessor.                       *)
depthsOf(versions) ==
    LET timeIds == {version.timeId : version \in versions}
        rounds == 0 .. Cardinality(versions)
        resolved[round \in rounds] ==
            IF round = 0 THEN {}
            ELSE {version \in versions :
                    version.previous \cap timeIds
                        \subseteq {before.timeId : before \in resolved[round - 1]}}
        resolvedIn(version) == {round \in rounds : version \in resolved[round]}
    IN  [version \in versions |->
            IF resolvedIn(version) = {} THEN 0 ELSE Min(resolvedIn(version))]

(* The first of the versions by depth and then by timeId.                  *)
newest(versions, depths) ==
    CHOOSE version \in versions : \A other \in versions \ {version} :
        \/ depths[version] > depths[other]
        \/ /\ depths[version] = depths[other]
           /\ compareTimeIdsNewestFirst(version.timeId, other.timeId)

(* The versions that no other version of the entity supersedes; on a cycle *)
(* the newest one.                                                         *)
tipsOf(versions) ==
    LET superseded == UNION {version.previous : version \in versions}
        tips == {version \in versions : version.timeId \notin superseded}
    IN  IF tips = {} /\ versions # {} THEN {newest(versions, depthsOf(versions))} ELSE tips

(* The version that lists, details and edits take as the current one.      *)
currentVersion(versions) == newest(tipsOf(versions), depthsOf(versions))

entitiesOf(rows, history, table) ==
    {version.row.id : version \in {h \in history : h.row \in rows /\ h.row.id[1] = table}}

(* The current row of every entity of a table.                             *)
currentRows(rows, history, table) ==
    {currentVersion(versionsByEntity(rows, history, id)).row :
        id \in entitiesOf(rows, history, table)}

conflictingIds(rows, history, table) ==
    {id \in entitiesOf(rows, history, table) :
        Cardinality(tipsOf(versionsByEntity(rows, history, id))) > 1}
=============================================================================
