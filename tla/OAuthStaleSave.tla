--------------------------- MODULE OAuthStaleSave ---------------------------
(***************************************************************************)
(* OAuthRefresh together with the code that loads the credential's row as  *)
(* an entity, works on it for a while and saves the whole entity:          *)
(* discoverModels (a provider HTTP call lies between the load and the      *)
(* save), renameKey, reorderKeys and removeProvider.  The ORM's save       *)
(* re-reads the row, and updates every column in which the entity differs, *)
(* api_key_encrypted included; it inserts the entity when the row is gone. *)
(***************************************************************************)
EXTENDS OAuthRefresh

CONSTANT Savers      (* calls that load, change and save the entity         *)

VARIABLES
  saver,    (* where a saver is                                             *)
  entity    (* the generation in the entity it loaded                       *)

savers == <<saver, entity>>
allVars == <<vars, savers>>

SaverStates == {"idle", "loaded", "unchanged", "update", "insert"}

SInit ==
  /\ Init
  /\ saver = [w \in Savers |-> "idle"]
  /\ entity = [w \in Savers |-> 0]

(* find: the entity carries the row's value of this moment.                *)
Load(w) ==
  /\ saver[w] = "idle"
  /\ stored # NoRow
  /\ saver' = [saver EXCEPT ![w] = "loaded"]
  /\ entity' = [entity EXCEPT ![w] = stored]
  /\ UNCHANGED vars

(* The work between load and save fails or decides not to save.            *)
Abandon(w) ==
  /\ saver[w] = "loaded"
  /\ saver' = [saver EXCEPT ![w] = "idle"]
  /\ UNCHANGED <<vars, entity>>

(* save, first half: the row is read again and compared with the entity.   *)
Compare(w) ==
  /\ saver[w] = "loaded"
  /\ saver' = [saver EXCEPT ![w] = IF stored = NoRow THEN "insert"
                                   ELSE IF stored = entity[w] THEN "unchanged"
                                   ELSE "update"]
  /\ UNCHANGED <<vars, entity>>

(* save, second half.  An UPDATE waits for the row lock; it finds no row   *)
(* when the row has gone since; an INSERT hits the unique index when the   *)
(* row is back.                                                            *)
WriteEntity(w) ==
  /\ saver[w] \in {"unchanged", "update", "insert"}
  /\ RowFree
  /\ saver' = [saver EXCEPT ![w] = "idle"]
  /\ stored' = CASE saver[w] = "update" /\ stored # NoRow -> entity[w]
                 [] saver[w] = "insert" /\ stored = NoRow -> entity[w]
                 [] OTHER -> stored
  /\ UNCHANGED <<provider, seen, inFlight, pc, tx, request, lost, entity>>

SNext ==
  \/ Next /\ UNCHANGED savers
  \/ \E w \in Savers : Load(w) \/ Abandon(w) \/ Compare(w) \/ WriteEntity(w)

SSpec == SInit /\ [][SNext]_allVars

-----------------------------------------------------------------------------
(* oauth-refresh-coordinator.ts 148: the row is re-read under the lock so  *)
(* that a refresh never presents a stale, already rotated refresh token    *)
(* (unless its successor was lost, or a cut session is spending it).       *)
NeverRefreshesStaleToken == DeadTokenExplained
=============================================================================
