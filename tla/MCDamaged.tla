------------------------------ MODULE MCDamaged ------------------------------
(***************************************************************************)
(* Opening a file that this store did not write, or that something else    *)
(* has since written to: any root, list head, next page and file size      *)
(* within the page ids of the model, a list count up to two, over pages of *)
(* zeros, of data, or of a list of up to two ids.  Only Open and Discard   *)
(* run.                                                                    *)
(***************************************************************************)
EXTENDS PageStoreProps

DamagedLists ==
  {FreeListPage(n, e) : n \in PageIDs,
                        e \in {<<>>, <<1, 2>>, <<2, 2>>} \cup {<<p>> : p \in PageIDs}}

DamagedMetas ==
  {Meta(rt, head, count, next, file, 1) :
     rt \in PageIDs, head \in PageIDs, count \in 0 .. 2,
     next \in 0 .. MaxPages, file \in 2 .. MaxPages}

DamagedPages == {Zero, UserPage(Fresh)} \cup DamagedLists

DamagedInit ==
  /\ \E m \in DamagedMetas, f \in [PageIDs \ {MetaPage} -> DamagedPages] :
       cache = [p \in PageIDs |-> IF p = MetaPage THEN m ELSE f[p]]
  /\ drive = cache
  /\ pend = [p \in PageIDs |-> {}]
  /\ NoStoreInit

DamagedNext ==
  \/ OpenLoad \/ WalkPage \/ WalkDone \/ LdMeta \/ LdSync \/ Parent
  \/ Discard

DamagedSpec == DamagedInit /\ [][DamagedNext]_vars /\ WF_vars(StoreStep)

=============================================================================
