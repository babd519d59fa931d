------------------------------ MODULE Promotion ------------------------------
(* Moving plugins between environments: promotion bundles, imports from a    *)
(* repository index and transfers between two gateways (pluginmanager's      *)
(* future.go and the CLI's remote client).  None of it holds m.mu: a step is *)
(* one read of the tables with the checks that use it, or one write, and     *)
(* administrators, the garbage collector and the policies act in between.    *)
EXTENDS Naturals, Sequences

CONSTANTS
    Promoted,     \* plugins
    Digests,      \* artifacts, by the hash of their content
    OwnerOf,      \* the plugin an artifact belongs to
    PromoCfgs,    \* configurations
    Bundles,      \* the bundles that arrive, sequences of items
    Promotions,   \* concurrent requests
    NoHash,       \* an empty config_hash, and the config nobody gave
    Torn,         \* a cached index that does not parse
    MaxPromos     \* changes made by anybody else

ASSUME PromotionAssumption ==
    /\ OwnerOf \in [Digests -> Promoted] /\ NoHash \notin PromoCfgs /\ MaxPromos \in Nat
    /\ Bundles \subseteq Seq([plug : Promoted, art : Digests, cfg : PromoCfgs \cup {NoHash},
                            state : {"disabled", "enabled", "deleted"}])

VARIABLES
    desired,    \* the desired columns of table plugins
    stocked,       \* artifacts in the target's tables and store
    rejected,   \* artifacts that the target's checks, a dry run or the gate refuse
    listed,     \* what the repository's index lists; NoHash while it is unreachable
    indexFile,  \* the cached index
    indexKey,   \* cache_key of the newest kept sync: "none", "empty" or "key"
    imports,    \* plugin_repository_imports
    promo,      \* the requests
    promos      \* counts the changes of others

promotionVars == <<desired, stocked, rejected, listed, indexFile, indexKey, imports, promo, promos>>
targetVars == <<desired, stocked, rejected>>
indexVars == <<listed, indexFile, indexKey, imports>>

Waiting == [at |-> "idle"]

(* passed and wrote are history: the rows that the checks let through, and   *)
(* the rows the request wrote.                                               *)
Run(items, at, given, mode) ==
    [at |-> at, items |-> items, i |-> 1, given |-> given, mode |-> mode, blocked |-> FALSE,
     rows |-> <<>>, passed |-> {}, wrote |-> {}]

PromotionInit ==
    /\ desired \in [Promoted -> [art : Digests, cfg : PromoCfgs, state : {"disabled", "enabled"}]]
    /\ stocked = Digests /\ rejected = {} /\ imports = {}
    /\ listed = {} /\ indexFile = Torn /\ indexKey = "none"
    /\ promo = [k \in Promotions |-> Waiting] /\ promos = 0

Item(k) == promo[k].items[promo[k].i]
More(k) == promo[k].i <= Len(promo[k].items)
PromotionReturns(k) == promo' = [promo EXCEPT ![k] = Waiting]
Advance(k, at) == promo' = [promo EXCEPT ![k].at = at, ![k].i = 1]

-----------------------------------------------------------------------------
(* Where the artifacts come from.                                            *)

(* A bundle is applied where its artifacts are, or moved there first: the    *)
(* CLI downloads every package from its source and uploads it to the target. *)
Submit(k, b, given, mode, cross) ==
    /\ promo[k] = Waiting
    /\ promo' = [promo EXCEPT ![k] = Run(b, IF cross THEN "transfer" ELSE "check", given, mode)]
    /\ UNCHANGED <<targetVars, indexVars, promos>>

(* RunPromotionDRDrill: the checks of an apply, and it wants every           *)
(* fingerprint; it writes nothing.                                           *)
RunPromotionDRDrill(k, b, given) == Submit(k, b, given, "drill", FALSE)

Transfer(k) ==
    /\ promo[k].at = "transfer"
    /\ IF More(k) THEN /\ stocked' = stocked \cup {Item(k).art}
                       /\ promo' = [promo EXCEPT ![k].i = @ + 1]
       ELSE Advance(k, "check") /\ UNCHANGED stocked
    /\ UNCHANGED <<desired, rejected, indexVars, promos>>

(* A download or an upload fails.                                            *)
TransferFails(k) ==
    /\ promo[k].at = "transfer" /\ More(k) /\ PromotionReturns(k)
    /\ UNCHANGED <<targetVars, indexVars, promos>>

(* SyncRepositoryIndex: a fetched index is cached and recorded with its key, *)
(* or without one when the file cannot be written; an unreachable source is  *)
(* answered from the cache of the newest kept record, or the sync fails.     *)
Reachable == listed # NoHash
IndexCached == indexKey = "key" /\ indexFile # Torn

(* storeRepositoryIndexCache, SaveRepositoryIndexSync                        *)
StoreIndex(file, key) == indexFile' = file /\ indexKey' = key

Sync(k, found) == promo' = [promo EXCEPT ![k] = Run(<<>>, "found", found, "sync")]

SyncRepositoryIndex(k) ==
    /\ promo[k] = Waiting
    /\ \/ /\ Reachable /\ StoreIndex(listed, "key") /\ Sync(k, listed)
       \/ /\ Reachable /\ (StoreIndex(indexFile, "empty") \/ StoreIndex(Torn, "empty")) /\ Sync(k, listed)
       \/ /\ ~Reachable /\ IndexCached /\ Sync(k, indexFile) /\ UNCHANGED <<indexFile, indexKey>>
    /\ UNCHANGED <<targetVars, listed, imports, promos>>

(* SaveRepositoryImport                                                      *)
RecordImport(d) == imports' = imports \cup {d}

(* ImportRepositoryArtifact: a candidate of the index is fetched, must have  *)
(* the digest that the index gives, is stored and recorded.                  *)
ImportRepositoryArtifact(k, d) ==
    /\ promo[k].at = "found" /\ d \in promo[k].given
    /\ stocked' = stocked \cup {d} /\ RecordImport(d)
    /\ PromotionReturns(k)
    /\ UNCHANGED <<desired, rejected, listed, indexFile, indexKey, promos>>

(* No candidate, another digest, or nothing but a look for updates.          *)
ImportEnds(k) ==
    /\ promo[k].at = "found" /\ PromotionReturns(k)
    /\ UNCHANGED <<targetVars, indexVars, promos>>

(* ApplyRepositoryImport is a bundle of one plugin without a config hash.    *)
ApplyRepositoryImport(k, d, given, state, mode) ==
    /\ promo[k] = Waiting /\ d \in imports
    /\ promo' = [promo EXCEPT ![k] =
           Run(<<[plug |-> OwnerOf[d], art |-> d, cfg |-> NoHash, state |-> state]>>, "check", given, mode)]
    /\ UNCHANGED <<targetVars, indexVars, promos>>

-----------------------------------------------------------------------------
(* Checks first, for every plugin of the bundle; writes after.               *)

(* promotionApplyConfigJSON                                                  *)
ConfigOf(k, item) == IF promo[k].given # NoHash THEN promo[k].given ELSE desired[item.plug].cfg

(* promotionBundleChecksFor; "enabled" stands for every defect it finds in   *)
(* the bundle itself.                                                        *)
SoundBundle(item) == item.state # "enabled"

(* promotionApplyArtifact, ...ArtifactChecks, ...TargetArtifactChecks, the   *)
(* config hash, DryRunConfig and EvaluateReleaseGate.                        *)
ItemPasses(k, item) ==
    /\ SoundBundle(item)
    /\ item.art \in stocked /\ OwnerOf[item.art] = item.plug
    /\ item.art \notin rejected
    /\ item.cfg \in {NoHash, ConfigOf(k, item)}
    /\ promo[k].mode = "drill" => item.cfg # NoHash

RowOf(k, item) == [plug |-> item.plug, art |-> item.art, state |-> item.state, cfg |-> ConfigOf(k, item)]

CheckPlugin(k) ==
    /\ promo[k].at = "check" /\ More(k)
    /\ promo' = IF ItemPasses(k, Item(k))
                THEN [promo EXCEPT ![k].i = @ + 1, ![k].rows = Append(@, RowOf(k, Item(k))),
                                   ![k].passed = @ \cup {RowOf(k, Item(k))}]
                ELSE [promo EXCEPT ![k].i = @ + 1, ![k].blocked = TRUE]
    /\ UNCHANGED <<targetVars, indexVars, promos>>

(* Any blocking check ends the request; a dry run and a DR drill end here.   *)
MayWrite(k) == ~promo[k].blocked /\ promo[k].mode = "apply"

Settle(k) ==
    /\ promo[k].at = "check" /\ ~More(k)
    /\ IF MayWrite(k) THEN Advance(k, "write") ELSE PromotionReturns(k)
    /\ UNCHANGED <<targetVars, indexVars, promos>>

WrittenAnew(k) == RowOf(k, Item(k))
Written(k) == promo[k].rows[promo[k].i]

(* SetDesired for the next candidate; the request ends after the last one.   *)
WriteDesired(k) ==
    /\ promo[k].at = "write" /\ More(k)
    /\ LET r == Written(k)
       IN  /\ r.art \in stocked
           /\ desired' = [desired EXCEPT ![r.plug] = [art |-> r.art, cfg |-> r.cfg, state |-> r.state]]
           /\ promo' = [promo EXCEPT ![k].i = @ + 1, ![k].wrote = @ \cup {r}]
    /\ UNCHANGED <<stocked, rejected, indexVars, promos>>

(* A dry run or the transaction fails, or the manager closes: what was       *)
(* written before stays.                                                     *)
WriteEnds(k) ==
    /\ promo[k].at = "write" /\ PromotionReturns(k)
    /\ UNCHANGED <<targetVars, indexVars, promos>>

-----------------------------------------------------------------------------
(* Everybody else.                                                           *)
Others(change) == promos < MaxPromos /\ change /\ promos' = promos + 1 /\ UNCHANGED promo

PutDesired(p, row) ==
    Others(desired' = [desired EXCEPT ![p] = row] /\ UNCHANGED <<stocked, rejected, indexVars>>)

(* The garbage collector removes an artifact that no row wants.              *)
CollectArtifact(d) ==
    Others(/\ \A p \in Promoted : desired[p].art # d
           /\ stocked' = stocked \ {d} /\ imports' = imports
           /\ UNCHANGED <<desired, rejected, listed, indexFile, indexKey>>)

(* A policy, an advisory or a service mode changes what the target accepts.  *)
PolicyTurns(d) ==
    Others(/\ rejected' = IF d \in rejected THEN rejected \ {d} ELSE rejected \cup {d}
           /\ UNCHANGED <<desired, stocked, indexVars>>)

RepositoryTurns(what) ==
    Others(listed' = what /\ UNCHANGED <<targetVars, indexFile, indexKey, imports>>)

Given == PromoCfgs \cup {NoHash}

PromotionNext ==
    \/ \E k \in Promotions :
         \/ \E b \in Bundles, given \in Given :
               \/ RunPromotionDRDrill(k, b, given)
               \/ \E mode \in {"apply", "dry run"}, cross \in BOOLEAN : Submit(k, b, given, mode, cross)
         \/ Transfer(k) \/ TransferFails(k) \/ SyncRepositoryIndex(k) \/ ImportEnds(k)
         \/ \E d \in Digests : ImportRepositoryArtifact(k, d)
         \/ \E d \in Digests, given \in Given, state \in {"disabled", "enabled"}, mode \in {"apply", "dry run"} :
               ApplyRepositoryImport(k, d, given, state, mode)
         \/ CheckPlugin(k) \/ Settle(k) \/ WriteDesired(k) \/ WriteEnds(k)
    \/ \E p \in Promoted, d \in Digests, c \in PromoCfgs, s \in {"disabled", "enabled"} :
         OwnerOf[d] = p /\ d \in stocked /\ PutDesired(p, [art |-> d, cfg |-> c, state |-> s])
    \/ \E d \in Digests : CollectArtifact(d) \/ PolicyTurns(d)
    \/ \E what \in {NoHash, {}, Digests} : RepositoryTurns(what)

PromotionSpec == PromotionInit /\ [][PromotionNext]_promotionVars

-----------------------------------------------------------------------------
(* ApplyPromotionBundle and ApplyRepositoryImport write nothing before every *)
(* plugin of the bundle has passed every check, and each row they write is   *)
(* the artifact and the configuration that was hashed, dry-run and gated,    *)
(* although administrators change the row's configuration between the check  *)
(* and the write; no such row asks for traffic.                              *)
PromotedWasChecked ==
    \A k \in Promotions : promo[k].at = "write" =>
        /\ promo[k].wrote \subseteq promo[k].passed
        /\ promo[k].wrote # {} => \A j \in DOMAIN promo[k].items :
               \E r \in promo[k].passed : r.plug = promo[k].items[j].plug /\ r.art = promo[k].items[j].art
        /\ \A r \in promo[k].wrote : r.state # "enabled"
=============================================================================
