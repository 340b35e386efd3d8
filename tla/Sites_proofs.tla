------------------------------ MODULE Sites_proofs ------------------------------
(***************************************************************************)
(* Proofs about Sites: its types, that a site a request can find is in the *)
(* pool, that a cached handler has not been closed, and what an update has *)
(* applied, and emptied, by the time it is over.                           *)
(***************************************************************************)
EXTENDS Sites, SequenceTheorems, TLAPS

(* What the updater and a request have read by the time they use it.       *)
UpdaterHas ==
    /\ upc = "site" => k >= 1
    /\ upc \in {"hosts", "getExt", "setExt", "setConf", "info", "infoGet", "infoSet",
                "plugins"} => k \in DOMAIN cfg /\ cfg[k].id # NoIdent
    /\ upc \in {"hosts", "getExt", "setExt", "setConf", "infoGet", "infoSet", "plugins",
                "delGet", "delSet", "delExt", "delSess", "delData"} => cur # NoSite
    /\ upc \in {"setConf", "plugins", "delExt"} => se # NoExt

RequestHas(r) ==
    /\ rpc[r] = "get" => try[r] >= 1
    /\ rpc[r] \notin {"idle", "get"} => rsite[r] # NoSite
    /\ rpc[r] \notin {"idle", "get", "getExt", "setExt"} => rext[r] # NoExt
    /\ rpc[r] \in {"root", "lookup", "drop", "make", "serve"} => rconf[r] # NoConf
    /\ rpc[r] = "serve" => rhand[r] # NoHandler

TypeInv == TypeOK /\ UpdaterHas /\ \A r \in Requests : RequestHas(r)

LEMMA AnyInSets == AnyDir \in Dirs /\ AnyHost \in Hosts
  <1>1. PICK s \in Settings : TRUE  BY ConfigsAssumption
  <1>2. s.dir \in Dirs  BY DEF Dirs
  <1>3. AnyDir \in Dirs  BY <1>2 DEF AnyDir
  <1>4. AnyHost \in Hosts  BY CandidatesAssumption DEF AnyHost
  <1> QED  BY <1>3, <1>4

\* A configuration is a sequence of settings, and so is the empty one of Close.
LEMMA ConfigIsSeq ==
    ASSUME NEW c \in Configs \cup {<<>>}
    PROVE  /\ c \in Seq(Settings)
           /\ \A i \in DOMAIN c : /\ i \in Nat /\ i >= 1 /\ c[i] \in Settings
                                  /\ c[i].dir \in Dirs
                                  /\ c[i].id \in Idents \cup {NoIdent}
                                  /\ c[i].hosts \subseteq Hosts
                                  /\ {c[i].on, c[i].cache, c[i].plugin} \subseteq BOOLEAN
  <1>0. c = <<>> => c \in Seq(Settings)  OBVIOUS
  <1>1. c \in Seq(Settings)  BY <1>0, ConfigsAssumption
  <1>2. ASSUME NEW i \in DOMAIN c PROVE i \in Nat /\ i >= 1 /\ c[i] \in Settings  BY <1>1
  <1>3. \A s \in Settings : s.dir \in Dirs  BY DEF Dirs
  <1> QED  BY <1>1, <1>2, <1>3, ConfigsAssumption

LEMMA TypeInit == Init => TypeInv
  <1> SUFFICES ASSUME Init PROVE TypeInv  OBVIOUS
  <1> USE AnyInSets
  <1>1. 0 <= Len(Candidates[AnyHost])  BY CandidatesAssumption
  <1>2. SiteTypeOK /\ ExtTypeOK  BY DEF Init, SiteTypeOK, ExtTypeOK
  <1>3. UpdaterTypeOK
    <2>1. updates \in 0 .. MaxUpdates  BY BoundAssumption DEF Init
    <2> QED  BY <2>1 DEF Init, UpdaterTypeOK
  <1>6. UpdaterHas  BY DEF Init, UpdaterHas
  <1>4. RequestTypeOK  BY <1>1 DEF Init, RequestTypeOK
  <1>5. \A r \in Requests : RequestHas(r)  BY DEF Init, RequestHas
  <1> QED  BY <1>2, <1>3, <1>4, <1>5, <1>6 DEF TypeInv, TypeOK

LEMMA NewSiteTypes ==
    ASSUME SiteTypeOK, NEW name \in Idents, NEW s \in SiteObjs, NewSite(name, s),
           UNCHANGED man
    PROVE  SiteTypeOK'
  <1>1. CASE pool[name] # NoSite  BY <1>1 DEF NewSite, SiteTypeOK
  <1>2. CASE pool[name] = NoSite
    <2>1. pool' \in [Idents -> SiteObjs \cup {NoSite}] /\ UNCHANGED man
      BY <1>2 DEF NewSite, SiteTypeOK
    <2>2. root' \in [SiteObjs -> Dirs]  BY <1>2, AnyInSets DEF NewSite, SiteTypeOK
    <2>3. ext' \in [SiteObjs -> Exts \cup {NoExt}] /\ sess' \in [SiteObjs -> BOOLEAN]
      BY <1>2 DEF NewSite, SiteTypeOK
    <2>4. late' \subseteq SiteObjs /\ outdone' \subseteq SiteObjs
      BY <1>2 DEF NewSite, SiteTypeOK
    <2> QED  BY <2>1, <2>2, <2>3, <2>4 DEF SiteTypeOK
  <1> QED  BY <1>1, <1>2

LEMMA SetExtendTypes ==
    ASSUME SiteTypeOK, ExtTypeOK, NEW s \in SiteObjs, NEW e \in Exts, SetExtend(s, e),
           UNCHANGED <<pool, man, root, sess, late, hroot, hclosed>>,
           outdone' \subseteq SiteObjs
    PROVE  SiteTypeOK' /\ ExtTypeOK'
  <1>1. SiteTypeOK'  BY DEF SetExtend, SiteTypeOK
  <1>2. {ext[s]} \ {NoExt} \subseteq Exts  BY DEF SiteTypeOK
  <1>3. ExtTypeOK'  BY <1>2 DEF SetExtend, ExtTypeOK
  <1> QED  BY <1>1, <1>3

LEMMA AnsweredTypes ==
    ASSUME RequestTypeOK, NEW r \in Requests, Answered(r)
    PROVE  RequestTypeOK'
  <1>1. 0 <= Len(Candidates[AnyHost])  BY AnyInSets, CandidatesAssumption
  <1> QED  BY <1>1, AnyInSets DEF Answered, RequestTypeOK

LEMMA UpdaterKeepsTypes == TypeInv /\ (Updater \/ Tick \/ Expire) => TypeInv'
  <1> SUFFICES ASSUME TypeInv, Updater \/ Tick \/ Expire PROVE TypeInv'  OBVIOUS
  <1> USE DEF TypeInv, TypeOK, siteVars, extVars, updVars, updRest, reqVars, hist
  <1>0. /\ cfg \in Seq(Settings)
        /\ \A i \in DOMAIN cfg : /\ i \in Nat /\ i >= 1 /\ cfg[i] \in Settings
                                  /\ cfg[i].dir \in Dirs
                                  /\ cfg[i].id \in Idents \cup {NoIdent}
                                  /\ cfg[i].hosts \subseteq Hosts
                                  /\ {cfg[i].on, cfg[i].cache, cfg[i].plugin} \subseteq BOOLEAN
    BY ConfigIsSeq DEF UpdaterTypeOK
  <1>1. CASE UpdateConfig
    <2>1. SiteTypeOK'  BY <1>1, <1>0 DEF UpdateConfig, SiteTypeOK, UpdaterHas
    <2>2. ExtTypeOK'  BY <1>1, <1>0 DEF UpdateConfig, ExtTypeOK, UpdaterHas
    <2>3. UpdaterTypeOK'  BY <1>1, <1>0, BoundAssumption
        DEF UpdateConfig, UpdaterTypeOK, UpdaterHas, SiteTypeOK
    <2>4. UpdaterHas'  BY <1>1, <1>0, NullAssumption
        DEF UpdateConfig, UpdaterTypeOK, UpdaterHas, SiteTypeOK
    <2>5. RequestTypeOK' /\ (\A r \in Requests : RequestHas(r))'
      BY <1>1 DEF UpdateConfig, RequestTypeOK, RequestHas
    <2> QED  BY <2>1, <2>2, <2>3, <2>4, <2>5
  <1>2. CASE Close
    <2>1. SiteTypeOK'  BY <1>2, <1>0 DEF Close, SiteTypeOK, UpdaterHas
    <2>2. ExtTypeOK'  BY <1>2, <1>0 DEF Close, ExtTypeOK, UpdaterHas
    <2>3. UpdaterTypeOK'  BY <1>2, <1>0, BoundAssumption
        DEF Close, UpdaterTypeOK, UpdaterHas, SiteTypeOK
    <2>4. UpdaterHas'  BY <1>2, <1>0, NullAssumption
        DEF Close, UpdaterTypeOK, UpdaterHas, SiteTypeOK
    <2>5. RequestTypeOK' /\ (\A r \in Requests : RequestHas(r))'
      BY <1>2 DEF Close, RequestTypeOK, RequestHas
    <2> QED  BY <2>1, <2>2, <2>3, <2>4, <2>5
  <1>3. CASE NoIdentity
    <2>1. SiteTypeOK'  BY <1>3, <1>0 DEF NoIdentity, SiteTypeOK, UpdaterHas
    <2>2. ExtTypeOK'  BY <1>3, <1>0 DEF NoIdentity, ExtTypeOK, UpdaterHas
    <2>3. UpdaterTypeOK'  BY <1>3, <1>0, BoundAssumption
        DEF NoIdentity, UpdaterTypeOK, UpdaterHas, SiteTypeOK
    <2>4. UpdaterHas'  BY <1>3, <1>0, NullAssumption
        DEF NoIdentity, UpdaterTypeOK, UpdaterHas, SiteTypeOK
    <2>5. RequestTypeOK' /\ (\A r \in Requests : RequestHas(r))'
      BY <1>3 DEF NoIdentity, RequestTypeOK, RequestHas
    <2> QED  BY <2>1, <2>2, <2>3, <2>4, <2>5
  <1>4. CASE AddSite
    <2>0. PICK s \in SiteObjs : NewSite(cfg[k].id, s) /\ cur' = s  BY <1>4 DEF AddSite
    <2>a. cfg[k].id \in Idents  BY <1>4, <1>0 DEF AddSite, UpdaterHas
    <2>1. SiteTypeOK'  BY <1>4, <2>0, <2>a, NewSiteTypes DEF AddSite
    <2>2. ExtTypeOK'  BY <1>4 DEF AddSite, ExtTypeOK
    <2>3. UpdaterTypeOK'  BY <1>4, <2>0, <1>0 DEF AddSite, UpdaterTypeOK, UpdaterHas
    <2>4. UpdaterHas'  BY <1>4, <2>0, <1>0, NullAssumption DEF AddSite, UpdaterHas
    <2>5. RequestTypeOK' /\ (\A r \in Requests : RequestHas(r))'
      BY <1>4 DEF AddSite, RequestTypeOK, RequestHas
    <2> QED  BY <2>1, <2>2, <2>3, <2>4, <2>5
  <1>5. CASE SkipSite
    <2>1. SiteTypeOK'  BY <1>5, <1>0 DEF SkipSite, SiteTypeOK, UpdaterHas
    <2>2. ExtTypeOK'  BY <1>5, <1>0 DEF SkipSite, ExtTypeOK, UpdaterHas
    <2>3. UpdaterTypeOK'  BY <1>5, <1>0, BoundAssumption
        DEF SkipSite, UpdaterTypeOK, UpdaterHas, SiteTypeOK
    <2>4. UpdaterHas'  BY <1>5, <1>0, NullAssumption
        DEF SkipSite, UpdaterTypeOK, UpdaterHas, SiteTypeOK
    <2>5. RequestTypeOK' /\ (\A r \in Requests : RequestHas(r))'
      BY <1>5 DEF SkipSite, RequestTypeOK, RequestHas
    <2> QED  BY <2>1, <2>2, <2>3, <2>4, <2>5
  <1>6. CASE AddHost
    <2>1. SiteTypeOK'  BY <1>6, <1>0 DEF AddHost, SiteTypeOK, UpdaterTypeOK
    <2>2. ExtTypeOK'  BY <1>6, <1>0 DEF AddHost, ExtTypeOK, UpdaterHas
    <2>3. UpdaterTypeOK'  BY <1>6, <1>0, BoundAssumption
        DEF AddHost, UpdaterTypeOK, UpdaterHas, SiteTypeOK
    <2>4. UpdaterHas'  BY <1>6, <1>0, NullAssumption
        DEF AddHost, UpdaterTypeOK, UpdaterHas, SiteTypeOK
    <2>5. RequestTypeOK' /\ (\A r \in Requests : RequestHas(r))'
      BY <1>6 DEF AddHost, RequestTypeOK, RequestHas
    <2> QED  BY <2>1, <2>2, <2>3, <2>4, <2>5
  <1>7. CASE SetRootDir
    <2>1. SiteTypeOK'  BY <1>7, <1>0
        DEF SetRootDir, SiteTypeOK, UpdaterHas, UpdaterTypeOK
    <2>2. ExtTypeOK'  BY <1>7, <1>0 DEF SetRootDir, ExtTypeOK, UpdaterHas
    <2>3. UpdaterTypeOK'  BY <1>7, <1>0, BoundAssumption
        DEF SetRootDir, UpdaterTypeOK, UpdaterHas, SiteTypeOK
    <2>4. UpdaterHas'  BY <1>7, <1>0, NullAssumption
        DEF SetRootDir, UpdaterTypeOK, UpdaterHas, SiteTypeOK
    <2>5. RequestTypeOK' /\ (\A r \in Requests : RequestHas(r))'
      BY <1>7 DEF SetRootDir, RequestTypeOK, RequestHas
    <2> QED  BY <2>1, <2>2, <2>3, <2>4, <2>5
  <1>8. CASE setConfig
    <2>1. SiteTypeOK'  BY <1>8, <1>0 DEF setConfig, SiteTypeOK, UpdaterHas
    <2>2. ExtTypeOK'  BY <1>8, <1>0 DEF setConfig, ExtTypeOK, UpdaterHas
    <2>3. UpdaterTypeOK'  BY <1>8, <1>0, BoundAssumption
        DEF setConfig, UpdaterTypeOK, UpdaterHas, SiteTypeOK
    <2>4. UpdaterHas'  BY <1>8, <1>0, NullAssumption
        DEF setConfig, UpdaterTypeOK, UpdaterHas, SiteTypeOK
    <2>5. RequestTypeOK' /\ (\A r \in Requests : RequestHas(r))'
      BY <1>8 DEF setConfig, RequestTypeOK, RequestHas
    <2> QED  BY <2>1, <2>2, <2>3, <2>4, <2>5
  <1>9. CASE InfoSite
    <2>0. PICK s \in SiteObjs : NewSite(cfg[k].id, s) /\ cur' = s  BY <1>9 DEF InfoSite
    <2>a. cfg[k].id \in Idents  BY <1>9, <1>0 DEF InfoSite, UpdaterHas
    <2>1. SiteTypeOK'  BY <1>9, <2>0, <2>a, NewSiteTypes DEF InfoSite
    <2>2. ExtTypeOK'  BY <1>9 DEF InfoSite, ExtTypeOK
    <2>3. UpdaterTypeOK'  BY <1>9, <2>0, <1>0 DEF InfoSite, UpdaterTypeOK, UpdaterHas
    <2>4. UpdaterHas'  BY <1>9, <2>0, <1>0, NullAssumption DEF InfoSite, UpdaterHas
    <2>5. RequestTypeOK' /\ (\A r \in Requests : RequestHas(r))'
      BY <1>9 DEF InfoSite, RequestTypeOK, RequestHas
    <2> QED  BY <2>1, <2>2, <2>3, <2>4, <2>5
  <1>10. CASE SetPlugins
    <2>1. SiteTypeOK'  BY <1>10, <1>0 DEF SetPlugins, SiteTypeOK, UpdaterHas
    <2>2. ExtTypeOK'  BY <1>10, <1>0 DEF SetPlugins, ExtTypeOK, UpdaterHas
    <2>3. UpdaterTypeOK'  BY <1>10, <1>0, BoundAssumption
        DEF SetPlugins, UpdaterTypeOK, UpdaterHas, SiteTypeOK
    <2>4. UpdaterHas'  BY <1>10, <1>0, NullAssumption
        DEF SetPlugins, UpdaterTypeOK, UpdaterHas, SiteTypeOK
    <2>5. RequestTypeOK' /\ (\A r \in Requests : RequestHas(r))'
      BY <1>10 DEF SetPlugins, RequestTypeOK, RequestHas
    <2> QED  BY <2>1, <2>2, <2>3, <2>4, <2>5
  <1>11. CASE BeginDel
    <2>1. SiteTypeOK'  BY <1>11, <1>0 DEF BeginDel, SiteTypeOK, UpdaterHas
    <2>2. ExtTypeOK'  BY <1>11, <1>0 DEF BeginDel, ExtTypeOK, UpdaterHas
    <2>3. UpdaterTypeOK'  BY <1>11, <1>0, BoundAssumption
        DEF BeginDel, UpdaterTypeOK, UpdaterHas, SiteTypeOK
    <2>4. UpdaterHas'  BY <1>11, <1>0, NullAssumption
        DEF BeginDel, UpdaterTypeOK, UpdaterHas, SiteTypeOK
    <2>5. RequestTypeOK' /\ (\A r \in Requests : RequestHas(r))'
      BY <1>11 DEF BeginDel, RequestTypeOK, RequestHas
    <2> QED  BY <2>1, <2>2, <2>3, <2>4, <2>5
  <1>12. CASE DelHost
    <2>1. SiteTypeOK'  BY <1>12, <1>0 DEF DelHost, SiteTypeOK, UpdaterHas
    <2>2. ExtTypeOK'  BY <1>12, <1>0 DEF DelHost, ExtTypeOK, UpdaterHas
    <2>3. UpdaterTypeOK'  BY <1>12, <1>0, BoundAssumption
        DEF DelHost, UpdaterTypeOK, UpdaterHas, SiteTypeOK
    <2>4. UpdaterHas'  BY <1>12, <1>0, NullAssumption
        DEF DelHost, UpdaterTypeOK, UpdaterHas, SiteTypeOK
    <2>5. RequestTypeOK' /\ (\A r \in Requests : RequestHas(r))'
      BY <1>12 DEF DelHost, RequestTypeOK, RequestHas
    <2> QED  BY <2>1, <2>2, <2>3, <2>4, <2>5
  <1>13. CASE BeginDelSites
    <2>1. SiteTypeOK'  BY <1>13, <1>0 DEF BeginDelSites, SiteTypeOK, UpdaterHas
    <2>2. ExtTypeOK'  BY <1>13, <1>0 DEF BeginDelSites, ExtTypeOK, UpdaterHas
    <2>3. UpdaterTypeOK'  BY <1>13, <1>0, BoundAssumption
        DEF BeginDelSites, UpdaterTypeOK, UpdaterHas, SiteTypeOK
    <2>4. UpdaterHas'  BY <1>13, <1>0, NullAssumption
        DEF BeginDelSites, UpdaterTypeOK, UpdaterHas, SiteTypeOK
    <2>5. RequestTypeOK' /\ (\A r \in Requests : RequestHas(r))'
      BY <1>13 DEF BeginDelSites, RequestTypeOK, RequestHas
    <2> QED  BY <2>1, <2>2, <2>3, <2>4, <2>5
  <1>14. CASE DelSite
    <2>1. SiteTypeOK'  BY <1>14, <1>0 DEF DelSite, SiteTypeOK, UpdaterHas
    <2>2. ExtTypeOK'  BY <1>14, <1>0 DEF DelSite, ExtTypeOK, UpdaterHas
    <2>3. UpdaterTypeOK'  BY <1>14, <1>0, BoundAssumption
        DEF DelSite, UpdaterTypeOK, UpdaterHas, SiteTypeOK
    <2>4. UpdaterHas'  BY <1>14, <1>0, NullAssumption
        DEF DelSite, UpdaterTypeOK, UpdaterHas, SiteTypeOK
    <2>5. RequestTypeOK' /\ (\A r \in Requests : RequestHas(r))'
      BY <1>14 DEF DelSite, RequestTypeOK, RequestHas
    <2> QED  BY <2>1, <2>2, <2>3, <2>4, <2>5
  <1>15. CASE DelExt
    <2>1. SiteTypeOK'  BY <1>15, <1>0 DEF DelExt, SiteTypeOK, UpdaterHas
    <2>2. ExtTypeOK'  BY <1>15, <1>0 DEF DelExt, ExtTypeOK, UpdaterHas
    <2>3. UpdaterTypeOK'  BY <1>15, <1>0, BoundAssumption
        DEF DelExt, UpdaterTypeOK, UpdaterHas, SiteTypeOK
    <2>4. UpdaterHas'  BY <1>15, <1>0, NullAssumption
        DEF DelExt, UpdaterTypeOK, UpdaterHas, SiteTypeOK
    <2>5. RequestTypeOK' /\ (\A r \in Requests : RequestHas(r))'
      BY <1>15 DEF DelExt, RequestTypeOK, RequestHas
    <2> QED  BY <2>1, <2>2, <2>3, <2>4, <2>5
  <1>16. CASE InstantDeadAll
    <2>1. SiteTypeOK'  BY <1>16, <1>0 DEF InstantDeadAll, SiteTypeOK, UpdaterHas
    <2>2. ExtTypeOK'  BY <1>16, <1>0 DEF InstantDeadAll, ExtTypeOK, UpdaterHas
    <2>3. UpdaterTypeOK'  BY <1>16, <1>0, BoundAssumption
        DEF InstantDeadAll, UpdaterTypeOK, UpdaterHas, SiteTypeOK
    <2>4. UpdaterHas'  BY <1>16, <1>0, NullAssumption
        DEF InstantDeadAll, UpdaterTypeOK, UpdaterHas, SiteTypeOK
    <2>5. RequestTypeOK' /\ (\A r \in Requests : RequestHas(r))'
      BY <1>16 DEF InstantDeadAll, RequestTypeOK, RequestHas
    <2> QED  BY <2>1, <2>2, <2>3, <2>4, <2>5
  <1>17. CASE ResetData
    <2>1. SiteTypeOK'  BY <1>17, <1>0 DEF ResetData, SiteTypeOK, UpdaterHas
    <2>2. ExtTypeOK'  BY <1>17, <1>0 DEF ResetData, ExtTypeOK, UpdaterHas
    <2>3. UpdaterTypeOK'  BY <1>17, <1>0, BoundAssumption
        DEF ResetData, UpdaterTypeOK, UpdaterHas, SiteTypeOK
    <2>4. UpdaterHas'  BY <1>17, <1>0, NullAssumption
        DEF ResetData, UpdaterTypeOK, UpdaterHas, SiteTypeOK
    <2>5. RequestTypeOK' /\ (\A r \in Requests : RequestHas(r))'
      BY <1>17 DEF ResetData, RequestTypeOK, RequestHas
    <2> QED  BY <2>1, <2>2, <2>3, <2>4, <2>5
  <1>18. CASE EndUpdate
    <2>1. SiteTypeOK'  BY <1>18, <1>0 DEF EndUpdate, SiteTypeOK, UpdaterHas
    <2>2. ExtTypeOK'  BY <1>18, <1>0 DEF EndUpdate, ExtTypeOK, UpdaterHas
    <2>3. UpdaterTypeOK'  BY <1>18, <1>0, BoundAssumption
        DEF EndUpdate, UpdaterTypeOK, UpdaterHas, SiteTypeOK
    <2>4. UpdaterHas'  BY <1>18, <1>0, NullAssumption
        DEF EndUpdate, UpdaterTypeOK, UpdaterHas, SiteTypeOK
    <2>5. RequestTypeOK' /\ (\A r \in Requests : RequestHas(r))'
      BY <1>18 DEF EndUpdate, RequestTypeOK, RequestHas
    <2> QED  BY <2>1, <2>2, <2>3, <2>4, <2>5
  <1>19. CASE NewSitePool
    <2>1. SiteTypeOK'  BY <1>19, <1>0 DEF NewSitePool, SiteTypeOK, UpdaterHas
    <2>2. ExtTypeOK'  BY <1>19, <1>0 DEF NewSitePool, ExtTypeOK, UpdaterHas
    <2>3. UpdaterTypeOK'  BY <1>19, <1>0, BoundAssumption
        DEF NewSitePool, UpdaterTypeOK, UpdaterHas, SiteTypeOK
    <2>4. UpdaterHas'  BY <1>19, <1>0, NullAssumption
        DEF NewSitePool, UpdaterTypeOK, UpdaterHas, SiteTypeOK
    <2>5. RequestTypeOK' /\ (\A r \in Requests : RequestHas(r))'
      BY <1>19 DEF NewSitePool, RequestTypeOK, RequestHas
    <2> QED  BY <2>1, <2>2, <2>3, <2>4, <2>5
  <1>20. CASE Tick
    <2>1. SiteTypeOK'  BY <1>20, <1>0 DEF Tick, SiteTypeOK, UpdaterHas
    <2>2. ExtTypeOK'  BY <1>20, <1>0 DEF Tick, ExtTypeOK, UpdaterHas
    <2>3. UpdaterTypeOK'  BY <1>20, <1>0, BoundAssumption
        DEF Tick, UpdaterTypeOK, UpdaterHas, SiteTypeOK
    <2>4. UpdaterHas'  BY <1>20, <1>0, NullAssumption
        DEF Tick, UpdaterTypeOK, UpdaterHas, SiteTypeOK
    <2>5. RequestTypeOK' /\ (\A r \in Requests : RequestHas(r))'
      BY <1>20 DEF Tick, RequestTypeOK, RequestHas
    <2> QED  BY <2>1, <2>2, <2>3, <2>4, <2>5
  <1>21. CASE Expire
    <2>1. SiteTypeOK'  BY <1>21, <1>0 DEF Expire, SiteTypeOK, UpdaterHas
    <2>2. ExtTypeOK'  BY <1>21, <1>0 DEF Expire, ExtTypeOK, UpdaterHas
    <2>3. UpdaterTypeOK'  BY <1>21, <1>0, BoundAssumption
        DEF Expire, UpdaterTypeOK, UpdaterHas, SiteTypeOK
    <2>4. UpdaterHas'  BY <1>21, <1>0, NullAssumption
        DEF Expire, UpdaterTypeOK, UpdaterHas, SiteTypeOK
    <2>5. RequestTypeOK' /\ (\A r \in Requests : RequestHas(r))'
      BY <1>21 DEF Expire, RequestTypeOK, RequestHas
    <2> QED  BY <2>1, <2>2, <2>3, <2>4, <2>5
  <1>22. CASE GetExt("getExt", "setExt", "setConf")
    <2>1. SiteTypeOK'  BY <1>22, <1>0 DEF GetExt, SiteTypeOK, UpdaterHas
    <2>2. ExtTypeOK'  BY <1>22, <1>0 DEF GetExt, ExtTypeOK, UpdaterHas
    <2>3. UpdaterTypeOK'  BY <1>22, <1>0, BoundAssumption
        DEF GetExt, UpdaterTypeOK, UpdaterHas, SiteTypeOK
    <2>4. UpdaterHas'  BY <1>22, <1>0, NullAssumption
        DEF GetExt, UpdaterTypeOK, UpdaterHas, SiteTypeOK
    <2>5. RequestTypeOK' /\ (\A r \in Requests : RequestHas(r))'
      BY <1>22 DEF GetExt, RequestTypeOK, RequestHas
    <2> QED  BY <2>1, <2>2, <2>3, <2>4, <2>5
  <1>23. CASE SetExt("setExt", "setConf")
    <2>0. PICK e \in Exts : SetExtend(cur, e)  BY <1>23 DEF SetExt
    <2>a. cur \in SiteObjs  BY <1>23 DEF SetExt, UpdaterTypeOK, UpdaterHas
    <2>b. UNCHANGED <<pool, man, root, sess, late, outdone, hroot,
        hclosed>>  BY <1>23 DEF SetExt
    <2>c. outdone' \subseteq SiteObjs  BY <2>b DEF SiteTypeOK
    <2>1. SiteTypeOK'  BY <2>0, <2>a, <2>b, <2>c, SetExtendTypes
    <2>2. ExtTypeOK'  BY <2>0, <2>a, <2>b, <2>c, SetExtendTypes
    <2>3. UpdaterTypeOK'  BY <1>23, <1>0, BoundAssumption
        DEF SetExt, SetExtend, UpdaterTypeOK, UpdaterHas, SiteTypeOK
    <2>4. UpdaterHas'  BY <1>23, <1>0, NullAssumption
        DEF SetExt, SetExtend, UpdaterTypeOK, UpdaterHas, SiteTypeOK
    <2>5. RequestTypeOK' /\ (\A r \in Requests : RequestHas(r))'
      BY <1>23 DEF SetExt, SetExtend, RequestTypeOK, RequestHas
    <2> QED  BY <2>1, <2>2, <2>3, <2>4, <2>5
  <1>24. CASE GetExt("infoGet", "infoSet", "plugins")
    <2>1. SiteTypeOK'  BY <1>24, <1>0 DEF GetExt, SiteTypeOK, UpdaterHas
    <2>2. ExtTypeOK'  BY <1>24, <1>0 DEF GetExt, ExtTypeOK, UpdaterHas
    <2>3. UpdaterTypeOK'  BY <1>24, <1>0, BoundAssumption
        DEF GetExt, UpdaterTypeOK, UpdaterHas, SiteTypeOK
    <2>4. UpdaterHas'  BY <1>24, <1>0, NullAssumption
        DEF GetExt, UpdaterTypeOK, UpdaterHas, SiteTypeOK
    <2>5. RequestTypeOK' /\ (\A r \in Requests : RequestHas(r))'
      BY <1>24 DEF GetExt, RequestTypeOK, RequestHas
    <2> QED  BY <2>1, <2>2, <2>3, <2>4, <2>5
  <1>25. CASE SetExt("infoSet", "plugins")
    <2>0. PICK e \in Exts : SetExtend(cur, e)  BY <1>25 DEF SetExt
    <2>a. cur \in SiteObjs  BY <1>25 DEF SetExt, UpdaterTypeOK, UpdaterHas
    <2>b. UNCHANGED <<pool, man, root, sess, late, outdone, hroot,
        hclosed>>  BY <1>25 DEF SetExt
    <2>c. outdone' \subseteq SiteObjs  BY <2>b DEF SiteTypeOK
    <2>1. SiteTypeOK'  BY <2>0, <2>a, <2>b, <2>c, SetExtendTypes
    <2>2. ExtTypeOK'  BY <2>0, <2>a, <2>b, <2>c, SetExtendTypes
    <2>3. UpdaterTypeOK'  BY <1>25, <1>0, BoundAssumption
        DEF SetExt, SetExtend, UpdaterTypeOK, UpdaterHas, SiteTypeOK
    <2>4. UpdaterHas'  BY <1>25, <1>0, NullAssumption
        DEF SetExt, SetExtend, UpdaterTypeOK, UpdaterHas, SiteTypeOK
    <2>5. RequestTypeOK' /\ (\A r \in Requests : RequestHas(r))'
      BY <1>25 DEF SetExt, SetExtend, RequestTypeOK, RequestHas
    <2> QED  BY <2>1, <2>2, <2>3, <2>4, <2>5
  <1>26. CASE GetExt("delGet", "delSet", "delExt")
    <2>1. SiteTypeOK'  BY <1>26, <1>0 DEF GetExt, SiteTypeOK, UpdaterHas
    <2>2. ExtTypeOK'  BY <1>26, <1>0 DEF GetExt, ExtTypeOK, UpdaterHas
    <2>3. UpdaterTypeOK'  BY <1>26, <1>0, BoundAssumption
        DEF GetExt, UpdaterTypeOK, UpdaterHas, SiteTypeOK
    <2>4. UpdaterHas'  BY <1>26, <1>0, NullAssumption
        DEF GetExt, UpdaterTypeOK, UpdaterHas, SiteTypeOK
    <2>5. RequestTypeOK' /\ (\A r \in Requests : RequestHas(r))'
      BY <1>26 DEF GetExt, RequestTypeOK, RequestHas
    <2> QED  BY <2>1, <2>2, <2>3, <2>4, <2>5
  <1>27. CASE SetExt("delSet", "delExt")
    <2>0. PICK e \in Exts : SetExtend(cur, e)  BY <1>27 DEF SetExt
    <2>a. cur \in SiteObjs  BY <1>27 DEF SetExt, UpdaterTypeOK, UpdaterHas
    <2>b. UNCHANGED <<pool, man, root, sess, late, outdone, hroot,
        hclosed>>  BY <1>27 DEF SetExt
    <2>c. outdone' \subseteq SiteObjs  BY <2>b DEF SiteTypeOK
    <2>1. SiteTypeOK'  BY <2>0, <2>a, <2>b, <2>c, SetExtendTypes
    <2>2. ExtTypeOK'  BY <2>0, <2>a, <2>b, <2>c, SetExtendTypes
    <2>3. UpdaterTypeOK'  BY <1>27, <1>0, BoundAssumption
        DEF SetExt, SetExtend, UpdaterTypeOK, UpdaterHas, SiteTypeOK
    <2>4. UpdaterHas'  BY <1>27, <1>0, NullAssumption
        DEF SetExt, SetExtend, UpdaterTypeOK, UpdaterHas, SiteTypeOK
    <2>5. RequestTypeOK' /\ (\A r \in Requests : RequestHas(r))'
      BY <1>27 DEF SetExt, SetExtend, RequestTypeOK, RequestHas
    <2> QED  BY <2>1, <2>2, <2>3, <2>4, <2>5
  <1> QED  BY <1>1, <1>2, <1>3, <1>4, <1>5, <1>6, <1>7, <1>8, <1>9, <1>10, <1>11,
      <1>12, <1>13, <1>14, <1>15, <1>16, <1>17, <1>18, <1>19, <1>20, <1>21, <1>22,
      <1>23, <1>24, <1>25, <1>26, <1>27 DEF Updater

LEMMA RequestKeepsTypes ==
    ASSUME TypeInv, NEW r \in Requests, Request(r)
    PROVE  TypeInv'
  <1> USE DEF TypeInv, TypeOK, siteVars, extVars, updVars, reqVars, hist
  <1>0. \A h \in Hosts : /\ Len(Candidates[h]) \in Nat /\ Len(Candidates[h]) >= 1
                         /\ \A n \in 1 .. Len(Candidates[h]) : Candidates[h][n] \in Hosts
    BY CandidatesAssumption
  <1>1. CASE Arrive(r)
    <2>1. SiteTypeOK' /\ ExtTypeOK'
      BY <1>1 DEF Arrive, GoTo, SiteTypeOK, ExtTypeOK, RequestTypeOK, RequestHas
    <2>2. UpdaterTypeOK' /\ UpdaterHas'  BY <1>1
        DEF Arrive, GoTo, UpdaterTypeOK, UpdaterHas
    <2>3. RequestTypeOK'
      BY <1>1, <1>0, AnyInSets
         DEF Arrive, GoTo, SiteTypeOK, ExtTypeOK, RequestTypeOK, RequestHas
    <2>4. (\A q \in Requests : RequestHas(q))'
      BY <1>1, NullAssumption DEF Arrive, GoTo, RequestTypeOK, RequestHas
    <2> QED  BY <2>1, <2>2, <2>3, <2>4
  <1>2. CASE GetSite(r)
    <2>1. SiteTypeOK' /\ ExtTypeOK'
      BY <1>2
         DEF GetSite, Answered, GoTo, SiteTypeOK, ExtTypeOK, RequestTypeOK, RequestHas
    <2>2. UpdaterTypeOK' /\ UpdaterHas'  BY <1>2
        DEF GetSite, Answered, GoTo, UpdaterTypeOK, UpdaterHas
    <2>3. RequestTypeOK'
      <3>1. CASE Answered(r)  BY <3>1, AnsweredTypes
      <3>2. CASE ~Answered(r)
        <4>1. /\ host[r] \in Hosts /\ try[r] \in Nat /\ try[r] >= 1
              /\ try[r] <= Len(Candidates[host[r]])
          BY <1>2 DEF GetSite, RequestTypeOK, RequestHas
        <4>2. Candidates[host[r]][try[r]] \in Hosts  BY <4>1, <1>0
        <4>3. man[Candidates[host[r]][try[r]]] \in SiteObjs \cup {NoSite}
          BY <4>2 DEF SiteTypeOK
        <4>4. try[r] < Len(Candidates[host[r]]) => try[r] + 1 <= Len(Candidates[host[r]])
          BY <4>1, <1>0
        <4>5. PICK s \in SiteObjs \cup {NoSite} : s = man[Candidates[host[r]][try[r]]]
          BY <4>3
        <4>6. CASE s # NoSite
          <5>1. /\ rsite' = [rsite EXCEPT ![r] = s] /\ rpc' = [rpc EXCEPT ![r] = "getExt"]
                /\ UNCHANGED <<host, try, rext, rconf, rroot, rhand, fresh>>
            BY <1>2, <3>2, <4>5, <4>6 DEF GetSite, GoTo
          <5> QED  BY <5>1 DEF RequestTypeOK
        <4>7. CASE s = NoSite
          <5>1. /\ try[r] < Len(Candidates[host[r]]) /\ try' = [try EXCEPT ![r] = @ + 1]
                /\ UNCHANGED <<rpc, host, rsite, rext, rconf, rroot, rhand, fresh>>
            BY <1>2, <3>2, <4>5, <4>7 DEF GetSite
          <5> QED  BY <5>1, <4>1, <4>4 DEF RequestTypeOK
        <4> QED  BY <4>6, <4>7
      <3> QED  BY <3>1, <3>2
    <2>4. (\A q \in Requests : RequestHas(q))'
      BY <1>2, NullAssumption DEF GetSite, Answered, GoTo, RequestTypeOK, RequestHas
    <2> QED  BY <2>1, <2>2, <2>3, <2>4
  <1>3. CASE RequestGetExt(r)
    <2>1. SiteTypeOK' /\ ExtTypeOK'
      BY <1>3 DEF RequestGetExt, GoTo, SiteTypeOK, ExtTypeOK, RequestTypeOK, RequestHas
    <2>2. UpdaterTypeOK' /\ UpdaterHas'  BY <1>3
        DEF RequestGetExt, GoTo, UpdaterTypeOK, UpdaterHas
    <2>3. RequestTypeOK'
      BY <1>3, <1>0, AnyInSets
         DEF RequestGetExt, GoTo, SiteTypeOK, ExtTypeOK, RequestTypeOK, RequestHas
    <2>4. (\A q \in Requests : RequestHas(q))'
      BY <1>3, NullAssumption DEF RequestGetExt, GoTo, RequestTypeOK, RequestHas
    <2> QED  BY <2>1, <2>2, <2>3, <2>4
  <1>4. CASE RequestSetExt(r)
    <2>0. PICK e \in Exts : SetExtend(rsite[r], e)  BY <1>4 DEF RequestSetExt
    <2>a. rsite[r] \in SiteObjs  BY <1>4 DEF RequestSetExt, RequestTypeOK, RequestHas
    <2>b. UNCHANGED <<pool, man, root, sess, late, hroot, hclosed>>  BY <1>4
        DEF RequestSetExt
    <2>c. outdone' \subseteq SiteObjs  BY <1>4, <2>a DEF SiteTypeOK, RequestSetExt
    <2>1. SiteTypeOK' /\ ExtTypeOK'  BY <2>0, <2>a, <2>b, <2>c, SetExtendTypes
    <2>2. UpdaterTypeOK' /\ UpdaterHas'  BY <1>4
        DEF RequestSetExt, SetExtend, GoTo, UpdaterTypeOK, UpdaterHas
    <2>3. RequestTypeOK'
      BY <1>4, <1>0, AnyInSets
         DEF RequestSetExt, SetExtend, GoTo, SiteTypeOK, ExtTypeOK, RequestTypeOK,
             RequestHas
    <2>4. (\A q \in Requests : RequestHas(q))'
      BY <1>4, NullAssumption
         DEF RequestSetExt, SetExtend, GoTo, RequestTypeOK, RequestHas
    <2> QED  BY <2>1, <2>2, <2>3, <2>4
  <1>5. CASE ReadConfig(r)
    <2>1. SiteTypeOK' /\ ExtTypeOK'
      BY <1>5
         DEF ReadConfig, Answered, GoTo, SiteTypeOK, ExtTypeOK, RequestTypeOK,
             RequestHas
    <2>2. UpdaterTypeOK' /\ UpdaterHas'  BY <1>5
        DEF ReadConfig, Answered, GoTo, UpdaterTypeOK, UpdaterHas
    <2>3. RequestTypeOK'
      <3>1. CASE Answered(r)  BY <3>1, AnsweredTypes
      <3>2. CASE ~Answered(r)
        BY <1>5, <3>2, <1>0
           DEF ReadConfig, GoTo, SiteTypeOK, ExtTypeOK, RequestTypeOK, RequestHas
      <3> QED  BY <3>1, <3>2
    <2>4. (\A q \in Requests : RequestHas(q))'
      BY <1>5, NullAssumption DEF ReadConfig, Answered, GoTo, RequestTypeOK, RequestHas
    <2> QED  BY <2>1, <2>2, <2>3, <2>4
  <1>6. CASE ReadRootDir(r)
    <2>1. SiteTypeOK' /\ ExtTypeOK'
      BY <1>6
         DEF ReadRootDir, Answered, GoTo, SiteTypeOK, ExtTypeOK, RequestTypeOK,
             RequestHas
    <2>2. UpdaterTypeOK' /\ UpdaterHas'  BY <1>6
        DEF ReadRootDir, Answered, GoTo, UpdaterTypeOK, UpdaterHas
    <2>3. RequestTypeOK'
      <3>1. CASE Answered(r)  BY <3>1, AnsweredTypes
      <3>2. CASE ~Answered(r)
        <4>1. rsite[r] \in SiteObjs  BY <1>6 DEF ReadRootDir, RequestTypeOK, RequestHas
        <4>2. root[rsite[r]] \in Dirs  BY <4>1 DEF SiteTypeOK
        <4> QED  BY <1>6, <3>2, <4>2 DEF ReadRootDir, GoTo, RequestTypeOK
      <3> QED  BY <3>1, <3>2
    <2>4. (\A q \in Requests : RequestHas(q))'
      BY <1>6, NullAssumption DEF ReadRootDir, Answered, GoTo, RequestTypeOK, RequestHas
    <2> QED  BY <2>1, <2>2, <2>3, <2>4
  <1>7. CASE Lookup(r)
    <2>1. SiteTypeOK' /\ ExtTypeOK'
      BY <1>7 DEF Lookup, GoTo, SiteTypeOK, ExtTypeOK, RequestTypeOK, RequestHas
    <2>2. UpdaterTypeOK' /\ UpdaterHas'  BY <1>7
        DEF Lookup, GoTo, UpdaterTypeOK, UpdaterHas
    <2>3. RequestTypeOK'
      <3>1. rpc' \in [Requests -> {"idle", "get", "getExt", "setExt", "config", "root",
                                   "lookup", "drop", "make", "serve"}]
        BY <1>7 DEF Lookup, GoTo, RequestTypeOK
      <3>2. rext[r] \in Exts  BY <1>7 DEF Lookup, RequestTypeOK, RequestHas
      <3>3. cache[rext[r]] \in Handlers \cup {NoHandler}  BY <3>2 DEF ExtTypeOK
      <3>4. rhand' \in [Requests -> Handlers \cup {NoHandler}]
        BY <1>7, <3>3 DEF Lookup, RequestTypeOK
      <3> QED  BY <1>7, <3>1, <3>4 DEF Lookup, RequestTypeOK
    <2>4. (\A q \in Requests : RequestHas(q))'
      BY <1>7, NullAssumption DEF Lookup, GoTo, RequestTypeOK, RequestHas
    <2> QED  BY <2>1, <2>2, <2>3, <2>4
  <1>8. CASE Drop(r)
    <2>1. SiteTypeOK' /\ ExtTypeOK'
      BY <1>8 DEF Drop, GoTo, SiteTypeOK, ExtTypeOK, RequestTypeOK, RequestHas
    <2>2. UpdaterTypeOK' /\ UpdaterHas'  BY <1>8
        DEF Drop, GoTo, UpdaterTypeOK, UpdaterHas
    <2>3. RequestTypeOK'
      BY <1>8, <1>0, AnyInSets
         DEF Drop, GoTo, SiteTypeOK, ExtTypeOK, RequestTypeOK, RequestHas
    <2>4. (\A q \in Requests : RequestHas(q))'
      BY <1>8, NullAssumption DEF Drop, GoTo, RequestTypeOK, RequestHas
    <2> QED  BY <2>1, <2>2, <2>3, <2>4
  <1>9. CASE MakeHandler(r)
    <2>0. SiteTypeOK'  BY <1>9 DEF MakeHandler, SiteTypeOK
    <2>a. rext[r] \in Exts /\ rroot[r] \in Dirs
      BY <1>9 DEF MakeHandler, RequestTypeOK, RequestHas
    <2>b. PICK h \in Handlers :
            /\ hroot' = [hroot EXCEPT ![h] = rroot[r]]
            /\ hclosed' = [hclosed EXCEPT ![h] = FALSE]
            /\ cache' = IF rconf[r].cache THEN [cache EXCEPT ![rext[r]] = h] ELSE cache
      BY <1>9 DEF MakeHandler
    <2>c. cache' \in [Exts -> Handlers \cup {NoHandler}]  BY <2>b DEF ExtTypeOK
    <2>1. SiteTypeOK' /\ ExtTypeOK'
      BY <1>9, <2>0, <2>a, <2>b, <2>c DEF MakeHandler, ExtTypeOK
    <2>2. UpdaterTypeOK' /\ UpdaterHas'  BY <1>9
        DEF MakeHandler, GoTo, UpdaterTypeOK, UpdaterHas
    <2>3. RequestTypeOK'
      BY <1>9, <1>0, AnyInSets
         DEF MakeHandler, GoTo, SiteTypeOK, ExtTypeOK, RequestTypeOK, RequestHas
    <2>4. (\A q \in Requests : RequestHas(q))'
      BY <1>9, NullAssumption DEF MakeHandler, GoTo, RequestTypeOK, RequestHas
    <2> QED  BY <2>1, <2>2, <2>3, <2>4
  <1>10. CASE UseSession(r)
    <2>1. SiteTypeOK' /\ ExtTypeOK'
      BY <1>10 DEF UseSession, SiteTypeOK, ExtTypeOK, RequestTypeOK, RequestHas
    <2>2. UpdaterTypeOK' /\ UpdaterHas'  BY <1>10
        DEF UseSession, UpdaterTypeOK, UpdaterHas
    <2>3. RequestTypeOK'
      BY <1>10, <1>0, AnyInSets
         DEF UseSession, SiteTypeOK, ExtTypeOK, RequestTypeOK, RequestHas
    <2>4. (\A q \in Requests : RequestHas(q))'
      BY <1>10, NullAssumption DEF UseSession, RequestTypeOK, RequestHas
    <2> QED  BY <2>1, <2>2, <2>3, <2>4
  <1>11. CASE Served(r)
    <2>0. SiteTypeOK'  BY <1>11 DEF Served, SiteTypeOK
    <2>a. hclosed' \in [Handlers -> BOOLEAN]  BY <1>11 DEF Served, ExtTypeOK
    <2>b. ExtTypeOK'  BY <1>11, <2>a DEF Served, ExtTypeOK
    <2>1. SiteTypeOK' /\ ExtTypeOK'  BY <2>0, <2>b
    <2>2. UpdaterTypeOK' /\ UpdaterHas'  BY <1>11
        DEF Served, Answered, GoTo, UpdaterTypeOK, UpdaterHas
    <2>3. RequestTypeOK'
      BY <1>11, <1>0, AnyInSets
         DEF Served, Answered, GoTo, SiteTypeOK, ExtTypeOK, RequestTypeOK, RequestHas
    <2>4. (\A q \in Requests : RequestHas(q))'
      BY <1>11, NullAssumption DEF Served, Answered, GoTo, RequestTypeOK, RequestHas
    <2> QED  BY <2>1, <2>2, <2>3, <2>4
  <1> QED  BY <1>1, <1>2, <1>3, <1>4, <1>5, <1>6, <1>7, <1>8, <1>9, <1>10, <1>11
      DEF Request

\* The invariant about types, with what each step relies on.
THEOREM TypeInvariant == Spec => []TypeInv
  <1>1. TypeInv /\ [Next]_vars => TypeInv'
    <2> SUFFICES ASSUME TypeInv, [Next]_vars PROVE TypeInv'  OBVIOUS
    <2>1. CASE UNCHANGED vars
      BY <2>1 DEF TypeInv, TypeOK, SiteTypeOK, ExtTypeOK, UpdaterTypeOK, RequestTypeOK,
                  UpdaterHas, RequestHas, vars, siteVars, extVars, updVars, reqVars,
                  hist
    <2> QED  BY <2>1, UpdaterKeepsTypes, RequestKeepsTypes DEF Next
  <1> QED  BY <1>1, TypeInit, PTL DEF Spec

\* Every variable has its type: what each step finds in the pool, in an extension
\* or in a request is there.
THEOREM TypeCorrect == Spec => []TypeOK
  <1>1. TypeInv => TypeOK  BY DEF TypeInv
  <1> QED  BY <1>1, TypeInvariant, PTL

-----------------------------------------------------------------------------
(* A site that a request can find is in the pool.  The hosts an update has *)
(* handled lead to a site of an identity it keeps, which is why taking the *)
(* other sites from the pool, after the other hosts, leaves no host alone. *)

Deleting == {"delSites", "delGet", "delSet", "delExt", "delSess", "delData"}

Handled(h) ==
    \E j \in DOMAIN cfg :
        /\ cfg[j].on /\ h \in cfg[j].hosts
        /\ \/ upc \in {"site", "hosts", "getExt", "setExt", "setConf", "info", "infoGet",
                       "infoSet", "plugins"} /\ j < k
           \/ upc \in {"getExt", "setExt", "setConf", "info", "infoGet", "infoSet",
                       "plugins"} /\ j = k
           \/ upc = "hosts" /\ j = k /\ h \notin todo
           \/ upc \in Deleting \cup {"delHosts"}

Kept(h) == /\ man[h] # NoSite
           /\ \E i \in Idents \cap EffectiveIdents : pool[i] = man[h]

Adding == upc = "hosts" => /\ cfg[k].on
                           /\ cur = pool[cfg[k].id]
                           /\ todo \subseteq cfg[k].hosts

Removing(h) ==
    /\ upc = "delHosts" /\ h \notin todo /\ man[h] # NoSite => h \in EffectiveHosts
    /\ upc \in Deleting /\ man[h] # NoSite => h \in EffectiveHosts

HostInv ==
    /\ FoundSiteIsPooled
    /\ \A h \in Hosts : Handled(h) => Kept(h)
    /\ Adding
    /\ \A h \in Hosts : Removing(h)

LEMMA EffectiveHost ==
    \A h : h \in EffectiveHosts <=> \E j \in DOMAIN cfg : cfg[j].on /\ h \in cfg[j].hosts
  BY DEF EffectiveHosts

LEMMA EffectiveIdent ==
    \A i : i \in EffectiveIdents <=> \E j \in DOMAIN cfg : cfg[j].on /\ i = cfg[j].id
  BY DEF EffectiveIdents

\* A site stored under a name that had none takes no site from a host.
LEMMA PoolGrows ==
    ASSUME TypeInv, NEW name \in Idents, NEW s \in SiteObjs, NewSite(name, s),
           UNCHANGED <<man, cfg>>
    PROVE  /\ pool'[name] = s
           /\ \A h \in Hosts, i \in Idents :
                man[h] # NoSite /\ pool[i] = man[h] => man'[h] # NoSite /\ pool'[i] = man'[h]
           /\ EffectiveIdents' = EffectiveIdents
  <1>1. EffectiveIdents' = EffectiveIdents  BY DEF EffectiveIdents
  <1>2. CASE pool[name] # NoSite  BY <1>1, <1>2 DEF NewSite
  <1>3. CASE pool[name] = NoSite
    BY <1>1, <1>3 DEF NewSite, TypeInv, TypeOK, SiteTypeOK
  <1> QED  BY <1>2, <1>3

LEMMA HostInit == Init => HostInv
  BY DEF Init, HostInv, FoundSiteIsPooled, Handled, Adding, Removing, Deleting

\* Steps that change neither the pool nor a host.
LEMMA SameHosts ==
    ASSUME HostInv, UNCHANGED <<pool, man, cfg>>
    PROVE  /\ FoundSiteIsPooled'
           /\ \A h \in Hosts : Kept(h) => Kept(h)'
           /\ EffectiveHosts' = EffectiveHosts
  <1>1. EffectiveIdents' = EffectiveIdents /\ EffectiveHosts' = EffectiveHosts
    BY DEF EffectiveIdents, EffectiveHosts
  <1> QED  BY <1>1 DEF HostInv, FoundSiteIsPooled, Kept

LEMMA HostStep == TypeInv /\ HostInv /\ [Next]_vars => HostInv'
  <1> SUFFICES ASSUME TypeInv, HostInv, [Next]_vars PROVE HostInv'  OBVIOUS
  <1>0. /\ k \in Nat
        /\ \A i \in DOMAIN cfg : /\ i \in Nat /\ i >= 1
                                  /\ cfg[i].id \in Idents \cup {NoIdent}
                                  /\ cfg[i].hosts \subseteq Hosts
                                  /\ cfg[i].on \in BOOLEAN
        /\ \E n \in Nat : DOMAIN cfg = 1 .. n
    <2>1. cfg \in Configs \cup {<<>>} /\ k \in Nat  BY
        DEF TypeInv, TypeOK, UpdaterTypeOK
    <2>2. cfg \in Seq(Settings)  BY <2>1, ConfigIsSeq
    <2>3. Len(cfg) \in Nat /\ DOMAIN cfg = 1 .. Len(cfg)  BY <2>2
    <2> QED  BY <2>1, <2>3, ConfigIsSeq
  <1>a. UpdaterHas  BY DEF TypeInv
  <1>1. CASE UNCHANGED <<pool, man, cfg, upc, k, todo, cur>>
    <2>1. \A h \in Hosts : (Handled(h)' => Handled(h)) /\ (Removing(h) => Removing(h)')
      BY <1>1, SameHosts DEF Handled, Removing
    <2>2. Adding'  BY <1>1 DEF HostInv, Adding
    <2> QED  BY <1>1, <2>1, <2>2, SameHosts DEF HostInv
  <1>2. CASE UNCHANGED <<pool, man, cfg>> /\ upc' = "idle"
    BY <1>2, SameHosts DEF HostInv, Handled, Adding, Removing, Deleting
  <1>3. CASE UpdateConfig
    <2>1. FoundSiteIsPooled'  BY <1>3
        DEF UpdateConfig, siteVars, HostInv, FoundSiteIsPooled
    <2>2. upc' = "site" /\ k' = 1 /\ cfg' \in Configs  BY <1>3 DEF UpdateConfig
    <2>3. \A i \in DOMAIN cfg' : i \in Nat /\ i >= 1  BY <2>2, ConfigIsSeq
    <2>4. \A h \in Hosts : ~Handled(h)'  BY <2>2, <2>3 DEF Handled, Deleting
    <2> QED  BY <2>1, <2>2, <2>4 DEF HostInv, Adding, Removing, Deleting
  <1>4. CASE Close
    <2>1. FoundSiteIsPooled'  BY <1>4 DEF Close, HostInv, FoundSiteIsPooled
    <2>2. upc' = "delHosts" /\ todo' = Hosts /\ cfg' = <<>>  BY <1>4 DEF Close
    <2>3. \A h \in Hosts : ~Handled(h)'  BY <2>2 DEF Handled
    <2> QED  BY <2>1, <2>2, <2>3 DEF HostInv, Adding, Removing, Deleting
  <1>5. ASSUME UNCHANGED <<pool, man, cfg>>, upc' \notin {"hosts", "delHosts"},
               upc' \notin Deleting \/ upc \in Deleting,
               \A h \in Hosts : Handled(h)' => Handled(h)
        PROVE  HostInv'
    BY <1>5, SameHosts DEF HostInv, Adding, Removing
  <1>6. CASE AddSite
    <2>1. PICK s \in SiteObjs : NewSite(cfg[k].id, s) /\ cur' = s  BY <1>6 DEF AddSite
    <2>2. /\ upc = "site" /\ upc' = "hosts" /\ k \in DOMAIN cfg /\ cfg[k].id \in Idents
          /\ cfg[k].on /\ todo' = cfg[k].hosts /\ UNCHANGED <<man, cfg, k>>
      BY <1>6, <1>0 DEF AddSite, updRest
    <2>3. /\ pool'[cfg[k].id] = s
          /\ \A h \in Hosts, i \in Idents :
               man[h] # NoSite /\ pool[i] = man[h] => man'[h] # NoSite /\ pool'[i] = man'[h]
          /\ EffectiveIdents' = EffectiveIdents
      BY <2>1, <2>2, PoolGrows
    <2>4. FoundSiteIsPooled' /\ \A h \in Hosts : Kept(h) => Kept(h)'
      BY <2>2, <2>3 DEF HostInv, FoundSiteIsPooled, Kept
    <2>5. \A h \in Hosts : Handled(h)' => Handled(h)
      BY <2>2, <1>0 DEF Handled, Deleting
    <2>6. Adding'  BY <2>1, <2>2, <2>3 DEF Adding
    <2> QED  BY <2>2, <2>4, <2>5, <2>6 DEF HostInv, Removing, Deleting
  <1>7. CASE InfoSite
    <2>1. PICK s \in SiteObjs : NewSite(cfg[k].id, s) /\ cur' = s  BY <1>7 DEF InfoSite
    <2>2. /\ upc = "info" /\ upc' = "infoGet" /\ k \in DOMAIN cfg /\ cfg[k].id \in Idents
          /\ UNCHANGED <<man, cfg, k>>
      BY <1>7, <1>0, <1>a DEF InfoSite, updRest, UpdaterHas
    <2>3. /\ \A h \in Hosts, i \in Idents :
               man[h] # NoSite /\ pool[i] = man[h] => man'[h] # NoSite /\ pool'[i] = man'[h]
          /\ EffectiveIdents' = EffectiveIdents
      BY <2>1, <2>2, PoolGrows
    <2>4. FoundSiteIsPooled' /\ \A h \in Hosts : Kept(h) => Kept(h)'
      BY <2>2, <2>3 DEF HostInv, FoundSiteIsPooled, Kept
    <2>5. \A h \in Hosts : Handled(h)' => Handled(h)
      BY <2>2 DEF Handled, Deleting
    <2> QED  BY <2>2, <2>4, <2>5 DEF HostInv, Removing, Deleting, Adding
  <1>8. CASE AddHost
    <2>1. PICK h \in todo : man' = [man EXCEPT ![h] = cur] /\ todo' = todo \ {h}
      BY <1>8 DEF AddHost
    <2>2. /\ upc = "hosts" /\ UNCHANGED <<pool, cfg, k, upc, cur>>
          /\ k \in DOMAIN cfg /\ cfg[k].id \in Idents /\ cfg[k].on
          /\ cur = pool[cfg[k].id] /\ cur # NoSite /\ h \in cfg[k].hosts /\ h \in Hosts
      BY <1>8, <1>0, <1>a, <2>1 DEF AddHost, updRest, UpdaterHas, HostInv, Adding
    <2>3. EffectiveIdents' = EffectiveIdents /\ cfg[k].id \in EffectiveIdents
      BY <2>2 DEF EffectiveIdents
    <2>4. man'[h] = cur /\ \A g \in Hosts \ {h} : man'[g] = man[g]
      BY <2>1, <2>2 DEF TypeInv, TypeOK, SiteTypeOK
    <2>5. FoundSiteIsPooled'  BY <2>2, <2>4 DEF HostInv, FoundSiteIsPooled
    <2>6. Kept(h)'  BY <2>2, <2>3, <2>4 DEF Kept
    <2>7. \A g \in Hosts \ {h} : Kept(g) => Kept(g)'  BY <2>2, <2>3, <2>4 DEF Kept
    <2>8. \A g \in Hosts \ {h} : Handled(g)' => Handled(g)  BY <2>1, <2>2 DEF Handled
    <2>9. Adding'  BY <2>1, <2>2 DEF HostInv, Adding
    <2> QED  BY <2>2, <2>5, <2>6, <2>7, <2>8, <2>9 DEF HostInv, Removing, Deleting
  <1>9. CASE SetRootDir
    <2>1. \A h \in Hosts : Handled(h)' => Handled(h)
      BY <1>9 DEF SetRootDir, updRest, Handled, Deleting
    <2> QED  BY <1>9, <1>5, <2>1 DEF SetRootDir, updRest, Deleting
  <1>10. CASE SkipSite
    <2>1. \A h \in Hosts : Handled(h)' => Handled(h)
      BY <1>10, <1>0 DEF SkipSite, updRest, siteVars, Handled, Deleting
    <2> QED  BY <1>10, <1>5, <2>1 DEF SkipSite, updRest, siteVars, Deleting
  <1>11. CASE SetPlugins
    <2>1. \A h \in Hosts : Handled(h)' => Handled(h)
      BY <1>11, <1>0 DEF SetPlugins, updRest, siteVars, Handled, Deleting
    <2> QED  BY <1>11, <1>5, <2>1 DEF SetPlugins, updRest, siteVars, Deleting
  <1>12. CASE setConfig
    <2>1. \A h \in Hosts : Handled(h)' => Handled(h)
      BY <1>12 DEF setConfig, updRest, siteVars, Handled, Deleting
    <2> QED  BY <1>12, <1>5, <2>1 DEF setConfig, updRest, siteVars, Deleting
  <1>13. CASE BeginDel
    <2>1. /\ upc = "site" /\ upc' = "delHosts" /\ todo' = Hosts /\ k \notin DOMAIN cfg
          /\ UNCHANGED <<pool, man, cfg>>
      BY <1>13 DEF BeginDel, siteVars, updRest
    <2>2. k >= 1  BY <2>1, <1>a DEF UpdaterHas
    <2>3. \A j \in DOMAIN cfg : j < k  BY <2>1, <2>2, <1>0
    <2>4. \A h \in Hosts : Handled(h)' => Handled(h)  BY <2>1, <2>3 DEF Handled
    <2> QED  BY <2>1, <2>4, SameHosts DEF HostInv, Adding, Removing, Deleting
  <1>14. CASE DelHost
    <2>1. PICK h \in todo :
            /\ todo' = todo \ {h}
            /\ man' = IF h \in EffectiveHosts THEN man ELSE [man EXCEPT ![h] = NoSite]
      BY <1>14 DEF DelHost
    <2>2. upc = "delHosts" /\ UNCHANGED <<pool, cfg, upc>> /\ h \in Hosts
      BY <1>14 DEF DelHost, updRest, TypeInv, TypeOK, UpdaterTypeOK
    <2>3. EffectiveIdents' = EffectiveIdents /\ EffectiveHosts' = EffectiveHosts
      BY <2>2 DEF EffectiveIdents, EffectiveHosts
    <2>4. /\ \A g \in Hosts : (g # h \/ h \in EffectiveHosts) => man'[g] = man[g]
          /\ h \notin EffectiveHosts => man'[h] = NoSite
      BY <2>1, <2>2 DEF TypeInv, TypeOK, SiteTypeOK
    <2>5. FoundSiteIsPooled'  BY <2>2, <2>4 DEF HostInv, FoundSiteIsPooled
    <2>6. \A g \in Hosts : Handled(g)' => Handled(g) /\ g \in EffectiveHosts
      BY <2>2, EffectiveHost DEF Handled, Deleting
    <2>7. \A g \in Hosts : g \in EffectiveHosts /\ Kept(g) => Kept(g)'
      BY <2>2, <2>3, <2>4 DEF Kept
    <2>8. \A g \in Hosts : Removing(g)'
      BY <2>1, <2>2, <2>3, <2>4 DEF HostInv, Removing, Deleting
    <2> QED  BY <2>2, <2>5, <2>6, <2>7, <2>8 DEF HostInv, Adding
  <1>15. CASE BeginDelSites
    <2>1. /\ upc = "delHosts" /\ todo = {} /\ upc' = "delSites"
          /\ UNCHANGED <<pool, man, cfg>>
      BY <1>15 DEF BeginDelSites, siteVars, updRest
    <2>2. \A h \in Hosts : Handled(h)' => Handled(h)  BY <2>1 DEF Handled, Deleting
    <2> QED  BY <2>1, <2>2, SameHosts DEF HostInv, Adding, Removing, Deleting
  <1>16. CASE DelSite
    <2>1. PICK i \in Idents \ EffectiveIdents : pool' = [pool EXCEPT ![i] = NoSite]
      BY <1>16 DEF DelSite
    <2>2. upc = "delSites" /\ upc' = "delGet" /\ UNCHANGED <<man, cfg>>
      BY <1>16 DEF DelSite, updRest
    <2>3. EffectiveIdents' = EffectiveIdents /\ EffectiveHosts' = EffectiveHosts
      BY <2>2 DEF EffectiveIdents, EffectiveHosts
    <2>4. \A j \in Idents \cap EffectiveIdents : pool'[j] = pool[j]
      BY <2>1 DEF TypeInv, TypeOK, SiteTypeOK
    <2>5. \A h \in Hosts : Kept(h) => Kept(h)'  BY <2>2, <2>3, <2>4 DEF Kept
    <2>6. \A h \in Hosts : Handled(h)' => Handled(h)  BY <2>2 DEF Handled, Deleting
    <2>7. \A h \in Hosts : h \in EffectiveHosts => Handled(h)
      BY <2>2, EffectiveHost DEF Handled, Deleting
    <2>8. \A h \in Hosts : man[h] # NoSite => Kept(h)'
      BY <2>2, <2>5, <2>7 DEF HostInv, Removing, Deleting
    <2>9. FoundSiteIsPooled'  BY <2>2, <2>8 DEF FoundSiteIsPooled, Kept
    <2>10. \A h \in Hosts : Removing(h)'
      BY <2>2, <2>3 DEF HostInv, Removing, Deleting
    <2> QED  BY <2>2, <2>5, <2>6, <2>9, <2>10 DEF HostInv, Adding
  <1>17. CASE DelExt
    <2>1. \A h \in Hosts : Handled(h)' => Handled(h)
      BY <1>17 DEF DelExt, updRest, siteVars, Handled, Deleting
    <2> QED  BY <1>17, <1>5, <2>1 DEF DelExt, updRest, siteVars, Deleting
  <1>18. CASE InstantDeadAll
    <2>1. \A h \in Hosts : Handled(h)' => Handled(h)
      BY <1>18 DEF InstantDeadAll, updRest, siteVars, Handled, Deleting
    <2> QED  BY <1>18, <1>5, <2>1 DEF InstantDeadAll, updRest, siteVars, Deleting
  <1>19. CASE ResetData
    <2>1. \A h \in Hosts : Handled(h)' => Handled(h)
      BY <1>19 DEF ResetData, updRest, siteVars, Handled, Deleting
    <2> QED  BY <1>19, <1>5, <2>1 DEF ResetData, updRest, siteVars, Deleting
  <1>20. CASE GetExt("getExt", "setExt", "setConf")
    <2>1. \A h \in Hosts : Handled(h)' => Handled(h)
      BY <1>20 DEF GetExt, siteVars, updRest, Handled, Deleting
    <2> QED  BY <1>20, <1>5, <2>1 DEF GetExt, siteVars, updRest, Deleting
  <1>21. CASE SetExt("setExt", "setConf")
    <2>1. \A h \in Hosts : Handled(h)' => Handled(h)
      BY <1>21 DEF SetExt, updRest, Handled, Deleting
    <2> QED  BY <1>21, <1>5, <2>1 DEF SetExt, updRest, Deleting
  <1>22. CASE GetExt("infoGet", "infoSet", "plugins")
    <2>1. \A h \in Hosts : Handled(h)' => Handled(h)
      BY <1>22 DEF GetExt, siteVars, updRest, Handled, Deleting
    <2> QED  BY <1>22, <1>5, <2>1 DEF GetExt, siteVars, updRest, Deleting
  <1>23. CASE SetExt("infoSet", "plugins")
    <2>1. \A h \in Hosts : Handled(h)' => Handled(h)
      BY <1>23 DEF SetExt, updRest, Handled, Deleting
    <2> QED  BY <1>23, <1>5, <2>1 DEF SetExt, updRest, Deleting
  <1>24. CASE GetExt("delGet", "delSet", "delExt")
    <2>1. \A h \in Hosts : Handled(h)' => Handled(h)
      BY <1>24 DEF GetExt, siteVars, updRest, Handled, Deleting
    <2> QED  BY <1>24, <1>5, <2>1 DEF GetExt, siteVars, updRest, Deleting
  <1>25. CASE SetExt("delSet", "delExt")
    <2>1. \A h \in Hosts : Handled(h)' => Handled(h)
      BY <1>25 DEF SetExt, updRest, Handled, Deleting
    <2> QED  BY <1>25, <1>5, <2>1 DEF SetExt, updRest, Deleting
  <1>26. CASE NoIdentity \/ EndUpdate
    BY <1>26, <1>2 DEF NoIdentity, EndUpdate, siteVars, updRest
  <1>27. CASE NewSitePool \/ Tick \/ Expire \/ UNCHANGED vars
    BY <1>27, <1>1 DEF NewSitePool, Tick, Expire, vars, siteVars, updVars
  <1>28. ASSUME NEW r \in Requests, Request(r) PROVE HostInv'
    <2>1. UNCHANGED <<pool, man, updVars>>
      BY <1>28 DEF Request, Arrive, GetSite, RequestGetExt, RequestSetExt, ReadConfig,
                   ReadRootDir, Lookup, Drop, MakeHandler, UseSession, Served, siteVars
    <2> QED  BY <2>1, <1>1 DEF updVars
  <1> QED
    BY <1>3, <1>4, <1>6, <1>7, <1>8, <1>9, <1>10, <1>11, <1>12, <1>13, <1>14, <1>15,
       <1>16, <1>17, <1>18, <1>19, <1>20, <1>21, <1>22, <1>23, <1>24, <1>25, <1>26,
       <1>27, <1>28 DEF Next, Updater

\* A site that a request can find is in the pool.
THEOREM FoundIsPooled == Spec => []FoundSiteIsPooled
  <1>1. HostInv => FoundSiteIsPooled  BY DEF HostInv
  <1> QED  BY <1>1, HostInit, HostStep, TypeInvariant, PTL DEF Spec

-----------------------------------------------------------------------------
(* A cached handler has not been closed.  It is in one cache only, and no  *)
(* request that will close its handler serves it; an extension comes into  *)
(* use empty, so what is said of those in use is enough.                   *)

SiteUsed(s) == \/ \E i \in Idents : pool[i] = s
               \/ \E h \in Hosts : man[h] = s
               \/ \E r \in Requests : rsite[r] = s
               \/ cur = s

ExtUsed(e) == \/ \E s \in SiteObjs : SiteUsed(s) /\ ext[s] = e
              \/ \E r \in Requests : rext[r] = e
              \/ se = e

ClosesItsHandler(r) == rpc[r] = "serve" /\ ~rconf[r].cache

CacheInv ==
    \A e \in Exts : ExtUsed(e) /\ cache[e] # NoHandler =>
        /\ ~hclosed[cache[e]]
        /\ \A f \in Exts : ExtUsed(f) /\ cache[f] = cache[e] => f = e
        /\ \A r \in Requests : ClosesItsHandler(r) => rhand[r] # cache[e]

LEMMA Used ==
    ASSUME TypeInv
    PROVE  /\ \A e \in Exts : e \in UsedExts <=> ExtUsed(e)
           /\ \A e \in UsedExts : e \in Exts \cup {NoExt}
           /\ \A e \in Exts : ExtUsed(e) => cache[e] \in UsedHandlers
           /\ \A r \in Requests : rhand[r] \in UsedHandlers
  <1> USE DEF TypeInv, TypeOK
  <1>1. /\ Range(pool) = {pool[i] : i \in Idents} /\ Range(man) = {man[h] : h \in Hosts}
        /\ Range(rsite) = {rsite[r] : r \in Requests}
        /\ Range(rext) = {rext[r] : r \in Requests}
        /\ Range(rhand) = {rhand[r] : r \in Requests}
    BY DEF Range, SiteTypeOK, RequestTypeOK
  <1>2. \A s : s \in UsedSites <=> SiteUsed(s)  BY <1>1 DEF UsedSites, SiteUsed
  <1>3. UsedSites \subseteq SiteObjs \cup {NoSite}
    BY <1>1 DEF UsedSites, SiteTypeOK, RequestTypeOK, UpdaterTypeOK
  <1>4. \A e : e \in UsedExts <=> \/ \E s \in UsedSites \ {NoSite} : ext[s] = e
                                  \/ \E r \in Requests : rext[r] = e
                                  \/ se = e
    BY <1>1 DEF UsedExts
  <1>5. \A e : e \in UsedExts <=> ExtUsed(e)
    BY <1>2, <1>3, <1>4, NullAssumption DEF ExtUsed
  <1>6. \A e \in UsedExts : e \in Exts \cup {NoExt}
    <2>1. \A s \in UsedSites \ {NoSite} : ext[s] \in Exts \cup {NoExt}
      BY <1>3 DEF SiteTypeOK
    <2>2. /\ \A r \in Requests : rext[r] \in Exts \cup {NoExt}
          /\ se \in Exts \cup {NoExt}
      BY DEF RequestTypeOK, UpdaterTypeOK
    <2> QED  BY <1>4, <2>1, <2>2
  <1>7. \A e \in Exts : ExtUsed(e) => cache[e] \in UsedHandlers
    BY <1>5, NullAssumption DEF UsedHandlers
  <1>8. \A r \in Requests : rhand[r] \in UsedHandlers  BY <1>1 DEF UsedHandlers
  <1> QED  BY <1>5, <1>6, <1>7, <1>8

LEMMA CacheMeans == TypeInv /\ CacheInv => CachedHandlerIsOpen
  BY Used DEF CacheInv, CachedHandlerIsOpen

LEMMA CacheInit == Init => CacheInv
  BY DEF Init, CacheInv

\* An extension that was not in use comes into use with an empty cache.
ComesEmpty == \A e \in Exts : ExtUsed(e)' => ExtUsed(e) \/ cache'[e] = NoHandler

LEMMA SetExtendComesEmpty ==
    ASSUME TypeInv, NEW s \in SiteObjs, SiteUsed(s), NEW e \in Exts, SetExtend(s, e),
           UNCHANGED <<pool, man, cur>>,
           \A r \in Requests : /\ rsite'[r] = rsite[r]
                               /\ rext'[r] \in {rext[r], e},
           se' \in {se, e}
    PROVE  ComesEmpty
  <1>1. cache'[e] = NoHandler  BY DEF SetExtend, TypeInv, TypeOK, ExtTypeOK
  <1>2. \A x \in SiteObjs : ext'[x] \in {ext[x], e}
    BY DEF SetExtend, TypeInv, TypeOK, SiteTypeOK
  <1>3. \A x : SiteUsed(x)' => SiteUsed(x)  BY DEF SiteUsed
  <1> QED  BY <1>1, <1>2, <1>3 DEF ComesEmpty, ExtUsed

LEMMA NewSiteComesEmpty ==
    ASSUME TypeInv, NEW name \in Idents, NEW s \in SiteObjs, NewSite(name, s), cur' = s,
           UNCHANGED <<man, rsite, rext, se>>
    PROVE  ComesEmpty
  <1>1. \A x \in SiteObjs : SiteUsed(x)' => SiteUsed(x) \/ (x = s /\ ext'[s] = NoExt)
    BY DEF NewSite, SiteUsed, TypeInv, TypeOK, SiteTypeOK
  <1>2. \A x \in SiteObjs : ext'[x] = ext[x] \/ ext'[x] = NoExt
    BY DEF NewSite, TypeInv, TypeOK, SiteTypeOK
  <1> QED  BY <1>1, <1>2, NullAssumption DEF ComesEmpty, ExtUsed

LEMMA UseStep == TypeInv /\ [Next]_vars => ComesEmpty
  <1> SUFFICES ASSUME TypeInv, [Next]_vars PROVE ComesEmpty  OBVIOUS
  <1> USE DEF TypeInv, TypeOK
  <1>1. CASE UNCHANGED <<pool, man, ext, cur, se, rsite, rext>>
    BY <1>1 DEF ComesEmpty, ExtUsed, SiteUsed
  <1>2. CASE AddSite \/ InfoSite
    <2>1. PICK s \in SiteObjs : NewSite(cfg[k].id, s) /\ cur' = s
      BY <1>2 DEF AddSite, InfoSite
    <2>2. cfg[k].id \in Idents
      <3>1. k \in DOMAIN cfg /\ cfg[k].id # NoIdent  BY <1>2
          DEF AddSite, InfoSite, UpdaterHas
      <3>2. cfg \in Configs \cup {<<>>}  BY DEF UpdaterTypeOK
      <3> QED  BY <3>1, <3>2, ConfigIsSeq
    <2> QED  BY <1>2, <2>1, <2>2, NewSiteComesEmpty DEF AddSite, InfoSite, reqVars
  <1>3. CASE AddHost
    <2>1. PICK h \in Hosts : man' = [man EXCEPT ![h] = cur]
      BY <1>3 DEF AddHost, UpdaterTypeOK
    <2>2. UNCHANGED <<pool, ext, cur, se, rsite, rext>>  BY <1>3 DEF AddHost, reqVars
    <2>3. \A x : SiteUsed(x)' => SiteUsed(x)  BY <2>1, <2>2 DEF SiteUsed, SiteTypeOK
    <2> QED  BY <2>2, <2>3 DEF ComesEmpty, ExtUsed
  <1>4. CASE DelHost
    <2>1. UNCHANGED <<pool, ext, cur, se, rsite, rext>>  BY <1>4 DEF DelHost, reqVars
    <2>2. \A x \in Hosts : man'[x] \in {man[x], NoSite}  BY <1>4 DEF DelHost, SiteTypeOK
    <2>3. \A x \in SiteObjs : SiteUsed(x)' => SiteUsed(x)
      BY <2>1, <2>2, NullAssumption DEF SiteUsed
    <2> QED  BY <2>1, <2>3 DEF ComesEmpty, ExtUsed
  <1>5. CASE DelSite
    <2>1. PICK i \in Idents : cur' = pool[i] /\ pool' = [pool EXCEPT ![i] = NoSite]
      BY <1>5 DEF DelSite
    <2>2. UNCHANGED <<man, ext, se, rsite, rext>>  BY <1>5 DEF DelSite, reqVars
    <2>3. \A x \in SiteObjs : SiteUsed(x)' => SiteUsed(x)
      BY <2>1, <2>2, NullAssumption DEF SiteUsed, SiteTypeOK
    <2> QED  BY <2>2, <2>3 DEF ComesEmpty, ExtUsed
  <1>6. CASE ResetData
    <2>1. UNCHANGED <<pool, man, rsite, rext>> /\ cur' = NoSite /\ se' = NoExt
      BY <1>6 DEF ResetData, reqVars
    <2>2. \A x \in SiteObjs : ext'[x] \in {ext[x], NoExt}  BY <1>6
        DEF ResetData, SiteTypeOK
    <2>3. \A x \in SiteObjs : SiteUsed(x)' => SiteUsed(x)
      BY <2>1, NullAssumption DEF SiteUsed
    <2> QED  BY <2>1, <2>2, <2>3, NullAssumption DEF ComesEmpty, ExtUsed
  <1>7. CASE EndUpdate
    <2>1. UNCHANGED <<pool, man, ext, rsite, rext>> /\ cur' = NoSite /\ se' = NoExt
      BY <1>7 DEF EndUpdate, siteVars, reqVars
    <2> QED  BY <2>1, NullAssumption DEF ComesEmpty, ExtUsed, SiteUsed
  <1>8. ASSUME NEW at, NEW make, NEW next, GetExt(at, make, next), cur \in SiteObjs
        PROVE  ComesEmpty
    <2>1. se' = ext[cur] /\ UNCHANGED <<pool, man, ext, cur, rsite, rext>>
      BY <1>8 DEF GetExt, siteVars, reqVars
    <2> QED  BY <1>8, <2>1 DEF ComesEmpty, ExtUsed, SiteUsed
  <1>9. ASSUME NEW at, NEW next, SetExt(at, next), cur \in SiteObjs
        PROVE  ComesEmpty
    <2>1. PICK e \in Exts : SetExtend(cur, e) /\ se' = e  BY <1>9 DEF SetExt
    <2>2. UNCHANGED <<pool, man, cur, rsite, rext>>  BY <1>9 DEF SetExt, reqVars
    <2>3. SiteUsed(cur)  BY DEF SiteUsed
    <2> QED  BY <1>9, <2>1, <2>2, <2>3, SetExtendComesEmpty
  <1>10. CASE \/ GetExt("getExt", "setExt", "setConf") \/ SetExt("setExt", "setConf")
              \/ GetExt("infoGet", "infoSet", "plugins") \/ SetExt("infoSet", "plugins")
              \/ GetExt("delGet", "delSet", "delExt") \/ SetExt("delSet", "delExt")
    <2>1. cur \in SiteObjs  BY <1>10 DEF GetExt, SetExt, UpdaterTypeOK, UpdaterHas
    <2> QED  BY <1>10, <2>1, <1>8, <1>9
  <1>11. CASE \/ UpdateConfig \/ Close \/ NoIdentity \/ SkipSite \/ SetRootDir \/ setConfig
              \/ SetPlugins \/ BeginDel \/ BeginDelSites \/ DelExt \/ InstantDeadAll
              \/ NewSitePool \/ Tick \/ Expire \/ UNCHANGED vars
    BY <1>11, <1>1 DEF UpdateConfig, Close, NoIdentity, SkipSite, SetRootDir, setConfig,
         SetPlugins, BeginDel, BeginDelSites, DelExt, InstantDeadAll, NewSitePool, Tick,
         Expire, vars, siteVars, updVars, reqVars
  <1>12. ASSUME NEW r \in Requests, Request(r) PROVE ComesEmpty
    <2>1. CASE Arrive(r) \/ Lookup(r) \/ Drop(r) \/ MakeHandler(r) \/ UseSession(r)
      BY <2>1, <1>1
         DEF Arrive, Lookup, Drop, MakeHandler, UseSession, siteVars, updVars,
                        reqVars
    <2>2. ASSUME Answered(r), UNCHANGED <<pool, man, ext, cur, se>> PROVE ComesEmpty
      <3>1. \A q \in Requests : rsite'[q] \in {rsite[q], NoSite} /\ rext'[q] \in {rext[q], NoExt}
        BY <2>2 DEF Answered, RequestTypeOK
      <3>2. \A x \in SiteObjs : SiteUsed(x)' => SiteUsed(x)
        BY <2>2, <3>1, NullAssumption DEF SiteUsed
      <3> QED  BY <2>2, <3>1, <3>2, NullAssumption DEF ComesEmpty, ExtUsed
    <2>3. CASE ReadConfig(r) \/ ReadRootDir(r) \/ Served(r)
      BY <2>3, <2>2, <1>1 DEF ReadConfig, ReadRootDir, Served, siteVars, updVars
    <2>4. CASE GetSite(r)
      <3>1. CASE Answered(r)  BY <2>4, <3>1, <2>2 DEF GetSite, siteVars, updVars
      <3>2. CASE ~Answered(r)
        <4>1. /\ host[r] \in Hosts /\ try[r] \in Nat /\ try[r] >= 1
              /\ try[r] <= Len(Candidates[host[r]])
          BY <2>4 DEF GetSite, RequestTypeOK, RequestHas
        <4>2. Candidates[host[r]][try[r]] \in Hosts  BY <4>1, CandidatesAssumption
        <4>3. PICK h \in Hosts : h = Candidates[host[r]][try[r]]  BY <4>2
        <4>4. /\ UNCHANGED <<pool, man, ext, cur, se, rext>>
              /\ \/ rsite' = [rsite EXCEPT ![r] = man[h]]
                 \/ rsite' = rsite
          BY <2>4, <3>2, <4>3 DEF GetSite, siteVars, updVars
        <4>5. \A x : SiteUsed(x)' => SiteUsed(x)  BY <4>4 DEF SiteUsed, RequestTypeOK
        <4> QED  BY <4>4, <4>5 DEF ComesEmpty, ExtUsed
      <3> QED  BY <3>1, <3>2
    <2>5. CASE RequestGetExt(r)
      <3>1. rsite[r] \in SiteObjs  BY <2>5 DEF RequestGetExt, RequestTypeOK, RequestHas
      <3>2. UNCHANGED <<pool, man, ext, cur, se, rsite>> /\ rext' = [rext EXCEPT ![r] = ext[rsite[r]]]
        BY <2>5 DEF RequestGetExt, siteVars, updVars
      <3>3. \A x : SiteUsed(x)' => SiteUsed(x)  BY <3>2 DEF SiteUsed
      <3>4. SiteUsed(rsite[r])  BY DEF SiteUsed
      <3> QED  BY <3>1, <3>2, <3>3, <3>4 DEF ComesEmpty, ExtUsed, RequestTypeOK
    <2>6. CASE RequestSetExt(r)
      <3>1. rsite[r] \in SiteObjs  BY <2>6 DEF RequestSetExt, RequestTypeOK, RequestHas
      <3>2. PICK e \in Exts : SetExtend(rsite[r], e) /\ rext' = [rext EXCEPT ![r] = e]
        BY <2>6 DEF RequestSetExt
      <3>3. UNCHANGED <<pool, man, cur, se, rsite>>  BY <2>6 DEF RequestSetExt, updVars
      <3>4. SiteUsed(rsite[r])  BY DEF SiteUsed
      <3>5. \A q \in Requests : rext'[q] \in {rext[q], e}  BY <3>2 DEF RequestTypeOK
      <3> QED  BY <3>1, <3>2, <3>3, <3>4, <3>5, SetExtendComesEmpty
    <2> QED  BY <1>12, <2>1, <2>3, <2>4, <2>5, <2>6 DEF Request
  <1> QED  BY <1>2, <1>3, <1>4, <1>5, <1>6, <1>7, <1>10, <1>11, <1>12 DEF Next, Updater

\* Steps that close nothing and put nothing into a cache.
CachesShrink ==
    /\ \A e \in Exts : cache'[e] \in {cache[e], NoHandler}
    /\ UNCHANGED hclosed
    /\ \A r \in Requests :
         ClosesItsHandler(r)' => ClosesItsHandler(r) /\ rhand'[r] = rhand[r]

LEMMA ShrinkKeepsCacheInv ==
    ASSUME CacheInv, ComesEmpty, CachesShrink
    PROVE  CacheInv'
  <1>1. \A e \in Exts : ExtUsed(e)' /\ cache'[e] # NoHandler => ExtUsed(e) /\ cache'[e] = cache[e]
    BY DEF ComesEmpty, CachesShrink
  <1> SUFFICES ASSUME NEW e \in Exts, ExtUsed(e)', cache'[e] # NoHandler
               PROVE  /\ ~hclosed'[cache'[e]]
                      /\ \A f \in Exts : ExtUsed(f)' /\ cache'[f] = cache'[e] => f = e
                      /\ \A r \in Requests : ClosesItsHandler(r)' => rhand'[r] # cache'[e]
    BY DEF CacheInv
  <1>2. ExtUsed(e) /\ cache'[e] = cache[e]  BY <1>1
  <1>3. ~hclosed'[cache'[e]]  BY <1>2 DEF CacheInv, CachesShrink
  <1>4. \A f \in Exts : ExtUsed(f)' /\ cache'[f] = cache'[e] => f = e
    BY <1>1, <1>2 DEF CacheInv
  <1>5. \A r \in Requests : ClosesItsHandler(r)' => rhand'[r] # cache'[e]
    BY <1>2 DEF CacheInv, CachesShrink
  <1> QED  BY <1>3, <1>4, <1>5

\* The timer closes what it took from the one cache that had it.
LEMMA ExpireStep ==
    ASSUME TypeInv, CacheInv, Expire
    PROVE  CacheInv'
  <1>1. PICK e \in UsedExts \ {NoExt} :
          /\ cache[e] # NoHandler
          /\ hclosed' = [hclosed EXCEPT ![cache[e]] = TRUE]
          /\ cache' = [cache EXCEPT ![e] = NoHandler]
    BY DEF Expire
  <1>2. e \in Exts /\ ExtUsed(e)  BY Used
  <1>3. UNCHANGED <<siteVars, updVars, reqVars>>  BY DEF Expire
  <1>4. \A f \in Exts : ExtUsed(f)' <=> ExtUsed(f)
    BY <1>3 DEF ExtUsed, SiteUsed, siteVars, updVars, reqVars
  <1>5. \A r \in Requests : (ClosesItsHandler(r)' <=> ClosesItsHandler(r)) /\ rhand'[r] = rhand[r]
    BY <1>3 DEF ClosesItsHandler, reqVars
  <1>6. \A f \in Exts : cache'[f] = IF f = e THEN NoHandler ELSE cache[f]
    BY <1>1, <1>2 DEF TypeInv, TypeOK, ExtTypeOK
  <1>7. \A h \in Handlers : h # cache[e] => hclosed'[h] = hclosed[h]
    BY <1>1 DEF TypeInv, TypeOK, ExtTypeOK
  <1>8. \A f \in Exts : ExtUsed(f) /\ cache[f] # NoHandler /\ f # e =>
            cache[f] # cache[e] /\ cache[f] \in Handlers
    BY <1>1, <1>2 DEF CacheInv, TypeInv, TypeOK, ExtTypeOK
  <1> SUFFICES ASSUME NEW f \in Exts, ExtUsed(f)', cache'[f] # NoHandler
               PROVE  /\ ~hclosed'[cache'[f]]
                      /\ \A g \in Exts : ExtUsed(g)' /\ cache'[g] = cache'[f] => g = f
                      /\ \A r \in Requests : ClosesItsHandler(r)' => rhand'[r] # cache'[f]
    BY DEF CacheInv
  <1>9. f # e /\ cache'[f] = cache[f] /\ cache[f] # NoHandler /\ ExtUsed(f)  BY <1>4,
      <1>6
  <1>10. ~hclosed'[cache'[f]]  BY <1>7, <1>8, <1>9 DEF CacheInv
  <1>11. \A g \in Exts : ExtUsed(g)' /\ cache'[g] = cache'[f] => g = f
    BY <1>4, <1>6, <1>9 DEF CacheInv
  <1>12. \A r \in Requests : ClosesItsHandler(r)' => rhand'[r] # cache'[f]
    BY <1>5, <1>9 DEF CacheInv
  <1> QED  BY <1>10, <1>11, <1>12

\* A request closes the handler it served only if that is in no cache.
LEMMA ServedStep ==
    ASSUME TypeInv, CacheInv, ComesEmpty, NEW r \in Requests, Served(r)
    PROVE  CacheInv'
  <1>1. /\ rpc[r] = "serve" /\ Answered(r) /\ UNCHANGED cache
        /\ hclosed' = IF rconf[r].cache THEN hclosed ELSE [hclosed EXCEPT ![rhand[r]] = TRUE]
    BY DEF Served
  <1>2. \A q \in Requests :
          ClosesItsHandler(q)' => ClosesItsHandler(q) /\ rhand'[q] = rhand[q]
    BY <1>1 DEF ClosesItsHandler, Answered, TypeInv, TypeOK, RequestTypeOK
  <1>3. CASE rconf[r].cache
    BY <1>1, <1>2, <1>3, ShrinkKeepsCacheInv DEF CachesShrink
  <1>4. CASE ~rconf[r].cache
    <2>1. \A h \in Handlers : h # rhand[r] => hclosed'[h] = hclosed[h]
      BY <1>1, <1>4 DEF TypeInv, TypeOK, ExtTypeOK
    <2>2. ClosesItsHandler(r)  BY <1>1, <1>4 DEF ClosesItsHandler
    <2> SUFFICES ASSUME NEW e \in Exts, ExtUsed(e)', cache'[e] # NoHandler
                 PROVE  /\ ~hclosed'[cache'[e]]
                        /\ \A f \in Exts : ExtUsed(f)' /\ cache'[f] = cache'[e] => f = e
                        /\ \A q \in Requests : ClosesItsHandler(q)' => rhand'[q] # cache'[e]
      BY DEF CacheInv
    <2>3. ExtUsed(e) /\ cache'[e] = cache[e] /\ cache[e] \in Handlers
      BY <1>1 DEF ComesEmpty, TypeInv, TypeOK, ExtTypeOK
    <2>4. ~hclosed'[cache'[e]]  BY <2>1, <2>2, <2>3 DEF CacheInv
    <2>5. \A f \in Exts : ExtUsed(f)' /\ cache'[f] = cache'[e] => f = e
      BY <1>1, <2>3 DEF CacheInv, ComesEmpty
    <2>6. \A q \in Requests : ClosesItsHandler(q)' => rhand'[q] # cache'[e]
      BY <1>2, <2>3 DEF CacheInv
    <2> QED  BY <2>4, <2>5, <2>6
  <1> QED  BY <1>3, <1>4

\* A new handler is in no cache and served by no request.
LEMMA MakeHandlerStep ==
    ASSUME TypeInv, CacheInv, NEW r \in Requests, MakeHandler(r)
    PROVE  CacheInv'
  <1>1. PICK h \in Handlers \ UsedHandlers :
          /\ rhand' = [rhand EXCEPT ![r] = h]
          /\ hclosed' = [hclosed EXCEPT ![h] = FALSE]
          /\ cache' = IF rconf[r].cache THEN [cache EXCEPT ![rext[r]] = h] ELSE cache
    BY DEF MakeHandler
  <1>2. /\ rext[r] \in Exts /\ ExtUsed(rext[r])
        /\ rpc' = [rpc EXCEPT ![r] = "serve"]
        /\ UNCHANGED <<siteVars, updVars, rsite, rext, rconf>>
    BY DEF MakeHandler, GoTo, ExtUsed, TypeInv, TypeOK, RequestTypeOK, RequestHas
  <1>3. \A e \in Exts : ExtUsed(e)' <=> ExtUsed(e)
    BY <1>2 DEF ExtUsed, SiteUsed, siteVars, updVars
  <1>4. /\ \A e \in Exts : ExtUsed(e) => cache[e] # h
        /\ \A q \in Requests : rhand[q] # h
    BY Used
  <1>5. /\ ~hclosed'[h]
        /\ \A x \in Handlers : x # h => hclosed'[x] = hclosed[x]
        /\ rhand'[r] = h
        /\ \A q \in Requests : q # r => rhand'[q] = rhand[q]
    BY <1>1 DEF TypeInv, TypeOK, ExtTypeOK, RequestTypeOK
  <1>6. /\ \A q \in Requests : q # r => (ClosesItsHandler(q)' <=> ClosesItsHandler(q))
        /\ ClosesItsHandler(r)' <=> ~rconf[r].cache
    BY <1>2 DEF ClosesItsHandler, TypeInv, TypeOK, RequestTypeOK
  <1>7. \A e \in Exts : cache'[e] = IF rconf[r].cache /\ e = rext[r] THEN h ELSE cache[e]
    BY <1>1, <1>2 DEF TypeInv, TypeOK, ExtTypeOK
  <1> SUFFICES ASSUME NEW e \in Exts, ExtUsed(e)', cache'[e] # NoHandler
               PROVE  /\ ~hclosed'[cache'[e]]
                      /\ \A f \in Exts : ExtUsed(f)' /\ cache'[f] = cache'[e] => f = e
                      /\ \A q \in Requests : ClosesItsHandler(q)' => rhand'[q] # cache'[e]
    BY DEF CacheInv
  <1>8. CASE rconf[r].cache /\ e = rext[r]
    <2>1. cache'[e] = h  BY <1>7, <1>8
    <2>2. \A f \in Exts : ExtUsed(f)' /\ cache'[f] = h => f = e  BY <1>3, <1>4, <1>7,
        <1>8
    <2>3. \A q \in Requests : ClosesItsHandler(q)' => rhand'[q] # h
      BY <1>4, <1>5, <1>6, <1>8
    <2> QED  BY <2>1, <2>2, <2>3, <1>5
  <1>9. CASE ~(rconf[r].cache /\ e = rext[r])
    <2>1. ExtUsed(e) /\ cache'[e] = cache[e] /\ cache[e] # h /\ cache[e] \in Handlers
      BY <1>3, <1>4, <1>7, <1>9 DEF TypeInv, TypeOK, ExtTypeOK
    <2>2. ~hclosed'[cache'[e]]  BY <2>1, <1>5 DEF CacheInv
    <2>3. \A f \in Exts : ExtUsed(f)' /\ cache'[f] = cache'[e] => f = e
      BY <2>1, <1>3, <1>7 DEF CacheInv
    <2>4. \A q \in Requests : ClosesItsHandler(q)' => rhand'[q] # cache'[e]
      BY <2>1, <1>5, <1>6 DEF CacheInv
    <2> QED  BY <2>2, <2>3, <2>4
  <1> QED  BY <1>8, <1>9

LEMMA CacheStep == TypeInv /\ CacheInv /\ [Next]_vars => CacheInv'
  <1> SUFFICES ASSUME TypeInv, CacheInv, [Next]_vars PROVE CacheInv'  OBVIOUS
  <1>0. ComesEmpty  BY UseStep
  <1>1. CASE UNCHANGED <<cache, hclosed, rpc, rconf, rhand>>
    BY <1>0, <1>1, ShrinkKeepsCacheInv DEF CachesShrink, ClosesItsHandler
  <1>2. ASSUME UNCHANGED <<hclosed, reqVars>>, NEW e \in Exts,
               cache' = [cache EXCEPT ![e] = NoHandler]
        PROVE  CacheInv'
    <2>1. \A f \in Exts : cache'[f] \in {cache[f], NoHandler}
      BY <1>2 DEF TypeInv, TypeOK, ExtTypeOK
    <2> QED  BY <1>0, <1>2, <2>1, ShrinkKeepsCacheInv
        DEF CachesShrink, ClosesItsHandler, reqVars
  <1>3. CASE \/ UpdateConfig \/ Close \/ NoIdentity \/ AddSite \/ SkipSite \/ AddHost
             \/ SetRootDir \/ setConfig \/ InfoSite \/ BeginDel \/ DelHost \/ BeginDelSites
             \/ DelSite \/ InstantDeadAll \/ ResetData \/ EndUpdate \/ NewSitePool \/ Tick
             \/ GetExt("getExt", "setExt", "setConf") \/ GetExt("infoGet", "infoSet", "plugins")
             \/ GetExt("delGet", "delSet", "delExt") \/ UNCHANGED vars
    BY <1>3, <1>1 DEF UpdateConfig, Close, NoIdentity, AddSite, SkipSite, AddHost,
         SetRootDir, setConfig, InfoSite, BeginDel, DelHost, BeginDelSites, DelSite,
         InstantDeadAll, ResetData, EndUpdate, NewSitePool, Tick, GetExt, vars, extVars,
         reqVars
  <1>4. CASE \/ SetExt("setExt", "setConf") \/ SetExt("infoSet", "plugins")
             \/ SetExt("delSet", "delExt")
    <2>1. PICK e \in Exts : SetExtend(cur, e)  BY <1>4 DEF SetExt
    <2>2. UNCHANGED <<hclosed, reqVars>>  BY <1>4 DEF SetExt
    <2> QED  BY <1>2, <2>1, <2>2 DEF SetExtend
  <1>5. CASE SetPlugins \/ DelExt
    <2>1. se \in Exts  BY <1>5
        DEF SetPlugins, DelExt, TypeInv, TypeOK, UpdaterTypeOK, UpdaterHas
    <2>2. UNCHANGED <<hclosed, reqVars>>  BY <1>5 DEF SetPlugins, DelExt
    <2>3. cache' = cache \/ cache' = [cache EXCEPT ![se] = NoHandler]
      BY <1>5 DEF SetPlugins, DelExt
    <2> QED  BY <1>1, <1>2, <2>1, <2>2, <2>3 DEF reqVars
  <1>6. CASE Expire  BY <1>6, ExpireStep
  <1>7. ASSUME NEW r \in Requests, Request(r) PROVE CacheInv'
    <2>1. ASSUME \A e \in Exts : cache'[e] \in {cache[e], NoHandler}, UNCHANGED hclosed,
                 \A q \in Requests : /\ ClosesItsHandler(q)' => ClosesItsHandler(q)
                                     /\ ClosesItsHandler(q)' => rhand'[q] = rhand[q]
          PROVE  CacheInv'
      BY <1>0, <2>1, ShrinkKeepsCacheInv DEF CachesShrink
    <2>2. ASSUME NEW to, to # "serve", GoTo(r, to), UNCHANGED <<hclosed, rhand>>,
                 \A q \in Requests \ {r} : rconf'[q] = rconf[q],
                 \A e \in Exts : cache'[e] \in {cache[e], NoHandler}
          PROVE  CacheInv'
      BY <2>1, <2>2 DEF GoTo, ClosesItsHandler, TypeInv, TypeOK, RequestTypeOK
    <2>3. CASE Answered(r) /\ UNCHANGED <<cache, hclosed>>
      BY <2>1, <2>3 DEF Answered, ClosesItsHandler, TypeInv, TypeOK, RequestTypeOK
    <2>4. CASE Arrive(r) \/ RequestGetExt(r)
      BY <2>4, <2>2 DEF Arrive, RequestGetExt, extVars
    <2>5. CASE GetSite(r) \/ ReadConfig(r) \/ ReadRootDir(r)
      <3>1. UNCHANGED <<cache, hclosed>>  BY <2>5
          DEF GetSite, ReadConfig, ReadRootDir, extVars
      <3>2. CASE Answered(r)  BY <3>1, <3>2, <2>3
      <3>3. CASE ~Answered(r)
        <4>1. /\ GoTo(r, "getExt") \/ GoTo(r, "root") \/ GoTo(r, "lookup") \/ UNCHANGED <<rpc, rconf>>
              /\ UNCHANGED rhand
              /\ \A q \in Requests \ {r} : rconf'[q] = rconf[q]
          BY <2>5, <3>3
             DEF GetSite, ReadConfig, ReadRootDir, TypeInv, TypeOK, RequestTypeOK
        <4> QED  BY <3>1, <4>1, <2>2, <1>1
      <3> QED  BY <3>2, <3>3
    <2>6. CASE RequestSetExt(r)
      <3>1. PICK e \in Exts : SetExtend(rsite[r], e)  BY <2>6 DEF RequestSetExt
      <3>2. \A f \in Exts : cache'[f] \in {cache[f], NoHandler}
        BY <3>1 DEF SetExtend, TypeInv, TypeOK, ExtTypeOK
      <3> QED  BY <2>6, <3>2, <2>2 DEF RequestSetExt
    <2>7. CASE Lookup(r)
      <3>1. CASE GoTo(r, "make") \/ GoTo(r, "drop")
        <4>1. UNCHANGED <<rhand, cache, hclosed, rconf>>
          BY <2>7, <3>1 DEF Lookup, extVars, GoTo, TypeInv, TypeOK, RequestTypeOK
        <4> QED  BY <3>1, <4>1, <2>2
      <3>2. CASE GoTo(r, "serve") /\ rconf[r].cache
        <4>1. /\ UNCHANGED <<cache, hclosed, rconf>>
              /\ \A q \in Requests \ {r} : rhand'[q] = rhand[q]
          BY <2>7 DEF Lookup, extVars, TypeInv, TypeOK, RequestTypeOK
        <4>2. \A q \in Requests : ClosesItsHandler(q)' => q # r /\ ClosesItsHandler(q)
          BY <3>2, <4>1 DEF GoTo, ClosesItsHandler, TypeInv, TypeOK, RequestTypeOK
        <4> QED  BY <2>1, <4>1, <4>2
      <3> QED  BY <2>7, <3>1, <3>2 DEF Lookup
    <2>8. CASE Drop(r)
      <3>1. \A f \in Exts : cache'[f] \in {cache[f], NoHandler}
        BY <2>8 DEF Drop, TypeInv, TypeOK, ExtTypeOK
      <3> QED  BY <2>8, <3>1, <2>2 DEF Drop
    <2>9. CASE MakeHandler(r)  BY <2>9, MakeHandlerStep
    <2>10. CASE UseSession(r)  BY <2>10, <1>1 DEF UseSession, extVars, reqVars
    <2>11. CASE Served(r)  BY <2>11, <1>0, ServedStep
    <2> QED  BY <1>7, <2>4, <2>5, <2>6, <2>7, <2>8, <2>9, <2>10, <2>11 DEF Request
  <1> QED  BY <1>3, <1>4, <1>5, <1>6, <1>7 DEF Next, Updater

\* What a cache hands out has not been closed, whoever expires, replaces or serves.
THEOREM CachedIsOpen == Spec => []CachedHandlerIsOpen
  <1>1. TypeInv /\ CacheInv => CachedHandlerIsOpen  BY CacheMeans
  <1> QED  BY <1>1, CacheInit, CacheStep, TypeInvariant, PTL DEF Spec

-----------------------------------------------------------------------------
(* What an update leaves behind.  Between its steps a site that is being   *)
(* taken away is only the updater's; what the entries handled so far asked *)
(* for has been done, unless a later one of them asked for something else. *)

Handling == {"site", "hosts", "getExt", "setExt", "setConf", "info", "infoGet", "infoSet",
           "plugins"}
WithSite == Handling \ {"site", "info"}
AfterHosts == Handling \ {"site", "hosts"}
AfterConf == {"info", "infoGet", "infoSet", "plugins"}
Emptying == {"delGet", "delSet", "delExt", "delSess", "delData"}

\* s has a name in the pool.
Pooled(s) == s # NoSite /\ \E i \in Idents : pool[i] = s

\* A site has one name, and an extension one site.
OneEach ==
    /\ \A i, j \in Idents : pool[i] = pool[j] /\ pool[i] # NoSite => i = j
    /\ \A s, t \in SiteObjs :
         Pooled(s) /\ Pooled(t) /\ ext[s] = ext[t] /\ ext[s] # NoExt => s = t

\* A request holds a site of the pool, or one that was removed under it.
HeldInv == \A r \in Requests : rsite[r] # NoSite => Pooled(rsite[r]) \/ rsite[r] \in late

\* What has been handled of entry j, or of host h of it.
Named(j, h) ==
    /\ cfg[j].on /\ h \in cfg[j].hosts
    /\ upc \in Handling =>
         j < k \/ (j = k /\ (upc \in AfterHosts \/ (upc = "hosts" /\ h \notin todo)))
Rooted(j) == cfg[j].on /\ (upc \in Handling => j < k \/ (j = k /\ upc \in AfterHosts))
Configured(j) == cfg[j].on /\ (upc \in Handling => j < k \/ (j = k /\ upc \in AfterConf))

\* The updater's site, and the entries it has passed.
StageInv ==
    /\ upc \in WithSite => cur = pool[cfg[k].id]
    /\ upc \in {"hosts", "getExt", "setExt", "setConf"} => cfg[k].on
    /\ upc \in Emptying => \A i \in Idents : pool[i] # cur
    /\ upc \in Handling => \A j \in DOMAIN cfg : j < k => cfg[j].id # NoIdent
    /\ upc \notin Handling \cup {"idle"} => Complete

\* The updater's extension is that of its site, unless a request replaced it; one is
\* made only for a site no entry has configured yet.
SeInv ==
    /\ upc = "setConf" =>
         /\ ext[cur] # NoExt
         /\ ext[cur] = se \/ cur \in outdone
         /\ \A s \in SiteObjs : Pooled(s) /\ ext[s] = se => s = cur
    /\ upc = "plugins" => ext[cur] = se \/ se \in lost
    /\ upc \in {"setExt", "infoSet"} =>
         \A j \in DOMAIN cfg : Configured(j) => cfg[j].id # cfg[k].id

\* A site that left the pool is emptied before the updater goes on, unless a request
\* held it.
EmptyInv ==
    \A s \in SiteObjs : ~Pooled(s) /\ s \notin late =>
        /\ sess[s] => upc \in Emptying \ {"delData"} /\ s = cur
        /\ ext[s] # NoExt => upc \in Emptying /\ s = cur

\* An open plugin client is within reach of the pool, or of the updater that closes it.
PluginInv ==
    /\ \A e \in Exts : plugin[e] /\ e \notin lost =>
         \/ \E s \in SiteObjs : Pooled(s) /\ ext[s] = e
         \/ upc \in {"delGet", "delSet", "delExt"} /\ ext[cur] = e
    /\ upc = "delExt" => \A e \in Exts : ext[cur] = e /\ plugin[e] => e = se

\* Of what was handled, the last entry for a host, a root directory, an extension or a
\* configuration is in force.
HostsApplied ==
    \A h \in Hosts, i \in DOMAIN cfg :
        Named(i, h) /\ (\A m \in DOMAIN cfg : m > i => ~Named(m, h)) =>
            man[h] # NoSite /\ pool[cfg[i].id] = man[h]

RootsApplied ==
    \A j \in DOMAIN cfg :
        Rooted(j) /\ (\A m \in DOMAIN cfg : m > j /\ Rooted(m) => cfg[m].id # cfg[j].id) =>
            pool[cfg[j].id] # NoSite /\ root[pool[cfg[j].id]] = cfg[j].dir

ExtsApplied ==
    \A j \in DOMAIN cfg : Configured(j) =>
        pool[cfg[j].id] # NoSite /\ ext[pool[cfg[j].id]] # NoExt

ConfsApplied ==
    \A j \in DOMAIN cfg :
        /\ Configured(j)
        /\ \A m \in DOMAIN cfg : m > j /\ Configured(m) => cfg[m].id # cfg[j].id
        => pool[cfg[j].id] \in outdone \/ conf[ext[pool[cfg[j].id]]] = cfg[j]

Applied == HostsApplied /\ RootsApplied /\ ExtsApplied /\ ConfsApplied

UpdateInv ==
    /\ OneEach /\ HeldInv /\ StageInv /\ SeInv /\ EmptyInv /\ PluginInv
    /\ upc # "idle" \/ Complete => Applied

-----------------------------------------------------------------------------
(* What NewSite and a new extension do.                                    *)

\* A name gets a site: the one it has, or a fresh one without an extension.
LEMMA NewSiteEffect ==
    ASSUME TypeInv, NEW name \in Idents, NEW s \in SiteObjs, NewSite(name, s)
    PROVE  /\ pool'[name] = s /\ s # NoSite
           /\ \A i \in Idents : i # name => pool'[i] = pool[i]
           /\ \A i \in Idents : pool[i] # NoSite => pool'[i] = pool[i]
           /\ \A t : Pooled(t)' <=> Pooled(t) \/ t = s
           /\ \A t \in SiteObjs : t # s => /\ ext'[t] = ext[t] /\ root'[t] = root[t]
                                           /\ sess'[t] = sess[t]
                                           /\ t \in late' <=> t \in late
                                           /\ t \in outdone' <=> t \in outdone
           /\ \/ Pooled(s) /\ pool[name] = s /\ UNCHANGED <<pool, root, ext, sess, late, outdone>>
              \/ ~SiteUsed(s) /\ ~Pooled(s) /\ pool[name] = NoSite /\ ext'[s] = NoExt
  <1> USE DEF TypeInv, TypeOK
  <1>0. s # NoSite  BY NullAssumption
  <1>1. CASE pool[name] # NoSite
    <2>1. s = pool[name] /\ UNCHANGED <<pool, root, ext, sess, late, outdone>>
      BY <1>1 DEF NewSite
    <2>2. Pooled(s)  BY <1>0, <2>1 DEF Pooled
    <2>3. \A t : Pooled(t)' <=> Pooled(t)  BY <2>1 DEF Pooled
    <2> QED  BY <1>0, <2>1, <2>2, <2>3
  <1>2. CASE pool[name] = NoSite
    <2>1. /\ s \notin UsedSites
          /\ pool' = [pool EXCEPT ![name] = s]
          /\ root' = [root EXCEPT ![s] = AnyDir]
          /\ ext' = [ext EXCEPT ![s] = NoExt]
          /\ sess' = [sess EXCEPT ![s] = FALSE]
          /\ late' = late \ {s} /\ outdone' = outdone \ {s}
      BY <1>2 DEF NewSite
    <2>2. ~SiteUsed(s)
      <3>1. /\ Range(pool) = {pool[i] : i \in Idents} /\ Range(man) = {man[h] : h \in Hosts}
            /\ Range(rsite) = {rsite[r] : r \in Requests}
        BY DEF Range, SiteTypeOK, RequestTypeOK
      <3> QED  BY <2>1, <3>1 DEF UsedSites, SiteUsed
    <2>3. ~Pooled(s)  BY <2>2 DEF Pooled, SiteUsed
    <2>4. /\ pool'[name] = s /\ \A i \in Idents : i # name => pool'[i] = pool[i]
          /\ ext'[s] = NoExt
          /\ \A t \in SiteObjs : t # s => /\ ext'[t] = ext[t] /\ root'[t] = root[t]
                                          /\ sess'[t] = sess[t]
      BY <2>1 DEF SiteTypeOK
    <2>5. \A t : Pooled(t)' <=> Pooled(t) \/ t = s
      BY <1>0, <1>2, <2>4 DEF Pooled
    <2> QED  BY <1>0, <1>2, <2>1, <2>2, <2>3, <2>4, <2>5
  <1> QED  BY <1>1, <1>2

\* An extension that nothing refers to takes the place of the one there was.
LEMMA SetExtendEffect ==
    ASSUME TypeInv, NEW s \in SiteObjs, SiteUsed(s), NEW e \in Exts, SetExtend(s, e)
    PROVE  /\ ext'[s] = e /\ e # NoExt /\ e # ext[s] /\ se # e
           /\ \A t \in SiteObjs : t # s => ext'[t] = ext[t]
           /\ \A t \in SiteObjs : SiteUsed(t) => ext[t] # e
           /\ \A f \in Exts : f # e => conf'[f] = conf[f] /\ plugin'[f] = plugin[f]
           /\ ~plugin'[e]
           /\ \A f \in Exts : f \in lost' <=> (f \in lost /\ f # e) \/ f = ext[s]
  <1> USE DEF TypeInv, TypeOK
  <1>1. /\ e \notin UsedExts
        /\ ext' = [ext EXCEPT ![s] = e]
        /\ conf' = [conf EXCEPT ![e] = NoConf]
        /\ plugin' = [plugin EXCEPT ![e] = FALSE]
        /\ lost' = (lost \ {e}) \cup ({ext[s]} \ {NoExt})
    BY DEF SetExtend
  <1>2. ~ExtUsed(e)  BY <1>1, Used
  <1>3. \A t \in SiteObjs : SiteUsed(t) => ext[t] # e  BY <1>2 DEF ExtUsed
  <1>4. se # e /\ e # NoExt  BY <1>2, NullAssumption DEF ExtUsed
  <1>5. /\ ext'[s] = e /\ \A t \in SiteObjs : t # s => ext'[t] = ext[t]
        /\ \A f \in Exts : f # e => conf'[f] = conf[f] /\ plugin'[f] = plugin[f]
        /\ ~plugin'[e]
    BY <1>1 DEF SiteTypeOK, ExtTypeOK
  <1>6. \A f \in Exts : f \in lost' <=> (f \in lost /\ f # e) \/ f = ext[s]
    BY <1>1, <1>3, NullAssumption DEF ExtTypeOK
  <1> QED  BY <1>3, <1>4, <1>5, <1>6

\* Who gets a new extension: the updater's site, or one a request holds.
LEMMA WhoExtends ==
    ASSUME TypeInv
    PROVE  /\ \A at, next : SetExt(at, next) /\ cur # NoSite =>
                cur \in SiteObjs /\ SiteUsed(cur)
                /\ \E e \in Exts : SetExtend(cur, e) /\ se' = e
           /\ \A r \in Requests : RequestSetExt(r) =>
                rsite[r] \in SiteObjs /\ SiteUsed(rsite[r])
                /\ \E e \in Exts : SetExtend(rsite[r], e)
  BY DEF TypeInv, TypeOK, UpdaterTypeOK, RequestTypeOK, RequestHas, SetExt,
     RequestSetExt,
         SiteUsed

\* What the entries of a configuration are.
LEMMA Entries ==
    ASSUME TypeInv
    PROVE  /\ k \in Nat
           /\ \A i \in DOMAIN cfg : /\ i \in Nat /\ i >= 1
                                     /\ cfg[i].id \in Idents \cup {NoIdent}
                                     /\ cfg[i].hosts \subseteq Hosts
                                     /\ cfg[i].on \in BOOLEAN
           /\ \E n \in Nat : DOMAIN cfg = 1 .. n
  <1>1. cfg \in Configs \cup {<<>>} /\ k \in Nat  BY DEF TypeInv, TypeOK, UpdaterTypeOK
  <1>2. cfg \in Seq(Settings)  BY <1>1, ConfigIsSeq
  <1>3. Len(cfg) \in Nat /\ DOMAIN cfg = 1 .. Len(cfg)  BY <1>2
  <1> QED  BY <1>1, <1>3, ConfigIsSeq

\* The updater's entry has a name, and its site is in the pool.
LEMMA CurIsPooled ==
    ASSUME TypeInv, StageInv
    PROVE  /\ upc \in Handling \ {"site"} => k \in DOMAIN cfg /\ cfg[k].id \in Idents
           /\ upc \in WithSite => /\ cur = pool[cfg[k].id] /\ cur # NoSite /\ cur \in SiteObjs
                                  /\ Pooled(cur)
           /\ upc \in Emptying => cur # NoSite /\ cur \in SiteObjs /\ ~Pooled(cur)
  <1>1. upc \in Handling \ {"site"} => k \in DOMAIN cfg /\ cfg[k].id \in Idents
    BY Entries DEF TypeInv, UpdaterHas, Handling
  <1>2. (upc \in WithSite \/ upc \in Emptying) => cur # NoSite /\ cur \in SiteObjs
    BY DEF TypeInv, TypeOK, UpdaterTypeOK, UpdaterHas, Handling, WithSite, Emptying
  <1>3. upc \in WithSite => cur = pool[cfg[k].id] /\ upc \in Handling \ {"site"}
    BY DEF StageInv, WithSite
  <1>4. upc \in WithSite => Pooled(cur)  BY <1>1, <1>2, <1>3 DEF Pooled
  <1>5. upc \in Emptying => ~Pooled(cur)  BY DEF StageInv, Pooled
  <1> QED  BY <1>1, <1>2, <1>3, <1>4, <1>5

-----------------------------------------------------------------------------
(* What every step leaves behind: who changes what of sites and            *)
(* extensions.                                                             *)

MakesSite == AddSite \/ InfoSite
Extends ==
    \/ SetExt("setExt", "setConf") \/ SetExt("infoSet", "plugins")
    \/ SetExt("delSet", "delExt") \/ \E r \in Requests : RequestSetExt(r)

\* Which actions change which part of a site.
LEMMA WhoChanges ==
    ASSUME [Next]_vars
    PROVE  /\ pool' = pool \/ MakesSite \/ DelSite
           /\ man' = man \/ AddHost \/ DelHost
           /\ root' = root \/ MakesSite \/ SetRootDir
           /\ ext' = ext \/ MakesSite \/ Extends \/ ResetData
           /\ sess' = sess \/ MakesSite \/ InstantDeadAll \/ Tick
                           \/ \E r \in Requests : UseSession(r)
           /\ conf' = conf \/ setConfig \/ Extends
           /\ plugin' = plugin \/ SetPlugins \/ DelExt \/ Extends
           /\ late' = late \/ MakesSite \/ DelSite
           /\ outdone' = outdone \/ MakesSite \/ setConfig
                                 \/ \E r \in Requests : RequestSetExt(r)
           /\ lost' = lost \/ Extends
           /\ rsite' = rsite \/ \E r \in Requests : GetSite(r) \/ Answered(r)
           /\ UNCHANGED <<upc, cfg, k, todo, cur, se>> \/ Updater
  <1> DEFINE whole == <<pool, man, root, ext, sess, conf, plugin, late, outdone, lost, rsite>>
             updater == <<upc, cfg, k, todo, cur, se>>
  <1> USE DEF siteVars, extVars, updVars, updRest, reqVars, hist
  <1>1. UpdateConfig => UNCHANGED whole
    BY DEF UpdateConfig
  <1>2. Close => UNCHANGED whole
    BY DEF Close
  <1>3. NoIdentity => UNCHANGED whole
    BY DEF NoIdentity
  <1>4. AddSite => UNCHANGED <<man, conf, plugin, lost, rsite>>
    BY DEF AddSite
  <1>5. SkipSite => UNCHANGED whole
    BY DEF SkipSite
  <1>6. AddHost =>
          UNCHANGED <<pool, root, ext, sess, conf, plugin, late, outdone, lost, rsite>>
    BY DEF AddHost
  <1>7. SetRootDir =>
          UNCHANGED <<pool, man, ext, sess, conf, plugin, late, outdone, lost, rsite>>
    BY DEF SetRootDir
  <1>8. setConfig => UNCHANGED <<pool, man, root, ext, sess, plugin, late, lost, rsite>>
    BY DEF setConfig
  <1>9. InfoSite => UNCHANGED <<man, conf, plugin, lost, rsite>>
    BY DEF InfoSite
  <1>10. SetPlugins =>
           UNCHANGED <<pool, man, root, ext, sess, conf, late, outdone, lost, rsite>>
    BY DEF SetPlugins
  <1>11. BeginDel => UNCHANGED whole
    BY DEF BeginDel
  <1>12. DelHost =>
           UNCHANGED <<pool, root, ext, sess, conf, plugin, late, outdone, lost, rsite>>
    BY DEF DelHost
  <1>13. BeginDelSites => UNCHANGED whole
    BY DEF BeginDelSites
  <1>14. DelSite => UNCHANGED <<man, root, ext, sess, conf, plugin, outdone, lost, rsite>>
    BY DEF DelSite
  <1>15. DelExt =>
           UNCHANGED <<pool, man, root, ext, sess, conf, late, outdone, lost, rsite>>
    BY DEF DelExt
  <1>16. InstantDeadAll =>
           UNCHANGED <<pool, man, root, ext, conf, plugin, late, outdone, lost, rsite>>
    BY DEF InstantDeadAll
  <1>17. ResetData =>
           UNCHANGED <<pool, man, root, sess, conf, plugin, late, outdone, lost, rsite>>
    BY DEF ResetData
  <1>18. EndUpdate => UNCHANGED whole
    BY DEF EndUpdate
  <1>19. NewSitePool => UNCHANGED whole
    BY DEF NewSitePool
  <1>20. Tick =>
           /\ UNCHANGED <<pool, man, root, ext, conf, plugin, late, outdone, lost, rsite>>
           /\ UNCHANGED updater
    BY DEF Tick
  <1>21. \A at, make, next : GetExt(at, make, next) =>
           UNCHANGED whole
    BY DEF GetExt
  <1>22. \A at, next : SetExt(at, next) =>
           UNCHANGED <<pool, man, root, sess, late, outdone, rsite>>
    BY DEF SetExt
  <1>23. Expire => UNCHANGED whole /\ UNCHANGED updater
    BY DEF Expire
  <1>24. ASSUME NEW r \in Requests, Request(r)
         PROVE  /\ UNCHANGED <<pool, man, root, late, upc, cfg, k, todo, cur, se>>
                /\ UNCHANGED <<ext, conf, plugin, outdone, lost>> \/ RequestSetExt(r)
                /\ sess' = sess \/ UseSession(r)
                /\ rsite' = rsite \/ GetSite(r) \/ Answered(r)
    <2>1. Arrive(r) => UNCHANGED whole /\ UNCHANGED updater
      BY DEF Arrive
    <2>2. GetSite(r) =>
            /\ UNCHANGED <<pool, man, root, ext, sess, conf, plugin, late, outdone, lost>>
            /\ UNCHANGED updater
      BY DEF GetSite
    <2>3. RequestGetExt(r) => UNCHANGED whole /\ UNCHANGED updater
      BY DEF RequestGetExt
    <2>4. RequestSetExt(r) =>
            UNCHANGED <<pool, man, root, sess, late, rsite>> /\ UNCHANGED updater
      BY DEF RequestSetExt, SetExtend
    <2>5. ReadConfig(r) =>
            /\ UNCHANGED <<pool, man, root, ext, sess, conf, plugin, late, outdone, lost>>
            /\ UNCHANGED updater
            /\ (rsite' = rsite \/ Answered(r))
      BY DEF ReadConfig
    <2>6. ReadRootDir(r) =>
            /\ UNCHANGED <<pool, man, root, ext, sess, conf, plugin, late, outdone, lost>>
            /\ UNCHANGED updater
            /\ (rsite' = rsite \/ Answered(r))
      BY DEF ReadRootDir
    <2>7. Lookup(r) => UNCHANGED whole /\ UNCHANGED updater
      BY DEF Lookup
    <2>8. Drop(r) => UNCHANGED whole /\ UNCHANGED updater
      BY DEF Drop
    <2>9. MakeHandler(r) => UNCHANGED whole /\ UNCHANGED updater
      BY DEF MakeHandler
    <2>10. UseSession(r) =>
             /\ UNCHANGED <<pool, man, root, ext, conf, plugin, late, outdone, lost, rsite>>
             /\ UNCHANGED updater
      BY DEF UseSession
    <2>11. Served(r) =>
             /\ UNCHANGED <<pool, man, root, ext, sess, conf, plugin, late, outdone, lost>>
             /\ UNCHANGED updater
             /\ (rsite' = rsite \/ Answered(r))
      BY DEF Served
    <2> HIDE DEF siteVars, extVars, updVars, updRest, reqVars, hist
    <2> QED
      BY <1>24, <2>1, <2>2, <2>3, <2>4, <2>5, <2>6, <2>7, <2>8, <2>9, <2>10, <2>11
      DEF Request
  <1>25. UNCHANGED vars => UNCHANGED whole /\ UNCHANGED updater
    BY DEF vars
  <1> HIDE DEF siteVars, extVars, updVars, updRest, reqVars, hist
  <1> QED
    BY <1>1, <1>2, <1>3, <1>4, <1>5, <1>6, <1>7, <1>8, <1>9, <1>10, <1>11, <1>12, <1>13,
       <1>14, <1>15, <1>16, <1>17, <1>18, <1>19, <1>20, <1>21, <1>22, <1>23, <1>24,
       <1>25
    DEF Next, Updater, MakesSite, Extends

\* What the two actions that make a site do.
LEMMA MakesSiteEffect ==
    ASSUME TypeInv, MakesSite
    PROVE  /\ cfg[k].id \in Idents /\ k \in DOMAIN cfg /\ upc \in {"site", "info"}
           /\ UNCHANGED <<man, conf, plugin, lost, rsite, cfg, k>>
           /\ \E s \in SiteObjs : NewSite(cfg[k].id, s) /\ cur' = s
  <1>1. k \in DOMAIN cfg /\ cfg[k].id # NoIdent
    BY DEF MakesSite, AddSite, InfoSite, TypeInv, UpdaterHas
  <1>2. cfg[k].id \in Idents  BY <1>1, Entries
  <1> QED  BY <1>1, <1>2 DEF MakesSite, AddSite, InfoSite, extVars, updRest, reqVars

\* What the three that make an extension do.
LEMMA ExtendsEffect ==
    ASSUME TypeInv, Extends
    PROVE  /\ UNCHANGED <<pool, man, root, sess, late, rsite, cfg, k, cur, todo>>
           /\ \E s \in SiteObjs, e \in Exts :
                /\ SiteUsed(s) /\ SetExtend(s, e)
                /\ \/ /\ s = cur /\ se' = e /\ outdone' = outdone
                      /\ \/ upc = "setExt" /\ upc' = "setConf"
                         \/ upc = "infoSet" /\ upc' = "plugins"
                         \/ upc = "delSet" /\ upc' = "delExt"
                   \/ /\ \E r \in Requests : s = rsite[r]
                      /\ UNCHANGED <<upc, se>>
                      /\ outdone' = IF ext[s] = NoExt THEN outdone ELSE outdone \cup {s}
  <1>1. ASSUME NEW r \in Requests, RequestSetExt(r)
        PROVE  /\ UNCHANGED <<pool, man, root, sess, late, rsite, upc, cfg, k, cur, todo, se>>
               /\ rsite[r] \in SiteObjs /\ SiteUsed(rsite[r])
               /\ \E e \in Exts : SetExtend(rsite[r], e)
               /\ outdone' = IF ext[rsite[r]] = NoExt THEN outdone
                             ELSE outdone \cup {rsite[r]}
    <2>1. UNCHANGED <<pool, man, root, sess, late, rsite, upc, cfg, k, cur, todo, se>>
      BY <1>1 DEF RequestSetExt, updVars
    <2>2. outdone' = IF ext[rsite[r]] = NoExt THEN outdone ELSE outdone \cup {rsite[r]}
      BY <1>1 DEF RequestSetExt
    <2> QED  BY <1>1, <2>1, <2>2, WhoExtends
  <1>2. ASSUME NEW at, NEW next, SetExt(at, next), at \in {"setExt", "infoSet", "delSet"}
        PROVE  /\ UNCHANGED <<pool, man, root, sess, late, rsite, cfg, k, cur, todo, outdone>>
               /\ upc = at /\ upc' = next
               /\ cur \in SiteObjs /\ SiteUsed(cur)
               /\ \E e \in Exts : SetExtend(cur, e) /\ se' = e
    <2>1. /\ UNCHANGED <<pool, man, root, sess, late, rsite, cfg, k, cur, todo, outdone>>
          /\ upc = at /\ upc' = next
      BY <1>2 DEF SetExt, updRest, reqVars
    <2>2. cur # NoSite  BY <1>2, <2>1 DEF TypeInv, UpdaterHas
    <2> QED  BY <1>2, <2>1, <2>2, WhoExtends
  <1>3. CASE \E r \in Requests : RequestSetExt(r)  BY <1>1, <1>3
  <1>4. CASE SetExt("setExt", "setConf")  BY <1>2, <1>4
  <1>5. CASE SetExt("infoSet", "plugins")  BY <1>2, <1>5
  <1>6. CASE SetExt("delSet", "delExt")  BY <1>2, <1>6
  <1> QED  BY <1>3, <1>4, <1>5, <1>6 DEF Extends

\* What is removed is a site that the configuration does not name.
LEMMA DelSiteEffect ==
    ASSUME TypeInv, DelSite
    PROVE  /\ UNCHANGED <<man, root, ext, sess, conf, plugin, outdone, lost, rsite, cfg, k, se>>
           /\ upc = "delSites" /\ upc' = "delGet"
           /\ \E i \in Idents :
                /\ i \notin EffectiveIdents /\ pool[i] # NoSite /\ cur' = pool[i]
                /\ cur' \in SiteObjs /\ pool'[i] = NoSite
                /\ \A j \in Idents : j # i => pool'[j] = pool[j]
                /\ \A r \in Requests : rsite[r] = cur' => cur' \in late'
                /\ late \subseteq late' /\ late' \subseteq late \cup {cur'}
  <1> USE DEF TypeInv, TypeOK, SiteTypeOK
  <1>1. /\ UNCHANGED <<man, root, ext, sess, conf, plugin, outdone, lost, rsite, cfg, k, se>>
        /\ upc = "delSites" /\ upc' = "delGet"
    BY DEF DelSite, extVars, updRest, reqVars
  <1>2. PICK i \in Idents \ EffectiveIdents :
           /\ pool[i] # NoSite /\ cur' = pool[i]
           /\ pool' = [pool EXCEPT ![i] = NoSite]
           /\ late' = IF pool[i] \in Range(rsite) THEN late \cup {pool[i]} ELSE late
    BY DEF DelSite
  <1>3. \A r \in Requests : rsite[r] \in Range(rsite)  BY DEF Range, RequestTypeOK
  <1>4. cur' \in SiteObjs /\ pool'[i] = NoSite
        /\ \A j \in Idents : j # i => pool'[j] = pool[j]
    BY <1>2
  <1>5. /\ \A r \in Requests : rsite[r] = cur' => cur' \in late'
        /\ late \subseteq late' /\ late' \subseteq late \cup {cur'}
    BY <1>2, <1>3
  <1> QED  BY <1>1, <1>2, <1>4, <1>5

\* Each part of the invariant, kept by every step: names and extensions,
LEMMA OneEachStep ==
    ASSUME TypeInv, OneEach, [Next]_vars
    PROVE  OneEach'
  <1> USE DEF TypeInv, TypeOK
  <1>1. CASE MakesSite
    <2>1. PICK s \in SiteObjs : NewSite(cfg[k].id, s)  BY <1>1, MakesSiteEffect
    <2>2. cfg[k].id \in Idents  BY <1>1, MakesSiteEffect
    <2>3. /\ pool'[cfg[k].id] = s /\ s # NoSite
          /\ \A i \in Idents : i # cfg[k].id => pool'[i] = pool[i]
          /\ \A t : Pooled(t)' <=> Pooled(t) \/ t = s
          /\ \A t \in SiteObjs : t # s => ext'[t] = ext[t]
          /\ \/ Pooled(s) /\ pool[cfg[k].id] = s /\ UNCHANGED <<pool, ext>>
             \/ ~Pooled(s) /\ ext'[s] = NoExt
      BY <2>1, <2>2, NewSiteEffect
    <2>4. CASE UNCHANGED <<pool, ext>>  BY <2>4 DEF OneEach, Pooled
    <2>5. CASE ~Pooled(s) /\ ext'[s] = NoExt
      <3>1. ASSUME NEW i \in Idents, NEW j \in Idents, pool'[i] = pool'[j],
                   pool'[i] # NoSite
            PROVE  i = j
        BY <2>2, <2>3, <2>5, <3>1 DEF OneEach, Pooled
      <3>2. ASSUME NEW t \in SiteObjs, NEW u \in SiteObjs, Pooled(t)', Pooled(u)',
                   ext'[t] = ext'[u], ext'[t] # NoExt
            PROVE  t = u
        BY <2>3, <2>5, <3>2 DEF OneEach
      <3> QED  BY <3>1, <3>2 DEF OneEach
    <2> QED  BY <2>3, <2>4, <2>5
  <1>2. CASE Extends
    <2>1. PICK s \in SiteObjs, e \in Exts : SiteUsed(s) /\ SetExtend(s, e)
      BY <1>2, ExtendsEffect
    <2>2. /\ ext'[s] = e
          /\ \A t \in SiteObjs : t # s => ext'[t] = ext[t]
          /\ \A t \in SiteObjs : SiteUsed(t) => ext[t] # e
      BY <2>1, SetExtendEffect
    <2>3. UNCHANGED pool  BY <1>2, ExtendsEffect
    <2>4. \A t : Pooled(t)' <=> Pooled(t)  BY <2>3 DEF Pooled
    <2>5. \A t : Pooled(t) => SiteUsed(t)  BY DEF Pooled, SiteUsed
    <2>6. ASSUME NEW t \in SiteObjs, NEW u \in SiteObjs, Pooled(t), Pooled(u),
                 ext'[t] = ext'[u], ext'[t] # NoExt
          PROVE  t = u
      BY <2>2, <2>5, <2>6 DEF OneEach
    <2> QED  BY <2>3, <2>4, <2>6 DEF OneEach
  <1>3. CASE DelSite
    <2>1. PICK i \in Idents : pool'[i] = NoSite /\ \A j \in Idents : j # i => pool'[j] = pool[j]
      BY <1>3, DelSiteEffect
    <2>2. \A t : Pooled(t)' => Pooled(t)  BY <2>1 DEF Pooled
    <2>3. UNCHANGED ext  BY <1>3, DelSiteEffect
    <2>4. \A h, j \in Idents : pool'[h] = pool'[j] /\ pool'[h] # NoSite => h = j
      BY <2>1 DEF OneEach
    <2> QED  BY <2>2, <2>3, <2>4 DEF OneEach
  <1>4. CASE ResetData
    <2>1. UNCHANGED pool /\ ext' = [ext EXCEPT ![cur] = NoExt]  BY <1>4 DEF ResetData
    <2>2. \A t \in SiteObjs : ext'[t] \in {ext[t], NoExt}  BY <2>1 DEF SiteTypeOK
    <2>3. \A t : Pooled(t)' <=> Pooled(t)  BY <2>1 DEF Pooled
    <2>4. \A t \in SiteObjs : ext'[t] # NoExt => ext'[t] = ext[t]  BY <2>2
    <2> QED  BY <2>1, <2>3, <2>4 DEF OneEach
  <1>5. CASE UNCHANGED <<pool, ext>>  BY <1>5 DEF OneEach, Pooled
  <1> QED  BY <1>1, <1>2, <1>3, <1>4, <1>5, WhoChanges

\* what requests hold,
LEMMA HeldStep ==
    ASSUME TypeInv, HostInv, OneEach, HeldInv, [Next]_vars
    PROVE  HeldInv'
  <1> USE DEF TypeInv, TypeOK
  <1>0. \A r \in Requests : rsite[r] \in SiteObjs \cup {NoSite}  BY DEF RequestTypeOK
  <1>1. CASE MakesSite
    <2>1. PICK s \in SiteObjs : NewSite(cfg[k].id, s)  BY <1>1, MakesSiteEffect
    <2>2. cfg[k].id \in Idents /\ UNCHANGED rsite  BY <1>1, MakesSiteEffect
    <2>3. /\ \A t : Pooled(t)' <=> Pooled(t) \/ t = s
          /\ \A t \in SiteObjs : t # s => (t \in late' <=> t \in late)
      BY <2>1, <2>2, NewSiteEffect
    <2> QED  BY <1>0, <2>2, <2>3 DEF HeldInv
  <1>2. CASE DelSite
    <2>1. PICK i \in Idents :
             /\ cur' = pool[i]
             /\ \A j \in Idents : j # i => pool'[j] = pool[j]
             /\ \A r \in Requests : rsite[r] = cur' => cur' \in late'
             /\ late \subseteq late'
      BY <1>2, DelSiteEffect
    <2>2. UNCHANGED rsite  BY <1>2, DelSiteEffect
    <2>3. \A t : Pooled(t) => Pooled(t)' \/ t = cur'  BY <2>1 DEF Pooled
    <2> QED  BY <2>1, <2>2, <2>3 DEF HeldInv
  <1>3. CASE \E r \in Requests : GetSite(r)
    <2>1. PICK r \in Requests : GetSite(r)  BY <1>3
    <2>2. UNCHANGED <<pool, late>>  BY <2>1 DEF GetSite, siteVars, hist
    <2>3. \A t : Pooled(t)' <=> Pooled(t)  BY <2>2 DEF Pooled
    <2>4. Candidates[host[r]][try[r]] \in Hosts
      <3>1. host[r] \in Hosts /\ try[r] \in Nat /\ try[r] <= Len(Candidates[host[r]])
        BY DEF RequestTypeOK
      <3>2. try[r] >= 1  BY <2>1 DEF GetSite, RequestHas
      <3> QED  BY <3>1, <3>2, CandidatesAssumption
    <2>5. PICK s : s = man[Candidates[host[r]][try[r]]]  OBVIOUS
    <2>6. s # NoSite => Pooled(s)
      BY <2>4, <2>5 DEF HostInv, FoundSiteIsPooled, Pooled
    <2>7. \A q \in Requests : rsite'[q] \in {rsite[q], NoSite, s}
      BY <2>1, <2>5 DEF GetSite, Answered, RequestTypeOK
    <2> QED  BY <2>2, <2>3, <2>6, <2>7 DEF HeldInv
  <1>4. CASE \E r \in Requests : Answered(r) /\ UNCHANGED <<pool, late>>
    <2>1. \A q \in Requests : rsite'[q] \in {rsite[q], NoSite}
      BY <1>4 DEF Answered, RequestTypeOK
    <2>2. \A t : Pooled(t)' <=> Pooled(t)  BY <1>4 DEF Pooled
    <2> QED  BY <1>4, <2>1, <2>2 DEF HeldInv
  <1>5. CASE UNCHANGED <<pool, late, rsite>>
    <2>1. \A t : Pooled(t)' <=> Pooled(t)  BY <1>5 DEF Pooled
    <2> QED  BY <1>5, <2>1 DEF HeldInv
  <1> QED  BY <1>1, <1>2, <1>3, <1>4, <1>5, WhoChanges

\* The steps that move the updater.
LEMMA UpdaterMoves ==
    ASSUME [Next]_vars
    PROVE  \/ UNCHANGED <<upc, cfg, k, todo, cur, se>>
           \/ UpdateConfig \/ Close \/ NoIdentity \/ AddSite \/ SkipSite \/ AddHost
           \/ SetRootDir \/ setConfig \/ InfoSite \/ SetPlugins
           \/ GetExt("getExt", "setExt", "setConf") \/ SetExt("setExt", "setConf")
           \/ GetExt("infoGet", "infoSet", "plugins") \/ SetExt("infoSet", "plugins")
           \/ BeginDel \/ DelHost \/ BeginDelSites \/ DelSite
           \/ GetExt("delGet", "delSet", "delExt") \/ SetExt("delSet", "delExt")
           \/ DelExt \/ InstantDeadAll \/ ResetData \/ EndUpdate
  <1>1. NewSitePool => UNCHANGED <<upc, cfg, k, todo, cur, se>>  BY
      DEF NewSitePool, updVars
  <1> QED  BY <1>1, WhoChanges DEF Updater

\* where the updater stands,
LEMMA StageStep ==
    ASSUME TypeInv, OneEach, StageInv, [Next]_vars
    PROVE  StageInv'
  <1>0. /\ \A i \in DOMAIN cfg : i \in Nat /\ i >= 1
        /\ \E n \in Nat : DOMAIN cfg = 1 .. n
        /\ k \in Nat
    BY Entries
  <1>1. CASE UpdateConfig
    <2>1. cfg' \in Configs /\ upc' = "site" /\ k' = 1  BY <1>1 DEF UpdateConfig
    <2>2. \A j \in DOMAIN cfg' : j \in Nat /\ j >= 1  BY <2>1, ConfigIsSeq
    <2> QED  BY <2>1, <2>2 DEF StageInv, Handling, WithSite, Emptying
  <1>2. CASE Close
    <2>1. cfg' = <<>> /\ upc' = "delHosts"  BY <1>2 DEF Close
    <2> QED  BY <2>1 DEF StageInv, Handling, WithSite, Emptying, Complete
  <1>3. CASE NoIdentity
    BY <1>3 DEF NoIdentity, StageInv, Handling, WithSite, Emptying
  <1>4. CASE AddSite \/ InfoSite
    <2>1. MakesSite  BY <1>4 DEF MakesSite
    <2>2. PICK s \in SiteObjs : NewSite(cfg[k].id, s) /\ cur' = s  BY <2>1,
        MakesSiteEffect
    <2>3. cfg[k].id \in Idents /\ UNCHANGED <<cfg, k>> /\ upc \in {"site", "info"}
      BY <2>1, MakesSiteEffect
    <2>4. cur' = pool'[cfg[k].id]  BY <2>2, <2>3, NewSiteEffect
    <2>5. upc' \in {"hosts", "infoGet"} /\ (upc' = "hosts" => cfg[k].on)
      BY <1>4 DEF AddSite, InfoSite
    <2> QED  BY <2>3, <2>4, <2>5 DEF StageInv, Handling, WithSite, Emptying
  <1>5. CASE SetPlugins
    <2>1. /\ upc' = "site" /\ k' = k + 1 /\ UNCHANGED cfg
          /\ upc = "plugins" /\ cfg[k].id # NoIdent
      BY <1>5 DEF SetPlugins, updRest, TypeInv, UpdaterHas
    <2>2. \A j \in DOMAIN cfg : j < k + 1 => cfg[j].id # NoIdent
      BY <1>0, <2>1 DEF StageInv, Handling
    <2> QED  BY <2>1, <2>2 DEF StageInv, Handling, WithSite, Emptying
  <1>6. CASE BeginDel
    <2>1. /\ upc = "site" /\ upc' = "delHosts" /\ k \notin DOMAIN cfg /\ k >= 1
          /\ UNCHANGED cfg
      BY <1>6 DEF BeginDel, updRest, TypeInv, UpdaterHas
    <2>2. \A j \in DOMAIN cfg : j < k  BY <1>0, <2>1
    <2>3. Complete'  BY <2>1, <2>2 DEF StageInv, Handling, Complete
    <2> QED  BY <2>1, <2>3 DEF StageInv, Handling, WithSite, Emptying
  <1>7. CASE DelSite
    <2>1. PICK i \in Idents : /\ cur' = pool[i] /\ pool[i] # NoSite /\ pool'[i] = NoSite
                              /\ \A j \in Idents : j # i => pool'[j] = pool[j]
      BY <1>7, DelSiteEffect
    <2>2. upc = "delSites" /\ upc' = "delGet" /\ UNCHANGED cfg  BY <1>7, DelSiteEffect
    <2>3. \A j \in Idents : pool'[j] # cur'  BY <2>1 DEF OneEach
    <2> QED  BY <2>2, <2>3 DEF StageInv, Handling, WithSite, Emptying, Complete
  <1>8. ASSUME UNCHANGED <<cfg, k, cur, pool>>,
               \/ UNCHANGED upc
               \/ upc = "site" /\ upc' = "info"
               \/ upc \in WithSite /\ upc' \in Handling
                  /\ (upc' \in {"hosts", "getExt", "setExt", "setConf"} => cfg[k].on)
               \/ upc = "delHosts" /\ upc' = "delSites"
               \/ upc \in Emptying /\ upc' \in Emptying
        PROVE  StageInv'
    BY <1>8 DEF StageInv, Handling, WithSite, Emptying, Complete
  <1>9. ASSUME UNCHANGED <<upc, cfg, k, todo, cur, se>>, ~MakesSite, ~DelSite
        PROVE  StageInv'
    BY <1>8, <1>9, WhoChanges
  <1>10. CASE SkipSite  BY <1>8, <1>10 DEF SkipSite, siteVars, updRest
  <1>11. CASE AddHost  BY <1>8, <1>11 DEF AddHost, updRest
  <1>12. CASE SetRootDir
    BY <1>8, <1>12 DEF SetRootDir, updRest, StageInv, WithSite, Handling
  <1>13. CASE setConfig
    BY <1>8, <1>13 DEF setConfig, siteVars, updRest, WithSite, Handling
  <1>14. CASE GetExt("getExt", "setExt", "setConf")
    BY <1>8, <1>14 DEF GetExt, siteVars, updRest, StageInv, WithSite, Handling
  <1>15. CASE SetExt("setExt", "setConf")
    BY <1>8, <1>15 DEF SetExt, updRest, StageInv, WithSite, Handling
  <1>16. CASE GetExt("infoGet", "infoSet", "plugins")
    BY <1>8, <1>16 DEF GetExt, siteVars, updRest, WithSite, Handling
  <1>17. CASE SetExt("infoSet", "plugins")
    BY <1>8, <1>17 DEF SetExt, updRest, WithSite, Handling
  <1>18. CASE DelHost  BY <1>8, <1>18 DEF DelHost, updRest
  <1>19. CASE BeginDelSites  BY <1>8, <1>19 DEF BeginDelSites, siteVars, updRest
  <1>20. CASE GetExt("delGet", "delSet", "delExt")
    BY <1>8, <1>20 DEF GetExt, siteVars, updRest, Emptying
  <1>21. CASE SetExt("delSet", "delExt")
    BY <1>8, <1>21 DEF SetExt, updRest, Emptying
  <1>22. CASE DelExt  BY <1>8, <1>22 DEF DelExt, siteVars, updRest, Emptying
  <1>23. CASE InstantDeadAll  BY <1>8, <1>23 DEF InstantDeadAll, updRest, Emptying
  <1>24. CASE ResetData \/ EndUpdate
    BY <1>24 DEF ResetData, EndUpdate, updRest, StageInv, Handling, WithSite, Emptying,
                 Complete
  <1> QED
    BY <1>1, <1>2, <1>3, <1>4, <1>5, <1>6, <1>7, <1>9, <1>10, <1>11, <1>12, <1>13,
       <1>14,
       <1>15, <1>16, <1>17, <1>18, <1>19, <1>20, <1>21, <1>22, <1>23, <1>24,
       UpdaterMoves
    DEF MakesSite

\* The updater comes to empty a site by taking it from the pool, and then only goes
\* on emptying it.
LEMMA EmptyingMoves ==
    ASSUME [Next]_vars
    PROVE  \/ upc \notin Emptying /\ upc' \notin Emptying
           \/ DelSite
           \/ UNCHANGED <<upc, cur, se>>
           \/ Extends \/ DelExt \/ InstantDeadAll \/ ResetData
           \/ /\ upc = "delGet" /\ upc' \in {"delSet", "delExt"}
              /\ cur' = cur /\ se' = ext[cur] /\ UNCHANGED <<pool, ext, plugin, late, lost, sess>>
  <1>1. UpdateConfig => upc \notin Emptying /\ upc' \notin Emptying
    BY DEF UpdateConfig, Emptying
  <1>2. Close => upc \notin Emptying /\ upc' \notin Emptying
    BY DEF Close, Emptying
  <1>3. NoIdentity => upc \notin Emptying /\ upc' \notin Emptying
    BY DEF NoIdentity, Emptying
  <1>4. AddSite => upc \notin Emptying /\ upc' \notin Emptying
    BY DEF AddSite, Emptying
  <1>5. SkipSite => upc \notin Emptying /\ upc' \notin Emptying
    BY DEF SkipSite, Emptying
  <1>6. AddHost => upc \notin Emptying /\ upc' \notin Emptying
    BY DEF AddHost, Emptying
  <1>7. SetRootDir => upc \notin Emptying /\ upc' \notin Emptying
    BY DEF SetRootDir, Emptying
  <1>8. setConfig => upc \notin Emptying /\ upc' \notin Emptying
    BY DEF setConfig, Emptying
  <1>9. InfoSite => upc \notin Emptying /\ upc' \notin Emptying
    BY DEF InfoSite, Emptying
  <1>10. SetPlugins => upc \notin Emptying /\ upc' \notin Emptying
    BY DEF SetPlugins, Emptying
  <1>11. BeginDel => upc \notin Emptying /\ upc' \notin Emptying
    BY DEF BeginDel, Emptying
  <1>12. DelHost => upc \notin Emptying /\ upc' \notin Emptying
    BY DEF DelHost, Emptying
  <1>13. BeginDelSites => upc \notin Emptying /\ upc' \notin Emptying
    BY DEF BeginDelSites, Emptying
  <1>15. EndUpdate => upc \notin Emptying /\ upc' \notin Emptying
    BY DEF EndUpdate, Emptying
  <1>16. GetExt("getExt", "setExt", "setConf") => upc \notin Emptying /\ upc' \notin Emptying
    BY DEF GetExt, Emptying
  <1>17. GetExt("infoGet", "infoSet", "plugins") => upc \notin Emptying /\ upc' \notin Emptying
    BY DEF GetExt, Emptying
  <1>18. GetExt("delGet", "delSet", "delExt") =>
           /\ upc = "delGet" /\ upc' \in {"delSet", "delExt"}
           /\ cur' = cur /\ se' = ext[cur] /\ UNCHANGED <<pool, ext, plugin, late, lost, sess>>
    BY DEF GetExt, siteVars, extVars, hist
  <1> QED
    BY <1>1, <1>2, <1>3, <1>4, <1>5, <1>6, <1>7, <1>8, <1>9, <1>10, <1>11, <1>12, <1>13,
       <1>15, <1>16, <1>17, <1>18, UpdaterMoves
    DEF Extends

\* what a removed site still has,
LEMMA EmptyStep ==
    ASSUME TypeInv, OneEach, HeldInv, StageInv, EmptyInv, [Next]_vars
    PROVE  EmptyInv'
  <1> USE DEF TypeInv, TypeOK
  <1>1. CASE MakesSite
    <2>1. PICK s \in SiteObjs : NewSite(cfg[k].id, s)  BY <1>1, MakesSiteEffect
    <2>2. cfg[k].id \in Idents /\ upc \in {"site", "info"}  BY <1>1, MakesSiteEffect
    <2>3. /\ \A t : Pooled(t)' <=> Pooled(t) \/ t = s
          /\ \A t \in SiteObjs : t # s => /\ ext'[t] = ext[t] /\ sess'[t] = sess[t]
                                          /\ t \in late' <=> t \in late
      BY <2>1, <2>2, NewSiteEffect
    <2> QED  BY <2>2, <2>3 DEF EmptyInv, Emptying
  <1>2. CASE DelSite
    <2>1. PICK i \in Idents :
             /\ cur' = pool[i] /\ \A j \in Idents : j # i => pool'[j] = pool[j]
             /\ late \subseteq late' /\ late' \subseteq late \cup {cur'}
      BY <1>2, DelSiteEffect
    <2>2. UNCHANGED <<ext, sess>> /\ upc = "delSites" /\ upc' = "delGet"
      BY <1>2, DelSiteEffect
    <2>3. \A t : Pooled(t) => Pooled(t)' \/ t = cur'  BY <2>1 DEF Pooled
    <2> QED  BY <2>1, <2>2, <2>3 DEF EmptyInv, Emptying
  <1>3. CASE Extends
    <2>1. UNCHANGED <<pool, sess, late, cur>>  BY <1>3, ExtendsEffect
    <2>2. \A t : Pooled(t)' <=> Pooled(t)  BY <2>1 DEF Pooled
    <2>3. PICK s \in SiteObjs, e \in Exts :
             /\ SiteUsed(s) /\ SetExtend(s, e)
             /\ \/ /\ s = cur
                   /\ \/ upc = "setExt" /\ upc' = "setConf"
                      \/ upc = "infoSet" /\ upc' = "plugins"
                      \/ upc = "delSet" /\ upc' = "delExt"
                \/ (\E r \in Requests : s = rsite[r]) /\ UNCHANGED upc
      BY <1>3, ExtendsEffect
    <2>4. \A t \in SiteObjs : t # s => ext'[t] = ext[t]  BY <2>3, SetExtendEffect
    <2>5. s # NoSite  BY NullAssumption
    <2>6. upc \in {"setExt", "infoSet"} => Pooled(cur)
      BY CurIsPooled DEF WithSite, Handling
    <2>7. Pooled(s) \/ s \in late \/ (s = cur /\ upc' = "delExt")
      BY <2>3, <2>5, <2>6 DEF HeldInv
    <2>8. (upc \notin Emptying /\ upc' \notin Emptying) \/ UNCHANGED upc
            \/ (upc = "delSet" /\ upc' = "delExt")
      BY <2>3 DEF Emptying
    <2> QED  BY <2>1, <2>2, <2>4, <2>7, <2>8 DEF EmptyInv, Emptying
  <1>4. CASE InstantDeadAll
    <2>1. /\ upc = "delSess" /\ upc' = "delData" /\ UNCHANGED <<pool, ext, late, cur>>
          /\ sess' = [sess EXCEPT ![cur] = FALSE]
      BY <1>4 DEF InstantDeadAll, hist
    <2>2. \A t : Pooled(t)' <=> Pooled(t)  BY <2>1 DEF Pooled
    <2>3. \A t \in SiteObjs : sess'[t] => sess[t] /\ t # cur  BY <2>1 DEF SiteTypeOK
    <2> QED  BY <2>1, <2>2, <2>3 DEF EmptyInv, Emptying
  <1>5. CASE ResetData
    <2>1. /\ upc = "delData" /\ UNCHANGED <<pool, sess, late>>
          /\ ext' = [ext EXCEPT ![cur] = NoExt]
      BY <1>5 DEF ResetData, hist
    <2>2. \A t : Pooled(t)' <=> Pooled(t)  BY <2>1 DEF Pooled
    <2>3. \A t \in SiteObjs : ext'[t] # NoExt => ext'[t] = ext[t] /\ t # cur
      BY <2>1 DEF SiteTypeOK
    <2> QED  BY <2>1, <2>2, <2>3 DEF EmptyInv, Emptying
  <1>6. CASE \E r \in Requests : UseSession(r)
    <2>1. PICK r \in Requests : UseSession(r)  BY <1>6
    <2>2. /\ UNCHANGED <<pool, ext, late, upc, cur>> /\ rsite[r] # NoSite
          /\ sess' = [sess EXCEPT ![rsite[r]] = TRUE]
      BY <2>1 DEF UseSession, hist, updVars, RequestHas
    <2>3. \A t : Pooled(t)' <=> Pooled(t)  BY <2>2 DEF Pooled
    <2>4. \A t \in SiteObjs : sess'[t] => sess[t] \/ t = rsite[r]  BY <2>2
        DEF SiteTypeOK
    <2>5. Pooled(rsite[r]) \/ rsite[r] \in late  BY <2>2 DEF HeldInv
    <2> QED  BY <2>2, <2>3, <2>4, <2>5 DEF EmptyInv
  <1>7. ASSUME UNCHANGED <<pool, ext, late>>, \A t \in SiteObjs : sess'[t] => sess[t],
               \/ upc \notin Emptying
               \/ UNCHANGED <<upc, cur>>
               \/ upc' \in Emptying \ {"delData"} /\ cur' = cur
        PROVE  EmptyInv'
    <2>1. \A t : Pooled(t)' <=> Pooled(t)  BY <1>7 DEF Pooled
    <2> QED  BY <1>7, <2>1 DEF EmptyInv
  <1>8. Tick => \A t \in SiteObjs : sess'[t] => sess[t]  BY DEF Tick, SiteTypeOK
  <1>9. DelExt => upc' = "delSess" /\ cur' = cur  BY DEF DelExt
  <1>10. \/ upc \notin Emptying
         \/ UNCHANGED <<upc, cur>>
         \/ upc' \in Emptying \ {"delData"} /\ cur' = cur
         \/ Extends \/ InstantDeadAll \/ ResetData
    BY <1>9, EmptyingMoves DEF DelSite, Emptying
  <1> QED
    BY <1>1, <1>2, <1>3, <1>4, <1>5, <1>6, <1>7, <1>8, <1>10, WhoChanges

\* and the plugin clients.
LEMMA PluginStep ==
    ASSUME TypeInv, OneEach, StageInv, SeInv, PluginInv, [Next]_vars
    PROVE  PluginInv'
  <1> USE DEF TypeInv, TypeOK
  <1>1. CASE MakesSite
    <2>1. PICK s \in SiteObjs : NewSite(cfg[k].id, s)  BY <1>1, MakesSiteEffect
    <2>2. /\ cfg[k].id \in Idents /\ upc \in {"site", "info"}
          /\ UNCHANGED <<plugin, lost>>
      BY <1>1, MakesSiteEffect
    <2>3. /\ \A t : Pooled(t)' <=> Pooled(t) \/ t = s
          /\ \A t \in SiteObjs : Pooled(t) => ext'[t] = ext[t]
      <3>1. /\ \A t : Pooled(t)' <=> Pooled(t) \/ t = s
            /\ \A t \in SiteObjs : t # s => ext'[t] = ext[t]
            /\ UNCHANGED ext \/ ~Pooled(s)
        BY <2>1, <2>2, NewSiteEffect
      <3> QED  BY <3>1
    <2>4. upc' \in {"hosts", "infoGet"}  BY <1>1 DEF MakesSite, AddSite, InfoSite
    <2> QED  BY <2>2, <2>3, <2>4 DEF PluginInv
  <1>2. CASE DelSite
    <2>1. PICK i \in Idents :
             cur' = pool[i] /\ \A j \in Idents : j # i => pool'[j] = pool[j]
      BY <1>2, DelSiteEffect
    <2>2. UNCHANGED <<ext, plugin, lost>> /\ upc = "delSites" /\ upc' = "delGet"
      BY <1>2, DelSiteEffect
    <2>3. \A t : Pooled(t) => Pooled(t)' \/ t = cur'  BY <2>1 DEF Pooled
    <2> QED  BY <2>2, <2>3 DEF PluginInv
  <1>3. CASE Extends
    <2>1. UNCHANGED <<pool, cur>>  BY <1>3, ExtendsEffect
    <2>2. \A t : Pooled(t)' <=> Pooled(t)  BY <2>1 DEF Pooled
    <2>3. PICK s \in SiteObjs, e \in Exts :
             /\ SiteUsed(s) /\ SetExtend(s, e)
             /\ \/ /\ s = cur /\ se' = e
                   /\ \/ upc = "setExt" /\ upc' = "setConf"
                      \/ upc = "infoSet" /\ upc' = "plugins"
                      \/ upc = "delSet" /\ upc' = "delExt"
                \/ UNCHANGED <<upc, se>>
      BY <1>3, ExtendsEffect
    <2>4. /\ ext'[s] = e /\ \A t \in SiteObjs : t # s => ext'[t] = ext[t]
          /\ \A f \in Exts : f # e => plugin'[f] = plugin[f]
          /\ ~plugin'[e]
          /\ \A f \in Exts : f \in lost' <=> (f \in lost /\ f # e) \/ f = ext[s]
      BY <2>3, SetExtendEffect
    <2>5. upc \in Emptying => cur \in SiteObjs  BY CurIsPooled
    <2>6. ASSUME NEW f \in Exts, plugin'[f], f \notin lost'
          PROVE  \/ \E t \in SiteObjs : Pooled(t)' /\ ext'[t] = f
                 \/ upc' \in {"delGet", "delSet", "delExt"} /\ ext'[cur'] = f
      <3>1. plugin[f] /\ f \notin lost /\ f # ext[s]  BY <2>4, <2>6
      <3>2. CASE \E t \in SiteObjs : Pooled(t) /\ ext[t] = f  BY <2>2, <2>4, <3>1, <3>2
      <3>3. CASE upc \in {"delGet", "delSet", "delExt"} /\ ext[cur] = f
        BY <2>1, <2>3, <2>4, <2>5, <3>1, <3>3 DEF Emptying
      <3> QED  BY <3>1, <3>2, <3>3 DEF PluginInv
    <2>7. ASSUME upc' = "delExt", NEW f \in Exts, ext'[cur'] = f, plugin'[f] PROVE f = se'
      <3>1. CASE s = cur  BY <2>1, <2>4, <2>7, <3>1
      <3>2. CASE s # cur
        <4>1. upc = "delExt" /\ se' = se  BY <2>3, <2>7, <3>2
        <4>2. ext[cur] = f /\ plugin[f]  BY <2>1, <2>4, <2>5, <2>7, <3>2, <4>1
            DEF Emptying
        <4> QED  BY <4>1, <4>2 DEF PluginInv
      <3> QED  BY <3>1, <3>2
    <2> QED  BY <2>6, <2>7 DEF PluginInv
  <1>4. CASE ResetData
    <2>1. /\ upc = "delData" /\ upc' = "delSites" /\ UNCHANGED <<pool, plugin, lost>>
          /\ ext' = [ext EXCEPT ![cur] = NoExt]
      BY <1>4 DEF ResetData, hist, extVars
    <2>2. \A t : Pooled(t)' <=> Pooled(t)  BY <2>1 DEF Pooled
    <2>3. ~Pooled(cur)  BY <2>1, CurIsPooled DEF Emptying
    <2>4. \A t \in SiteObjs : Pooled(t) => ext'[t] = ext[t]  BY <2>1, <2>3
        DEF SiteTypeOK
    <2> QED  BY <2>1, <2>2, <2>4 DEF PluginInv
  <1>5. CASE SetPlugins
    <2>1. /\ upc = "plugins" /\ upc' = "site" /\ UNCHANGED <<pool, ext, lost>>
          /\ \A f \in Exts : f # se => plugin'[f] = plugin[f]
      BY <1>5 DEF SetPlugins, siteVars, hist, ExtTypeOK
    <2>2. \A t : Pooled(t)' <=> Pooled(t)  BY <2>1 DEF Pooled
    <2>3. cur \in SiteObjs /\ Pooled(cur)  BY <2>1, CurIsPooled DEF WithSite, Handling
    <2>4. ext[cur] = se \/ se \in lost  BY <2>1 DEF SeInv
    <2> QED  BY <2>1, <2>2, <2>3, <2>4 DEF PluginInv
  <1>6. CASE DelExt
    <2>1. /\ upc = "delExt" /\ upc' = "delSess" /\ UNCHANGED <<pool, ext, lost, cur>>
          /\ \A f \in Exts : plugin'[f] => plugin[f] /\ f # se
      BY <1>6 DEF DelExt, siteVars, hist, ExtTypeOK
    <2>2. \A t : Pooled(t)' <=> Pooled(t)  BY <2>1 DEF Pooled
    <2> QED  BY <2>1, <2>2 DEF PluginInv
  <1>7. ASSUME UNCHANGED <<pool, ext, plugin, lost>>,
               \/ upc \notin Emptying /\ upc' \notin Emptying
               \/ UNCHANGED <<upc, cur, se>>
               \/ upc = "delSess" /\ upc' = "delData"
               \/ upc = "delGet" /\ upc' \in {"delSet", "delExt"} /\ cur' = cur
                  /\ se' = ext[cur]
        PROVE  PluginInv'
    <2>1. \A t : Pooled(t)' <=> Pooled(t)  BY <1>7 DEF Pooled
    <2> QED  BY <1>7, <2>1 DEF PluginInv, Emptying
  <1>8. InstantDeadAll => upc = "delSess" /\ upc' = "delData"  BY DEF InstantDeadAll
  <1> QED
    BY <1>1, <1>2, <1>3, <1>4, <1>5, <1>6, <1>7, <1>8, EmptyingMoves, WhoChanges


\* What has been handled: nothing when an update or Close begins; then a domain of
\* the updater's entry, its root directory or its configuration is added.
SameProgress(j) ==
    /\ \A h : Named(j, h)' <=> Named(j, h)
    /\ Rooted(j)' <=> Rooted(j)
    /\ Configured(j)' <=> Configured(j)

\* A step handles no entry, or one thing of one entry, or begins or ends an update.
LEMMA Progress ==
    ASSUME TypeInv, [Next]_vars
    PROVE  \/ \A j \in DOMAIN cfg' : /\ \A h : ~Named(j, h)'
                                     /\ ~Rooted(j)' /\ ~Configured(j)'
           \/ upc' = "idle" /\ ~Complete'
           \/ AddHost \/ SetRootDir \/ setConfig
           \/ /\ cfg' = cfg
              /\ \A j \in DOMAIN cfg : SameProgress(j)
              /\ upc = "idle" => upc' = "idle"
  <1> USE DEF Handling, AfterHosts, AfterConf
  <1>0. /\ \A i \in DOMAIN cfg : i \in Nat /\ i >= 1
        /\ \E n \in Nat : DOMAIN cfg = 1 .. n
        /\ k \in Nat
    BY Entries
  <1>1. CASE UpdateConfig
    <2>1. cfg' \in Configs /\ upc' = "site" /\ k' = 1  BY <1>1 DEF UpdateConfig
    <2>2. \A j \in DOMAIN cfg' : j \in Nat /\ j >= 1  BY <2>1, ConfigIsSeq
    <2> QED  BY <2>1, <2>2 DEF Named, Rooted, Configured
  <1>2. CASE Close
    <2>1. cfg' = <<>>  BY <1>2 DEF Close
    <2> QED  BY <2>1
  <1>3. CASE NoIdentity
    <2>1. upc' = "idle" /\ k \in DOMAIN cfg /\ cfg[k].id = NoIdent /\ cfg' = cfg
      BY <1>3 DEF NoIdentity, updRest
    <2> QED  BY <2>1 DEF Complete
  <1>4. ASSUME cfg' = cfg,
               \/ UNCHANGED <<upc, k, todo>>
               \/ /\ k' = k /\ k \in DOMAIN cfg
                  /\ \/ upc = "site" /\ upc' = "hosts" /\ todo' = cfg[k].hosts
                     \/ upc = "site" /\ upc' = "info" /\ ~cfg[k].on
                     \/ {upc, upc'} \subseteq {"getExt", "setExt", "setConf"}
                     \/ {upc, upc'} \subseteq {"info", "infoGet", "infoSet", "plugins"}
               \/ upc = "plugins" /\ upc' = "site" /\ k' = k + 1 /\ k \in DOMAIN cfg
               \/ upc = "site" /\ upc' \notin Handling /\ k >= 1 /\ k \notin DOMAIN cfg
               \/ upc \notin Handling \cup {"idle"} /\ upc' \notin Handling
        PROVE  \A j \in DOMAIN cfg : SameProgress(j)
    <2> SUFFICES ASSUME NEW j \in DOMAIN cfg PROVE SameProgress(j)  OBVIOUS
    <2> USE DEF SameProgress, Named, Rooted, Configured
    <2>1. CASE UNCHANGED <<upc, k, todo>>  BY <1>4, <2>1
    <2>2. CASE k' = k /\ upc = "site" /\ upc' = "hosts" /\ todo' = cfg[k].hosts
      BY <1>0, <1>4, <2>2
    <2>3. CASE k' = k /\ upc = "site" /\ upc' = "info" /\ ~cfg[k].on  BY <1>0, <1>4,
        <2>3
    <2>4. CASE k' = k /\ {upc, upc'} \subseteq {"getExt", "setExt", "setConf"}
      BY <1>0, <1>4, <2>4
    <2>5. CASE k' = k /\ {upc, upc'} \subseteq {"info", "infoGet", "infoSet", "plugins"}
      BY <1>0, <1>4, <2>5
    <2>6. CASE upc = "plugins" /\ upc' = "site" /\ k' = k + 1  BY <1>0, <1>4, <2>6
    <2>7. CASE upc = "site" /\ upc' \notin Handling /\ k >= 1 /\ k \notin DOMAIN cfg
      <3>1. j < k  BY <1>0, <2>7
      <3> QED  BY <1>4, <2>7, <3>1
    <2>8. CASE upc \notin Handling \cup {"idle"} /\ upc' \notin Handling  BY <1>4, <2>8
    <2> QED  BY <1>4, <2>1, <2>2, <2>3, <2>4, <2>5, <2>6, <2>7, <2>8
  <1> USE DEF updRest
  <1>5. UNCHANGED <<upc, cfg, k, todo, cur, se>> => cfg' = cfg /\ UNCHANGED <<upc, k, todo>>
    OBVIOUS
  <1>6. AddSite => /\ cfg' = cfg /\ k' = k /\ k \in DOMAIN cfg
                   /\ upc = "site" /\ upc' = "hosts" /\ todo' = cfg[k].hosts
    BY DEF AddSite
  <1>7. SkipSite => /\ cfg' = cfg /\ k' = k /\ k \in DOMAIN cfg
                    /\ upc = "site" /\ upc' = "info" /\ ~cfg[k].on
    BY DEF SkipSite
  <1>8. /\ GetExt("getExt", "setExt", "setConf") =>
             /\ cfg' = cfg /\ k' = k /\ k \in DOMAIN cfg
             /\ {upc, upc'} \subseteq {"getExt", "setExt", "setConf"}
        /\ SetExt("setExt", "setConf") =>
             /\ cfg' = cfg /\ k' = k /\ k \in DOMAIN cfg
             /\ {upc, upc'} \subseteq {"getExt", "setExt", "setConf"}
    BY DEF GetExt, SetExt, TypeInv, UpdaterHas
  <1>9. /\ GetExt("infoGet", "infoSet", "plugins") =>
             /\ cfg' = cfg /\ k' = k /\ k \in DOMAIN cfg
             /\ {upc, upc'} \subseteq {"info", "infoGet", "infoSet", "plugins"}
        /\ SetExt("infoSet", "plugins") =>
             /\ cfg' = cfg /\ k' = k /\ k \in DOMAIN cfg
             /\ {upc, upc'} \subseteq {"info", "infoGet", "infoSet", "plugins"}
    BY DEF GetExt, SetExt, TypeInv, UpdaterHas
  <1>10. InfoSite => /\ cfg' = cfg /\ k' = k /\ k \in DOMAIN cfg
                     /\ {upc, upc'} \subseteq {"info", "infoGet", "infoSet", "plugins"}
    BY DEF InfoSite, TypeInv, UpdaterHas
  <1>11. SetPlugins => /\ cfg' = cfg /\ k' = k + 1 /\ k \in DOMAIN cfg
                       /\ upc = "plugins" /\ upc' = "site"
    BY DEF SetPlugins, TypeInv, UpdaterHas
  <1>12. BeginDel => /\ cfg' = cfg /\ upc = "site" /\ upc' \notin Handling
                     /\ k >= 1 /\ k \notin DOMAIN cfg
    BY DEF BeginDel, TypeInv, UpdaterHas
  <1>13. \/ DelHost \/ BeginDelSites \/ DelSite
         \/ GetExt("delGet", "delSet", "delExt") \/ SetExt("delSet", "delExt")
         \/ DelExt \/ InstantDeadAll \/ ResetData \/ EndUpdate
         => cfg' = cfg /\ upc \notin Handling \cup {"idle"} /\ upc' \notin Handling
    BY DEF DelHost, BeginDelSites, DelSite, GetExt, SetExt, DelExt, InstantDeadAll,
       ResetData,
           EndUpdate
  <1> HIDE DEF Handling, AfterHosts, AfterConf, updRest
  <1>14. CASE UNCHANGED <<upc, cfg, k, todo, cur, se>>  BY <1>4, <1>5, <1>14
  <1>15. CASE AddSite \/ SkipSite  BY <1>4, <1>6, <1>7, <1>15
  <1>16. CASE GetExt("getExt", "setExt", "setConf") \/ SetExt("setExt", "setConf")
    BY <1>4, <1>8, <1>16
  <1>17. CASE \/ GetExt("infoGet", "infoSet", "plugins") \/ SetExt("infoSet", "plugins")
              \/ InfoSite
    BY <1>4, <1>9, <1>10, <1>17
  <1>18. CASE SetPlugins \/ BeginDel  BY <1>4, <1>11, <1>12, <1>18
  <1>19. CASE \/ DelHost \/ BeginDelSites \/ DelSite
              \/ GetExt("delGet", "delSet", "delExt") \/ SetExt("delSet", "delExt")
              \/ DelExt \/ InstantDeadAll \/ ResetData \/ EndUpdate
    BY <1>4, <1>13, <1>19
  <1>20. CASE AddHost \/ SetRootDir \/ setConfig  BY <1>20
  <1> QED
    BY <1>1, <1>2, <1>3, <1>20, <1>14, <1>15, <1>16, <1>17, <1>18, <1>19, UpdaterMoves

\* The stages in which the updater holds an extension, or knows that there is none.
HasRead == {"setExt", "setConf", "infoSet", "plugins"}

\* From reading an extension to using it the updater does nothing else.
LEMMA HasReadMoves ==
    ASSUME [Next]_vars, upc' \in HasRead
    PROVE  /\ ~MakesSite /\ ~DelSite /\ ~setConfig /\ ~ResetData /\ ~AddHost /\ ~SetRootDir
           /\ \/ UNCHANGED <<upc, cfg, k, todo, cur, se>>
              \/ GetExt("getExt", "setExt", "setConf") \/ SetExt("setExt", "setConf")
              \/ GetExt("infoGet", "infoSet", "plugins") \/ SetExt("infoSet", "plugins")
  <1> USE DEF HasRead
  <1>1. ~UpdateConfig  BY DEF UpdateConfig
  <1>2. ~Close  BY DEF Close
  <1>3. ~NoIdentity  BY DEF NoIdentity
  <1>4. ~AddSite  BY DEF AddSite
  <1>5. ~SkipSite  BY DEF SkipSite
  <1>6. ~AddHost  BY DEF AddHost
  <1>7. ~SetRootDir  BY DEF SetRootDir
  <1>8. ~setConfig  BY DEF setConfig
  <1>9. ~InfoSite  BY DEF InfoSite
  <1>10. ~SetPlugins  BY DEF SetPlugins
  <1>11. ~BeginDel  BY DEF BeginDel
  <1>12. ~DelHost  BY DEF DelHost
  <1>13. ~BeginDelSites  BY DEF BeginDelSites
  <1>14. ~DelSite  BY DEF DelSite
  <1>15. ~EndUpdate /\ ~ResetData  BY DEF EndUpdate, ResetData
  <1>16. ~DelExt /\ ~InstantDeadAll  BY DEF DelExt, InstantDeadAll
  <1>17. ~GetExt("delGet", "delSet", "delExt")  BY DEF GetExt
  <1>18. ~SetExt("delSet", "delExt")  BY DEF SetExt
  <1> QED
    BY <1>1, <1>2, <1>3, <1>4, <1>5, <1>6, <1>7, <1>8, <1>9, <1>10, <1>11, <1>12, <1>13,
       <1>14, <1>15, <1>16, <1>17, <1>18, UpdaterMoves
    DEF MakesSite

\* What the updater has read is what the site has, but for what requests replaced.
LEMMA SeStep ==
    ASSUME TypeInv, OneEach, StageInv, SeInv, upc # "idle" => ExtsApplied, [Next]_vars
    PROVE  SeInv'
  <1> USE DEF TypeInv, TypeOK
  <1>0. /\ upc \in WithSite => k \in DOMAIN cfg /\ cfg[k].id \in Idents /\ Pooled(cur)
                               /\ cur \in SiteObjs /\ cur = pool[cfg[k].id]
    BY CurIsPooled DEF WithSite
  <1>a. CASE upc' \notin HasRead  BY <1>a DEF SeInv, HasRead
  <1> SUFFICES ASSUME upc' \in HasRead PROVE SeInv'  BY <1>a
  <1>b. \A j \in DOMAIN cfg' : Configured(j)' => cfg' = cfg /\ Configured(j)
    BY Progress, HasReadMoves DEF HasRead, SameProgress
  <1>1. ASSUME NEW at, NEW make, NEW next, GetExt(at, make, next), upc # "idle",
               at \in {"getExt", "infoGet"}, make \in {"setExt", "infoSet"},
               next \in {"setConf", "plugins"}
        PROVE  SeInv'
    <2>1. /\ UNCHANGED <<pool, ext, cfg, k, cur>> /\ se' = ext[cur] /\ upc = at
          /\ upc' = IF ext[cur] = NoExt THEN make ELSE next
      BY <1>1 DEF GetExt, siteVars, updRest
    <2>2. Pooled(cur) /\ cur \in SiteObjs /\ cur = pool[cfg[k].id]
      BY <1>0, <1>1, <2>1 DEF WithSite, Handling
    <2>3. \A s : Pooled(s)' <=> Pooled(s)  BY <2>1 DEF Pooled
    <2>4. \A s \in SiteObjs : Pooled(s) /\ ext[s] = ext[cur] /\ ext[cur] # NoExt => s = cur
      BY <2>2 DEF OneEach
    <2>5. ext[cur] = NoExt => \A j \in DOMAIN cfg : Configured(j) => cfg[j].id # cfg[k].id
      BY <1>1, <2>2 DEF ExtsApplied
    <2>6. CASE ext[cur] = NoExt  BY <1>1, <1>b, <2>1, <2>5, <2>6 DEF SeInv
    <2>7. CASE ext[cur] # NoExt  BY <1>1, <2>1, <2>3, <2>4, <2>7 DEF SeInv
    <2> QED  BY <2>6, <2>7
  <1>2. ASSUME NEW at, NEW next, SetExt(at, next), at \in {"setExt", "infoSet"},
               next \in {"setConf", "plugins"}
        PROVE  SeInv'
    <2>1. UNCHANGED <<pool, cur>> /\ upc = at /\ upc' = next  BY <1>2 DEF SetExt
    <2>2. PICK e \in Exts : SetExtend(cur, e) /\ se' = e  BY <1>2 DEF SetExt
    <2>3. cur \in SiteObjs /\ Pooled(cur)  BY <1>0, <1>2, <2>1 DEF WithSite, Handling
    <2>4. \A s : Pooled(s) => SiteUsed(s)  BY DEF Pooled, SiteUsed
    <2>5. /\ ext'[cur] = e /\ e # NoExt
          /\ \A s \in SiteObjs : s # cur => ext'[s] = ext[s]
          /\ \A s \in SiteObjs : SiteUsed(s) => ext[s] # e
      BY <2>2, <2>3, <2>4, SetExtendEffect
    <2>6. \A s \in SiteObjs : Pooled(s)' /\ ext'[s] = e => s = cur
      BY <2>1, <2>4, <2>5 DEF Pooled
    <2> QED  BY <1>2, <2>1, <2>2, <2>5, <2>6 DEF SeInv
  <1>3. ASSUME UNCHANGED <<upc, cfg, k, todo, cur, se>> PROVE SeInv'
    <2>1. UNCHANGED pool  BY WhoChanges, HasReadMoves
    <2>2. \A s : Pooled(s)' <=> Pooled(s)  BY <2>1 DEF Pooled
    <2>3. CASE Extends
      <3>1. PICK s \in SiteObjs, e \in Exts :
               /\ SiteUsed(s) /\ SetExtend(s, e)
               /\ outdone' = IF ext[s] = NoExt THEN outdone ELSE outdone \cup {s}
        BY <1>3, <2>3, ExtendsEffect
      <3>2. /\ ext'[s] = e /\ e # NoExt /\ se # e
            /\ \A t \in SiteObjs : t # s => ext'[t] = ext[t]
            /\ \A f \in Exts : f \in lost' <=> (f \in lost /\ f # e) \/ f = ext[s]
        BY <3>1, SetExtendEffect
      <3>a. cur \in SiteObjs  BY <1>0, <1>3 DEF HasRead, WithSite, Handling
      <3>3. upc' = "setConf" => ext'[cur] # NoExt /\ (ext'[cur] = se \/ cur \in outdone')
        BY <1>3, <3>1, <3>2, <3>a DEF SeInv
      <3>4. upc' = "setConf" => \A t \in SiteObjs : Pooled(t) /\ ext'[t] = se => t = cur
        BY <1>3, <3>1, <3>2 DEF SeInv
      <3>5. upc' = "plugins" => ext'[cur] = se \/ se \in lost'
        <4>1. se \in Exts \/ se = NoExt  BY DEF UpdaterTypeOK
        <4>2. upc = "plugins" => se # NoExt  BY DEF UpdaterHas
        <4> QED  BY <1>3, <3>2, <3>a, <4>1, <4>2 DEF SeInv
      <3>6. upc' \in {"setExt", "infoSet"} =>
               \A j \in DOMAIN cfg : Configured(j)' => cfg[j].id # cfg[k].id
        BY <1>3, <1>b DEF SeInv
      <3> QED  BY <1>3, <2>2, <3>3, <3>4, <3>5, <3>6 DEF SeInv
    <2>4. CASE ~Extends
      <3>1. UNCHANGED <<ext, outdone, lost>>
        BY <2>4, WhoChanges, HasReadMoves DEF Extends
      <3> QED  BY <1>3, <1>b, <2>2, <3>1 DEF SeInv
    <2> QED  BY <2>3, <2>4
  <1>4. CASE GetExt("getExt", "setExt", "setConf")  BY <1>1, <1>4 DEF GetExt
  <1>5. CASE GetExt("infoGet", "infoSet", "plugins")  BY <1>1, <1>5 DEF GetExt
  <1>6. CASE SetExt("setExt", "setConf")  BY <1>2, <1>6
  <1>7. CASE SetExt("infoSet", "plugins")  BY <1>2, <1>7
  <1> QED  BY <1>3, <1>4, <1>5, <1>6, <1>7, HasReadMoves

\* What has been handled has a name.
LEMMA HandledIds ==
    ASSUME TypeInv, StageInv, upc # "idle" \/ Complete
    PROVE  \A j \in DOMAIN cfg :
             Rooted(j) \/ Configured(j) \/ (\E h : Named(j, h)) => cfg[j].id \in Idents
  <1> SUFFICES ASSUME NEW j \in DOMAIN cfg, Rooted(j) \/ Configured(j) \/ \E h : Named(j, h)
               PROVE  cfg[j].id \in Idents
    OBVIOUS
  <1>1. CASE upc \in Handling
    <2>1. upc = "site" \/ upc \in Handling \ {"site"}  BY <1>1
    <2>2. j < k \/ (j = k /\ upc # "site")
      BY <1>1 DEF Named, Rooted, Configured, AfterHosts, AfterConf
    <2>3. cfg[j].id # NoIdent  BY <1>1, <2>2, CurIsPooled, NullAssumption DEF StageInv
    <2> QED  BY <2>3, Entries
  <1>2. CASE upc \notin Handling
    <2>1. Complete  BY <1>2 DEF StageInv
    <2> QED  BY <2>1, Entries DEF Complete
  <1> QED  BY <1>1, <1>2

\* The three steps that apply an entry keep what is applied, and apply theirs.
LEMMA AddHostApplies ==
    ASSUME TypeInv, HostInv, StageInv, Applied, AddHost
    PROVE  Applied'
  <1> USE DEF TypeInv, TypeOK
  <1>0. /\ \A j \in DOMAIN cfg : j \in Nat
        /\ k \in Nat /\ k \in DOMAIN cfg /\ cfg[k].id \in Idents
        /\ cur = pool[cfg[k].id] /\ cur # NoSite
    BY Entries, CurIsPooled DEF AddHost, WithSite, Handling
  <1>1. /\ UNCHANGED <<pool, root, ext, conf, outdone, cfg, k, upc>> /\ upc = "hosts"
    BY DEF AddHost, extVars, updRest, hist
  <1>2. PICK g \in todo : man' = [man EXCEPT ![g] = cur] /\ todo' = todo \ {g}
    BY DEF AddHost
  <1>3. g \in Hosts /\ g \in cfg[k].hosts /\ cfg[k].on
    BY <1>1, <1>2 DEF HostInv, Adding, UpdaterTypeOK
  <1>4. man'[g] = cur /\ \A h \in Hosts : h # g => man'[h] = man[h]
    BY <1>2, <1>3 DEF SiteTypeOK
  <1>5. \A j \in DOMAIN cfg : /\ \A h : Named(j, h)' <=> Named(j, h) \/ (j = k /\ h = g)
                              /\ Rooted(j)' <=> Rooted(j)
                              /\ Configured(j)' <=> Configured(j)
    BY <1>0, <1>1, <1>2, <1>3 DEF Named, Rooted, Configured, Handling, AfterHosts
  <1>6. HostsApplied'
    <2> SUFFICES ASSUME NEW h \in Hosts, NEW i \in DOMAIN cfg, Named(i, h)',
                        \A m \in DOMAIN cfg : m > i => ~Named(m, h)'
                 PROVE  man'[h] # NoSite /\ pool[cfg[i].id] = man'[h]
      BY <1>1 DEF HostsApplied
    <2>1. CASE h = g
      <3>1. i <= k  BY <1>0, <1>1 DEF Named, Handling, AfterHosts
      <3>2. ~(k > i)  BY <1>0, <1>5, <2>1
      <3>3. i = k  BY <1>0, <3>1, <3>2
      <3> QED  BY <1>0, <1>4, <2>1, <3>3
    <2>2. CASE h # g  BY <1>4, <1>5, <2>2 DEF Applied, HostsApplied
    <2> QED  BY <2>1, <2>2
  <1>7. RootsApplied' /\ ExtsApplied' /\ ConfsApplied'
    BY <1>1, <1>5 DEF Applied, RootsApplied, ExtsApplied, ConfsApplied
  <1> QED  BY <1>6, <1>7 DEF Applied

LEMMA SetRootDirApplies ==
    ASSUME TypeInv, OneEach, StageInv, Applied, SetRootDir
    PROVE  Applied'
  <1> USE DEF TypeInv, TypeOK
  <1>0. /\ \A j \in DOMAIN cfg : j \in Nat
        /\ k \in Nat /\ k \in DOMAIN cfg /\ cfg[k].id \in Idents /\ cfg[k].on
        /\ cur = pool[cfg[k].id] /\ cur # NoSite /\ cur \in SiteObjs
    BY Entries, CurIsPooled DEF SetRootDir, WithSite, Handling, StageInv
  <1>1. /\ UNCHANGED <<pool, man, ext, conf, outdone, cfg, k>>
        /\ upc = "hosts" /\ todo = {} /\ upc' = "getExt"
        /\ root' = [root EXCEPT ![cur] = cfg[k].dir]
    BY DEF SetRootDir, extVars, updRest, hist
  <1>2. /\ root'[cur] = cfg[k].dir
        /\ \A s \in SiteObjs : s # cur => root'[s] = root[s]
    BY <1>0, <1>1 DEF SiteTypeOK
  <1>3. \A j \in DOMAIN cfg : /\ \A h : Named(j, h)' <=> Named(j, h)
                              /\ Rooted(j)' <=> Rooted(j) \/ j = k
                              /\ Configured(j)' <=> Configured(j)
    BY <1>0, <1>1 DEF Named, Rooted, Configured, Handling, AfterHosts, AfterConf
  <1>4. \A j \in DOMAIN cfg : Rooted(j)' => j <= k /\ cfg[j].id \in Idents
    <2>1. \A j \in DOMAIN cfg : Rooted(j) => j <= k
      BY <1>0, <1>1 DEF Rooted, Handling, AfterHosts
    <2> QED  BY <1>0, <1>1, <1>3, <2>1, HandledIds
  <1>5. RootsApplied'
    <2> SUFFICES ASSUME NEW j \in DOMAIN cfg, Rooted(j)',
                        \A m \in DOMAIN cfg : m > j /\ Rooted(m)' => cfg[m].id # cfg[j].id
                 PROVE  /\ pool[cfg[j].id] # NoSite
                        /\ root'[pool[cfg[j].id]] = cfg[j].dir
      BY <1>1 DEF RootsApplied
    <2>1. CASE cfg[j].id = cfg[k].id
      <3>1. ~(k > j)  BY <1>0, <1>3, <2>1
      <3>2. j = k  BY <1>0, <1>4, <3>1
      <3> QED  BY <1>0, <1>2, <3>2
    <2>2. CASE cfg[j].id # cfg[k].id
      <3>1. Rooted(j) /\ \A m \in DOMAIN cfg : m > j /\ Rooted(m) => cfg[m].id # cfg[j].id
        BY <1>3, <2>2
      <3>2. pool[cfg[j].id] # NoSite /\ root[pool[cfg[j].id]] = cfg[j].dir
        BY <3>1 DEF Applied, RootsApplied
      <3>3. pool[cfg[j].id] # cur /\ pool[cfg[j].id] \in SiteObjs
        BY <1>0, <1>4, <2>2, <3>2 DEF OneEach, SiteTypeOK
      <3> QED  BY <1>2, <3>2, <3>3
    <2> QED  BY <2>1, <2>2
  <1>6. HostsApplied' /\ ExtsApplied' /\ ConfsApplied'
    BY <1>1, <1>3 DEF Applied, HostsApplied, ExtsApplied, ConfsApplied
  <1> QED  BY <1>5, <1>6 DEF Applied

LEMMA setConfigApplies ==
    ASSUME TypeInv, OneEach, StageInv, SeInv, Applied, setConfig
    PROVE  Applied'
  <1> USE DEF TypeInv, TypeOK
  <1>0. /\ \A j \in DOMAIN cfg : j \in Nat
        /\ k \in Nat /\ k \in DOMAIN cfg /\ cfg[k].id \in Idents /\ cfg[k].on
        /\ cur = pool[cfg[k].id] /\ cur # NoSite /\ cur \in SiteObjs
    BY Entries, CurIsPooled DEF setConfig, WithSite, Handling, StageInv
  <1>1. /\ UNCHANGED <<pool, man, root, ext, cfg, k>> /\ upc = "setConf" /\ upc' = "info"
        /\ conf' = [conf EXCEPT ![se] = cfg[k]]
        /\ outdone' = IF ext[cur] = se THEN outdone \ {cur} ELSE outdone
    BY DEF setConfig, siteVars, updRest
  <1>2. /\ conf'[se] = cfg[k] /\ \A e \in Exts : e # se => conf'[e] = conf[e]
    <2>1. se \in Exts  BY <1>1 DEF UpdaterTypeOK, UpdaterHas
    <2> QED  BY <1>1, <2>1 DEF ExtTypeOK
  <1>3. \A j \in DOMAIN cfg : /\ \A h : Named(j, h)' <=> Named(j, h)
                              /\ Rooted(j)' <=> Rooted(j)
                              /\ Configured(j)' <=> Configured(j) \/ j = k
    BY <1>0, <1>1 DEF Named, Rooted, Configured, Handling, AfterHosts, AfterConf
  <1>4. \A j \in DOMAIN cfg : Configured(j)' => j <= k /\ cfg[j].id \in Idents
    <2>1. \A j \in DOMAIN cfg : Configured(j) => j <= k
      BY <1>0, <1>1 DEF Configured, Handling, AfterConf
    <2> QED  BY <1>0, <1>1, <1>3, <2>1, HandledIds
  <1>5. ExtsApplied'
    BY <1>0, <1>1, <1>3 DEF Applied, ExtsApplied, SeInv
  <1>6. ConfsApplied'
    <2> SUFFICES ASSUME NEW j \in DOMAIN cfg, Configured(j)',
                        \A m \in DOMAIN cfg : m > j /\ Configured(m)' => cfg[m].id # cfg[j].id
                 PROVE  \/ pool[cfg[j].id] \in outdone'
                        \/ conf'[ext[pool[cfg[j].id]]] = cfg[j]
      BY <1>1 DEF ConfsApplied
    <2>1. CASE cfg[j].id = cfg[k].id
      <3>1. ~(k > j)  BY <1>0, <1>3, <2>1
      <3>2. j = k  BY <1>0, <1>4, <3>1
      <3> QED  BY <1>0, <1>1, <1>2, <3>2 DEF SeInv
    <2>2. CASE cfg[j].id # cfg[k].id
      <3>1. Configured(j)
            /\ \A m \in DOMAIN cfg : m > j /\ Configured(m) => cfg[m].id # cfg[j].id
        BY <1>3, <2>2
      <3>2. pool[cfg[j].id] # NoSite /\ ext[pool[cfg[j].id]] # NoExt
        BY <3>1 DEF Applied, ExtsApplied
      <3>3. PICK s : s = pool[cfg[j].id]  OBVIOUS
      <3>4. s # cur /\ s \in SiteObjs /\ Pooled(s)
        BY <1>0, <1>4, <2>2, <3>2, <3>3 DEF OneEach, SiteTypeOK, Pooled
      <3>5. ext[s] # se /\ ext[s] \in Exts
        BY <1>1, <3>2, <3>3, <3>4 DEF SeInv, SiteTypeOK
      <3>6. s \in outdone \/ conf[ext[s]] = cfg[j]
        BY <3>1, <3>3 DEF Applied, ConfsApplied
      <3> QED  BY <1>1, <1>2, <3>3, <3>4, <3>5, <3>6
    <2> QED  BY <2>1, <2>2
  <1>7. HostsApplied' /\ RootsApplied'
    BY <1>1, <1>3 DEF Applied, HostsApplied, RootsApplied
  <1> QED  BY <1>5, <1>6, <1>7 DEF Applied

\* A step that handles nothing keeps what the handled entries asked for: the sites of
\* their names, the domains, the root directories, and the extensions with their
\* configurations, unless a request replaces one.
LEMMA KeepsApplied ==
    ASSUME TypeInv, StageInv, upc # "idle" \/ Complete, Applied, cfg' = cfg,
           \A j \in DOMAIN cfg : SameProgress(j),
           \A i \in DOMAIN cfg : cfg[i].on /\ cfg[i].id \in Idents /\ pool[cfg[i].id] # NoSite
                                 => pool'[cfg[i].id] = pool[cfg[i].id],
           \A i \in DOMAIN cfg, h \in Hosts : Named(i, h) => man'[h] = man[h],
           \A s \in SiteObjs : Pooled(s) => root'[s] = root[s],
           \A i \in DOMAIN cfg, s \in SiteObjs :
              Configured(i) /\ Pooled(s) /\ s = pool[cfg[i].id] /\ ext[s] # NoExt =>
                 /\ ext'[s] # NoExt
                 /\ \/ s \in outdone'
                    \/ s \notin outdone /\ conf'[ext'[s]] = conf[ext[s]]
    PROVE  Applied'
  <1> USE DEF TypeInv, TypeOK
  <1>0. \A j \in DOMAIN cfg :
          Rooted(j) \/ Configured(j) \/ (\E h : Named(j, h)) => cfg[j].id \in Idents
    BY HandledIds
  <1>a. \A j \in DOMAIN cfg : cfg[j].id \in Idents /\ pool[cfg[j].id] # NoSite
                              => pool[cfg[j].id] \in SiteObjs /\ Pooled(pool[cfg[j].id])
    BY DEF Pooled, SiteTypeOK
  <1>1. HostsApplied'
    <2> SUFFICES ASSUME NEW h \in Hosts, NEW i \in DOMAIN cfg, Named(i, h)',
                        \A m \in DOMAIN cfg : m > i => ~Named(m, h)'
                 PROVE  man'[h] # NoSite /\ pool'[cfg[i].id] = man'[h]
      BY DEF HostsApplied
    <2>1. Named(i, h) /\ \A m \in DOMAIN cfg : m > i => ~Named(m, h)  BY
        DEF SameProgress
    <2>2. man[h] # NoSite /\ pool[cfg[i].id] = man[h]  BY <2>1 DEF Applied, HostsApplied
    <2> QED  BY <1>0, <2>1, <2>2 DEF Named
  <1>2. RootsApplied'
    <2> SUFFICES ASSUME NEW j \in DOMAIN cfg, Rooted(j)',
                        \A m \in DOMAIN cfg : m > j /\ Rooted(m)' => cfg[m].id # cfg[j].id
                 PROVE  pool'[cfg[j].id] # NoSite /\ root'[pool'[cfg[j].id]] = cfg[j].dir
      BY DEF RootsApplied
    <2>1. Rooted(j) /\ \A m \in DOMAIN cfg : m > j /\ Rooted(m) => cfg[m].id # cfg[j].id
      BY DEF SameProgress
    <2>2. pool[cfg[j].id] # NoSite /\ root[pool[cfg[j].id]] = cfg[j].dir
      BY <2>1 DEF Applied, RootsApplied
    <2>3. pool'[cfg[j].id] = pool[cfg[j].id]  BY <1>0, <2>1, <2>2 DEF Rooted
    <2> QED  BY <1>0, <1>a, <2>1, <2>2, <2>3
  <1>3. \A j \in DOMAIN cfg : Configured(j) =>
          /\ pool[cfg[j].id] # NoSite /\ ext[pool[cfg[j].id]] # NoExt
          /\ pool'[cfg[j].id] = pool[cfg[j].id]
          /\ pool[cfg[j].id] \in SiteObjs /\ Pooled(pool[cfg[j].id])
    BY <1>0, <1>a DEF Applied, ExtsApplied, Configured
  <1>4. ExtsApplied'
    BY <1>3 DEF ExtsApplied, SameProgress
  <1>5. ConfsApplied'
    <2> SUFFICES ASSUME NEW j \in DOMAIN cfg, Configured(j)',
                        \A m \in DOMAIN cfg : m > j /\ Configured(m)' => cfg[m].id # cfg[j].id
                 PROVE  \/ pool'[cfg[j].id] \in outdone'
                        \/ conf'[ext'[pool'[cfg[j].id]]] = cfg[j]
      BY DEF ConfsApplied
    <2>1. Configured(j)
          /\ \A m \in DOMAIN cfg : m > j /\ Configured(m) => cfg[m].id # cfg[j].id
      BY DEF SameProgress
    <2>2. pool[cfg[j].id] \in outdone \/ conf[ext[pool[cfg[j].id]]] = cfg[j]
      BY <2>1 DEF Applied, ConfsApplied
    <2> QED  BY <1>3, <2>1, <2>2
  <1> QED  BY <1>1, <1>2, <1>4, <1>5 DEF Applied

\* All steps keep what is applied.
LEMMA AppliedStep ==
    ASSUME TypeInv, HostInv, OneEach, HeldInv, StageInv, SeInv,
           upc # "idle" \/ Complete => Applied, [Next]_vars,
           upc' # "idle" \/ Complete'
    PROVE  Applied'
  <1> USE DEF TypeInv, TypeOK
  <1>1. CASE \A j \in DOMAIN cfg' : (\A h : ~Named(j, h)') /\ ~Rooted(j)' /\ ~Configured(j)'
    BY <1>1 DEF Applied, HostsApplied, RootsApplied, ExtsApplied, ConfsApplied
  <1>2. CASE AddHost
    BY <1>2, AddHostApplies DEF AddHost
  <1>3. CASE SetRootDir
    BY <1>3, SetRootDirApplies DEF SetRootDir
  <1>4. CASE setConfig
    BY <1>4, setConfigApplies DEF setConfig
  <1>5. ASSUME cfg' = cfg, \A j \in DOMAIN cfg : SameProgress(j),
               upc = "idle" => upc' = "idle", ~AddHost, ~SetRootDir, ~setConfig
        PROVE  Applied'
    <2>0. (upc # "idle" \/ Complete) /\ Applied  BY <1>5 DEF Complete
    <2>a. \A i \in DOMAIN cfg : cfg[i].on => cfg[i].id \in EffectiveIdents
      BY EffectiveIdent
    <2>1. ASSUME MakesSite PROVE Applied'
      <3>1. PICK s \in SiteObjs : NewSite(cfg[k].id, s)  BY <2>1, MakesSiteEffect
      <3>2. cfg[k].id \in Idents /\ UNCHANGED <<man, conf>>  BY <2>1, MakesSiteEffect
      <3>3. /\ \A i \in Idents : pool[i] # NoSite => pool'[i] = pool[i]
            /\ \A t \in SiteObjs : t # s => /\ ext'[t] = ext[t] /\ root'[t] = root[t]
                                            /\ t \in outdone' <=> t \in outdone
            /\ UNCHANGED <<root, ext, outdone>> \/ ~Pooled(s)
        BY <3>1, <3>2, NewSiteEffect
      <3>4. \A t \in SiteObjs : Pooled(t) => /\ ext'[t] = ext[t] /\ root'[t] = root[t]
                                             /\ t \in outdone' <=> t \in outdone
        BY <3>3
      <3> QED  BY <1>5, <2>0, <3>2, <3>3, <3>4, KeepsApplied
    <2>2. ASSUME DelSite PROVE Applied'
      <3>1. PICK i \in Idents : /\ i \notin EffectiveIdents
                                /\ \A j \in Idents : j # i => pool'[j] = pool[j]
        BY <2>2, DelSiteEffect
      <3>2. UNCHANGED <<man, root, ext, conf, outdone>>  BY <2>2, DelSiteEffect
      <3> QED  BY <1>5, <2>0, <2>a, <3>1, <3>2, KeepsApplied
    <2>3. ASSUME DelHost PROVE Applied'
      <3>1. UNCHANGED <<pool, root, ext, conf, outdone>>
        BY <2>3 DEF DelHost, extVars, hist
      <3>2. \A h \in Hosts : h \in EffectiveHosts => man'[h] = man[h]
        BY <2>3 DEF DelHost, SiteTypeOK
      <3>3. \A i \in DOMAIN cfg, h \in Hosts : Named(i, h) => h \in EffectiveHosts
        BY EffectiveHost DEF Named
      <3> QED  BY <1>5, <2>0, <3>1, <3>2, <3>3, KeepsApplied
    <2>4. ASSUME ResetData PROVE Applied'
      <3>1. /\ UNCHANGED <<pool, man, root, conf, outdone>> /\ upc = "delData"
            /\ ext' = [ext EXCEPT ![cur] = NoExt]
        BY <2>4 DEF ResetData, extVars, hist
      <3>2. ~Pooled(cur)  BY <3>1, CurIsPooled DEF Emptying
      <3>3. \A t \in SiteObjs : Pooled(t) => ext'[t] = ext[t]  BY <3>1, <3>2
          DEF SiteTypeOK
      <3> QED  BY <1>5, <2>0, <3>1, <3>3, KeepsApplied
    <2>5. ASSUME Extends PROVE Applied'
      <3>1. UNCHANGED <<pool, man, root>>  BY <2>5, ExtendsEffect
      <3>2. PICK s \in SiteObjs, e \in Exts :
               /\ SiteUsed(s) /\ SetExtend(s, e)
               /\ \/ s = cur /\ outdone' = outdone /\ upc \in {"setExt", "infoSet", "delSet"}
                  \/ outdone' = IF ext[s] = NoExt THEN outdone ELSE outdone \cup {s}
        BY <2>5, ExtendsEffect
      <3>3. /\ ext'[s] = e /\ e # NoExt
            /\ \A t \in SiteObjs : t # s => ext'[t] = ext[t]
            /\ \A t \in SiteObjs : SiteUsed(t) => ext[t] # e
            /\ \A f \in Exts : f # e => conf'[f] = conf[f]
        BY <3>2, SetExtendEffect
      <3>4. \A t : Pooled(t) => SiteUsed(t)  BY DEF Pooled, SiteUsed
      <3>5. ASSUME NEW i \in DOMAIN cfg, NEW t \in SiteObjs, Configured(i), Pooled(t),
                   t = pool[cfg[i].id], ext[t] # NoExt
            PROVE  /\ ext'[t] # NoExt
                   /\ \/ t \in outdone'
                      \/ t \notin outdone /\ conf'[ext'[t]] = conf[ext[t]]
        <4>1. CASE t # s
          <5>1. ext'[t] = ext[t] /\ ext[t] # e  BY <3>3, <3>4, <3>5, <4>1
          <5>2. ext[t] \in Exts  BY <3>5 DEF SiteTypeOK
          <5>3. conf'[ext[t]] = conf[ext[t]]  BY <3>3, <5>1, <5>2
          <5> QED  BY <3>2, <3>5, <5>1, <5>3
        <4>2. CASE t = s
          <5>1. t = cur /\ upc \in {"setExt", "infoSet", "delSet"} => FALSE
            <6>1. upc \in {"setExt", "infoSet"} =>
                    cfg[k].id \in Idents /\ cur = pool[cfg[k].id] /\ cfg[i].id # cfg[k].id
              BY <3>5, CurIsPooled DEF SeInv, WithSite, Handling
            <6>2. cfg[i].id \in Idents  BY <2>0, <3>5, HandledIds
            <6>3. upc = "delSet" => ~Pooled(cur)  BY CurIsPooled DEF Emptying
            <6> QED  BY <3>5, <6>1, <6>2, <6>3 DEF OneEach, Pooled
          <5>2. t \in outdone'  BY <3>2, <3>5, <4>2, <5>1
          <5> QED  BY <3>3, <4>2, <5>2
        <4> QED  BY <4>1, <4>2
      <3> QED  BY <1>5, <2>0, <3>1, <3>5, KeepsApplied
    <2>6. ASSUME UNCHANGED <<pool, man, root, ext, conf, outdone>> PROVE Applied'
      BY <1>5, <2>0, <2>6, KeepsApplied
    <2> QED
      BY <1>5, <2>1, <2>2, <2>3, <2>4, <2>5, <2>6, WhoChanges DEF Extends
  <1> QED  BY <1>1, <1>2, <1>3, <1>4, <1>5, Progress

LEMMA UpdateInit == Init => UpdateInv
  <1> SUFFICES ASSUME Init PROVE UpdateInv  OBVIOUS
  <1>1. \A s : ~Pooled(s)  BY DEF Init, Pooled
  <1>2. OneEach /\ HeldInv  BY DEF Init, OneEach, HeldInv, Pooled
  <1>3. StageInv /\ SeInv  BY DEF Init, StageInv, SeInv, WithSite, Handling, Emptying
  <1>4. EmptyInv /\ PluginInv  BY DEF Init, EmptyInv, PluginInv
  <1>5. DOMAIN cfg = {}  BY DEF Init
  <1>6. Applied
    BY <1>5 DEF Applied, HostsApplied, RootsApplied, ExtsApplied, ConfsApplied
  <1> QED  BY <1>2, <1>3, <1>4, <1>6 DEF UpdateInv

LEMMA UpdateStep == TypeInv /\ HostInv /\ UpdateInv /\ [Next]_vars => UpdateInv'
  <1> SUFFICES ASSUME TypeInv, HostInv, UpdateInv, [Next]_vars PROVE UpdateInv'  OBVIOUS
  <1> USE DEF UpdateInv
  <1>1. OneEach'  BY OneEachStep
  <1>2. HeldInv'  BY HeldStep
  <1>3. StageInv'  BY StageStep
  <1>4. SeInv'  BY SeStep DEF Applied
  <1>5. EmptyInv'  BY EmptyStep
  <1>6. PluginInv'  BY PluginStep
  <1>7. upc' # "idle" \/ Complete' => Applied'  BY AppliedStep
  <1> QED  BY <1>1, <1>2, <1>3, <1>4, <1>5, <1>6, <1>7

\* What an update has done so far, and what it leaves of the sites it takes away.
THEOREM UpdateInvariant == Spec => []UpdateInv
  <1>1. Init => TypeInv /\ HostInv /\ UpdateInv  BY TypeInit, HostInit, UpdateInit
  <1>2. TypeInv /\ HostInv /\ [Next]_vars => HostInv'  BY HostStep
  <1>3. TypeInv /\ HostInv /\ UpdateInv /\ [Next]_vars => UpdateInv'  BY UpdateStep
  <1> QED  BY <1>1, <1>2, <1>3, TypeInvariant, PTL DEF Spec

\* Once an update is over, the last enabled entry to name a domain, or of an identity,
\* is what is in force, whatever requests did while it was applied.
THEOREM AppliedWhenDone == Spec => []AppliedAtRest
  <1>1. TypeInv /\ UpdateInv => AppliedAtRest
    <2> SUFFICES ASSUME TypeInv, UpdateInv, upc = "idle", Complete,
                        NEW h \in Hosts, NEW i \in DOMAIN cfg, NEW j \in DOMAIN cfg,
                        LastToName(i, h), LastOf(j, cfg[i].id)
                 PROVE  /\ man[h] # NoSite
                        /\ pool[cfg[i].id] = man[h]
                        /\ root[man[h]] = cfg[j].dir
                        /\ ext[man[h]] # NoExt
                        /\ conf[ext[man[h]]] = cfg[j] \/ man[h] \in outdone
      BY DEF AppliedAtRest
    <2>0. Applied /\ upc \notin Handling  BY DEF UpdateInv, Handling
    <2>1. Named(i, h) /\ \A m \in DOMAIN cfg : m > i => ~Named(m, h)
      BY <2>0 DEF LastToName, Named
    <2>2. /\ Rooted(j) /\ Configured(j) /\ cfg[j].id = cfg[i].id
          /\ \A m \in DOMAIN cfg : m > j /\ Rooted(m) => cfg[m].id # cfg[j].id
          /\ \A m \in DOMAIN cfg : m > j /\ Configured(m) => cfg[m].id # cfg[j].id
      BY <2>0 DEF LastOf, Rooted, Configured
    <2>3. man[h] # NoSite /\ pool[cfg[i].id] = man[h]
      BY <2>0, <2>1 DEF Applied, HostsApplied
    <2>4. root[man[h]] = cfg[j].dir  BY <2>0, <2>2, <2>3 DEF Applied, RootsApplied
    <2>5. ext[man[h]] # NoExt  BY <2>0, <2>2, <2>3 DEF Applied, ExtsApplied
    <2>6. conf[ext[man[h]]] = cfg[j] \/ man[h] \in outdone
      BY <2>0, <2>2, <2>3 DEF Applied, ConfsApplied
    <2> QED  BY <2>3, <2>4, <2>5, <2>6
  <1> QED  BY <1>1, TypeInvariant, UpdateInvariant, PTL

\* A site that was taken away keeps no session and no extension, and no plugin client
\* stays open, but for what requests did in the meantime.
THEOREM RemovedIsEmpty == Spec => []RemovedSiteIsEmpty
  <1>1. TypeInv /\ UpdateInv => RemovedSiteIsEmpty
    <2> SUFFICES ASSUME TypeInv, UpdateInv, upc = "idle" PROVE RemovedSiteIsEmpty
      BY DEF RemovedSiteIsEmpty
    <2>1. \A s : Pooled(s) <=> s \in Range(pool) \ {NoSite}
      BY DEF Pooled, Range, TypeInv, TypeOK, SiteTypeOK
    <2>2. \A s \in SiteObjs : s # NoSite  BY NullAssumption
    <2>3. \A s \in SiteObjs : ~Pooled(s) /\ s \notin late => ~sess[s] /\ ext[s] = NoExt
      BY DEF UpdateInv, EmptyInv, Emptying
    <2>4. \A e \in Exts : plugin[e] /\ e \notin lost => \E s \in SiteObjs : Pooled(s) /\ ext[s] = e
      BY DEF UpdateInv, PluginInv
    <2>5. sess \in [SiteObjs -> BOOLEAN]  BY DEF TypeInv, TypeOK, SiteTypeOK
    <2>6. \A s \in SiteObjs \ (Range(pool) \cup late) : ~sess[s] /\ ext[s] = NoExt
      BY <2>1, <2>2, <2>3
    <2>7. \A e \in Exts \ lost : plugin[e] => \E s \in Range(pool) \ {NoSite} : ext[s] = e
      BY <2>1, <2>4
    <2> QED  BY <2>6, <2>7 DEF RemovedSiteIsEmpty
  <1> QED  BY <1>1, TypeInvariant, UpdateInvariant, PTL
=============================================================================
