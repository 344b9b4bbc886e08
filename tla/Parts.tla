-------------------------------- MODULE Parts --------------------------------
(***************************************************************************)
(* The parts of the system that keep to themselves, side by side: the      *)
(* libraries, the pages of one wallet, the server's limiters and caches,   *)
(* the scripts.  They share constants and nothing else, so a behaviour     *)
(* moves one of them, and what holds of every part alone holds here.       *)
(***************************************************************************)
EXTENDS CreditEngine, SpendGateway, NoteStore, HomePage, UnderwriterPage,
        Scripts, WireFormat, RateLimits, Envelopes, RiskScore, PriceCache

VARIABLE moving   \* the part that moves in this behaviour

Part ==
    {"engine", "gateway", "store", "home", "underwriter", "scripts", "registry",
     "limits", "envelopes", "risk", "cache"}

homePageVars == <<app, kept, ata, mislaid, pending, clicks>>
underwriterPageVars == <<form, reads, sent, mandate, edits>>

PartsInit ==
    /\ moving \in Part
    /\ EngineInit /\ GatewayInit /\ StoreInit /\ HomeInit /\ UnderwriterInit
    /\ ScriptsInit /\ RegistryInit /\ LimitsInit /\ EnvelopesInit /\ RiskInit
    /\ CacheInit
    /\ moving # "scripts" => script = E2eFlow
    /\ moving # "cache" => kind = "spot"
    /\ moving # "risk" => inForce = CHOOSE m \in Mandates : TRUE

\* Every part but the one that moves; the two pages share the chain.
OthersStay ==
    /\ UNCHANGED moving
    /\ IF moving \in {"home", "underwriter"} THEN TRUE ELSE UNCHANGED chainVars
    /\ IF moving = "engine" THEN TRUE ELSE UNCHANGED engineVars
    /\ IF moving = "gateway" THEN TRUE ELSE UNCHANGED gatewayVars
    /\ IF moving = "store" THEN TRUE ELSE UNCHANGED storeVars
    /\ IF moving = "home" THEN TRUE ELSE UNCHANGED homePageVars
    /\ IF moving = "underwriter" THEN TRUE ELSE UNCHANGED underwriterPageVars
    /\ IF moving = "scripts" THEN TRUE ELSE UNCHANGED scriptVars
    /\ IF moving = "registry" THEN TRUE ELSE UNCHANGED registryVars
    /\ IF moving = "limits" THEN TRUE ELSE UNCHANGED limitVars
    /\ IF moving = "envelopes" THEN TRUE ELSE UNCHANGED envelopeVars
    /\ IF moving = "risk" THEN TRUE ELSE UNCHANGED riskVars
    /\ IF moving = "cache" THEN TRUE ELSE UNCHANGED cacheVars

PartsNext ==
    \/ moving = "engine" /\ EngineNext /\ OthersStay
    \/ moving = "gateway" /\ GatewayNext /\ OthersStay
    \/ moving = "store" /\ StoreNext /\ OthersStay
    \/ moving = "home" /\ HomeNext /\ OthersStay
    \/ moving = "underwriter" /\ UnderwriterNext /\ OthersStay
    \/ moving = "scripts" /\ ScriptsNext /\ OthersStay
    \/ moving = "registry" /\ RegistryNext /\ OthersStay
    \/ moving = "limits" /\ LimitsNext /\ OthersStay
    \/ moving = "envelopes" /\ EnvelopesNext /\ OthersStay
    \/ moving = "risk" /\ RiskNext /\ OthersStay
    \/ moving = "cache" /\ CacheNext /\ OthersStay

allPartVars ==
    <<moving, chainVars, engineVars, gatewayVars, storeVars, homePageVars,
      underwriterPageVars, scriptVars, registryVars, limitVars, envelopeVars,
      riskVars, cacheVars>>

PartsSpec == PartsInit /\ [][PartsNext]_allPartVars

-----------------------------------------------------------------------------

\* Every part holds values of its types.
PartsTypeOK ==
    /\ EngineTypeOK /\ GatewayTypeOK /\ StoreTypeOK /\ HomeTypeOK
    /\ UnderwriterTypeOK /\ ScriptsTypeOK /\ LimitsTypeOK /\ RiskTypeOK
    /\ CacheTypeOK

\* HomeKeepsAccounts of the behaviours in which the dashboard is the client of the
\* chain: its debt within reach, its tokens conserved.
DashboardKeepsAccounts == moving = "home" => HomeKeepsAccounts

=============================================================================
