--------------------------- MODULE DashboardPanels ---------------------------
(***************************************************************************)
(* The panels of the dashboard that go through a cache, as DashboardCache  *)
(* sees them: one definition for each endpoint of src/src/routes/htmx.py   *)
(* and src/src/routes/api.py, asked for with its default order and no      *)
(* filter.  Any other order, page or filter is a panel of its own, with    *)
(* the tiers of the table cache at most.                                   *)
(***************************************************************************)

CONSTANT Aggregation  \* dashboard_warmup_aggregation
ASSUME PanelsAssumption == Aggregation \in BOOLEAN

(* The lists the warm-up aggregates for any page, its blobs for the first    *)
(* page, the tables that endpoints store as well, and the hot entries of one *)
(* address.                                                                  *)
Lists == IF Aggregation THEN {"agg"} ELSE {}
WarmTiers == Lists \cup {"blob"}
AllTiers == WarmTiers \cup {"table", "hot"}

(* A panel: the tiers its endpoint looks into before it asks the database,   *)
(* those of them that the warm-up stores under the key the endpoint asks     *)
(* for, whether its query takes the total from the table cache, and whether  *)
(* the warm-up stores its blob right after its list.                         *)
Panel(tiers, warmed) ==
  [tiers |-> tiers, warmed |-> warmed, counted |-> FALSE, early |-> FALSE]

AllIps == [Panel(WarmTiers \cup {"table"}, WarmTiers) EXCEPT !.counted = TRUE]
Honeypot == Panel(Lists \cup {"table"}, Lists \cup {"table"})
Attackers == Panel(Lists \cup {"table"}, Lists \cup {"table"})

(* With aggregation the warm-up cuts the blob of these two out of the list it *)
(* has just stored, and the endpoint falls back to it.                       *)
TopPaths == [Panel(WarmTiers, WarmTiers) EXCEPT !.early = Aggregation]
TopUserAgents == [Panel(WarmTiers, WarmTiers) EXCEPT !.early = Aggregation]

AccessLogs == Panel({"table"}, {})
Suspicious == Panel({"table"}, {})
Patterns == Panel({"table"}, {})
AllIpStats == Panel({"table"}, {})
AttackTypesStats == Panel({"table"}, {})

(* The warm-up stores pages of these three too, but under keys that have     *)
(* fewer fields than those of the endpoints.                                 *)
Credentials == Panel({"table"}, {})
Attacks == Panel({"table"}, {})
Clusters == Panel({"table"}, {})

(* The last of these waits for the end of the warm-up, as the blobs do; here *)
(* it is stored with the others.                                             *)
Filenames == Panel({"table"}, {"table"})
CampaignStats == Panel({"table"}, {"table"})
AttackTypesDaily == Panel({"table"}, {"table"})

(* An address: get_ip_stats_by_ip keeps what it read for half a minute.      *)
IpInsight == Panel({"hot"}, {})

AllPanels ==
  [all_ips |-> AllIps, top_paths |-> TopPaths, top_user_agents |-> TopUserAgents,
   honeypot |-> Honeypot, attackers |-> Attackers, access_logs |-> AccessLogs,
   suspicious |-> Suspicious, patterns |-> Patterns, all_ip_stats |-> AllIpStats,
   attack_types_stats |-> AttackTypesStats, credentials |-> Credentials,
   attacks |-> Attacks, clusters |-> Clusters, filenames |-> Filenames,
   campaign_stats |-> CampaignStats, attack_types_daily |-> AttackTypesDaily,
   ip_insight |-> IpInsight]
=============================================================================
