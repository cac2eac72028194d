CONSTANTS
  Aggregation = TRUE
  Readers = {r1}
  Panels = {"all_ips", "ip_insight"}
  BlobTTL = 1
  TableTTL = 2
  HotTTL = 1
  MaxHeld = 1
SPECIFICATION CacheSpec
INVARIANTS WritesShow NeverOlder
