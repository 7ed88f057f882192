SPECIFICATION MCSpec
CONSTANTS
    Workers = {w1} MaxFaults = 3
    Releases = {"20260506_000003_add_a2a_fields_to_guilds", "20260515_000000_add_name_to_workers", "20261026_000000"}
    MaxInterrupts = 2 MaxDowngrades = 1
INVARIANTS UpgradesApply ModelsServed
  
CHECK_DEADLOCK FALSE
