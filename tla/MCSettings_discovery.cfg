SPECIFICATION SettingsSpec
CONSTANT Environments <- MCEnvironments
INVARIANT ClusterIsDiscovered
CHECK_DEADLOCK FALSE
