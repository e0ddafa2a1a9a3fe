SPECIFICATION BlockFairSpec
CONSTANTS
    Workloads <- MCWorkloads
    Fillers <- MCFillers
    MaxRivals = 2
    DownwardMessages <- MCDownwardMessages
    HorizontalMessages <- MCHorizontalMessages
PROPERTIES
    PendingIncluded
    
    MessagesServed
