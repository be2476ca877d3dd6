CONSTANTS
    MaxVisits = 2
    MaxSwitches = 2

SPECIFICATION MixerSpec

INVARIANTS
    MusicStopsUnlessRaced
    HeardAsChosen


    

\* The visits of the model are used up.
CHECK_DEADLOCK FALSE
