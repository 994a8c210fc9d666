SPECIFICATION Spec
CONSTANTS
    MAX_FULL_OMITS = 4
    WeekdayOmits <- MCWeekdayOmits
    DateOmits <- MCDateOmits
    AddOmitDates <- MCAddOmitDates
    MaxSaved = 1
INVARIANT SearchIsMembership
PROPERTY ImplementsOmitSets
