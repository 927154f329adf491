SPECIFICATION Spec
CONSTANTS
    Workers = {w1, w2}
    Owner = Owner
    People = {Owner, p2, p3}
    Invitations = {i1, i2}
    None = None
    BillingExempt = {Owner}
    Limits = {0, 2}
    Grants <- MCGrants
    Updates <- MCUpdates
SYMMETRY MCSymmetry
CONSTRAINT NotOvertaken
INVARIANTS NobodyReservedTwice OneActiveOwner
PROPERTIES SlotsNeverOversold AcceptedForGood
