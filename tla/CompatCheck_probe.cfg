CONSTANTS
    fa = fa  fb = fb  ra = ra  rb = rb  NoRoute = NoRoute
    Feature = {fa, fb}
    FeatureRoute <- TwoRoutes
    FeatureNeeds <- TwoNeeds
    WritesMigration = {fa}
    BrowserFeature = {fb}
    MaxConfigures = 1
    MaxAsked = 2
SPECIFICATION CompatSpec
CHECK_DEADLOCK FALSE
INVARIANT NewRoutesAreProbed
