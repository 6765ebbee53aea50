SPECIFICATION SettingsSpec
CONSTANTS
    Branch = {"bistro"}
    FormatLocale <- MCLocale
    OptionKey = {1, 2}
    FirstLayers <- MCFirstLayers
    FirstOwner <- MCFirstOwner
    Founding <- MCFounding
    MaxWork = 2
    MaxOptionVersion = 3
CHECK_DEADLOCK FALSE
INVARIANT PublishedIsReadable
