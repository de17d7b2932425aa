SPECIFICATION OnboardSpec
CONSTANTS
    Joins = {j1, j2}
PROPERTIES ConnectingEnds CredentialsShown CredentialsHidden
